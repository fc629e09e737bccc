SPECIFICATION FairSpec
CONSTANTS
  Threads = {t1, t2}
  MaxRuntimes = 1
  MaxPresses = 2
  MaxResets = 1
PROPERTIES
  PressHeeded
  WaitBounded
CHECK_DEADLOCK FALSE
