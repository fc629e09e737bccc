SPECIFICATION Spec
CONSTANTS
  Threads = {t1, t2}
  MaxRuntimes = 2
  MaxPresses = 1
  MaxResets = 1
SYMMETRY Symmetry
INVARIANTS
  OneLateInput
  QueuedCancelled
  ServedWithKey
CHECK_DEADLOCK FALSE
