SPECIFICATION FairSpec
CONSTANTS
  Calls = {c1, c2}
  Ops = {o1}
  Payloads = {p1}
  MaxConns = 1
  TTL = 1
  MaxTime = 0
  None = None
PROPERTIES
  ThreadsTerminate
  SessionFreed
CHECK_DEADLOCK FALSE
