SPECIFICATION Spec
CONSTANTS
  Calls = {c1, c2}
  Ops = {o1, o2}
  Payloads = {p1, p2}
  MaxConns = 2
  TTL = 1
  MaxTime = 0
  None = None
SYMMETRY Symmetry
INVARIANTS
  ResultCorrelates
  OneAtATime
  
  RunningCancellable
CHECK_DEADLOCK FALSE
