SPECIFICATION Spec
CONSTANTS
  Calls = {c1, c2}
  Ops = {o1}
  Payloads = {p1, p2}
  MaxConns = 1
  TTL = 1
  MaxTime = 0
  None = None
SYMMETRY Symmetry
INVARIANT LateResponseNotCompleted
CHECK_DEADLOCK FALSE
