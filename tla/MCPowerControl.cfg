SPECIFICATION Spec
CONSTANTS
  Calls = {c1, c2}
  Ops = {o1, o2}
  Payloads = {p1, p2}
  MaxConns = 2
  TTL = 1
  MaxTime = 1
  Window = 1
  None = None
SYMMETRY Symmetry
INVARIANTS
  OneShot
  ConsentIsOwn
  OkMeansPerformed
  
PROPERTIES
  ConsentedPowerSpec
CHECK_DEADLOCK FALSE
