SPECIFICATION Spec
CONSTANTS
  Jobs = {j1, j2}
  Ops = {o1, o2}
  MaxConcurrent = 1
  Retention = 1
  MaxTime = 2
  DiskFaults = TRUE
  None = None
SYMMETRY Symmetry
INVARIANT
  JobsAccounted
PROPERTY
  DurableLifecycle
