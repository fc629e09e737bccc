SPECIFICATION CodexSpec
CONSTANTS
  Jobs = {j1, j2}
  Ops = {o1, o2}
  CodexOps = {o1}
  MaxConcurrent = 1
  Retention = 1
  MaxTime = 0
  DiskFaults = TRUE
  None = None
INVARIANT
  AdapterKnowsJobs
PROPERTIES
  CodexJobEnds
  CancelledDies
  CloseEnds
