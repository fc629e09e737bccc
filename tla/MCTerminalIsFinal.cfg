SPECIFICATION Spec
CONSTANTS
  Jobs = {j1, j2}
  Ops = {o1, o2}
  MaxConcurrent = 1
  Retention = 1
  MaxTime = 0
  DiskFaults = FALSE
  None = None
PROPERTY
  TerminalIsFinal
