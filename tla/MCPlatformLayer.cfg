SPECIFICATION Spec
CONSTANTS
  call = call
  cancel = cancel
  other = other
  huge = huge
  Writers = {call, cancel, other, huge}
  SizeOf <- MCSizeOf
  PrefixSize = 2
  MaxMessageSize = 3
  WholeWrites = TRUE
  NoWriter = NoWriter
  MaxPipes = 3
  MaxGeneration = 1
  OfflineAfter = 1
  MaxDisconnects = 2
  Requests = {r1, r2}
  NoRequest = NoRequest
  DrainLimit = 2
  PipeBuffer = 1
  MaxAttempts = 2
  MaxDefects = 1
  Starts = {s1, s2}
  MaxOutput = 2
  MaxChunks = 2
INVARIANTS
  HandlesAccounted
  ServiceStatus
  RunsBoundSettings
  OneGeneration
  
  
PROPERTIES
  
  WatcherStops
  StopReported
CHECK_DEADLOCK FALSE
