SPECIFICATION Spec
CONSTANTS
  FileOps = {f1, f2}
  Items = {i1, i2}
  Threshold = 3
  MaxEdits = 2
  Asks = {r1, r2}
  AskTimeout = 1
  AskExpiry = 2
  LastTime = 3
  Windows = {w1, w2}
  NoToken = NoToken
  Span = 3
  MaxMutations = 2
  MaxEvents = 1
  c0 = c0
  c1 = c1
  c2 = c2
  c3 = c3
  Controls = {c0, c1, c2, c3}
  Root = c0
  Trees <- MCTrees
  MaxTreeControls = 3
  MaxTreeDepth = 2
  MaxRebuilds = 1
  BrowserCalls = {b1, b2, b3}
  NoCall = NoCall
  MaxContent = 2
  Letters = {"x", "k", "e", "n"}
  Pages <- MCPages
  SessionSecrets <- MCSecrets
  NewSecrets <- MCNewSecrets
INVARIANTS
  
  
  ApprovalIsCurrent
  
  
  UniqueTarget
  BrowserTurns
  GuardedBrowser
  
CHECK_DEADLOCK FALSE
