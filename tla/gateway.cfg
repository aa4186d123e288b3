SPECIFICATION GSpec
CONSTANTS
  Handlers = {h1, h2}
  Calls = {c1, c2, c3}
  None = None
  NoMessage = NoMessage
  Names <- MCNames
  Words <- MCWords
  SendRequests <- MCSends
  PullRequests <- MCPulls
  Posts <- MCPosts
  MaxTime = 1
  DefaultLimit = 2
  MaxOpenConns = 2
  Clock = "any"
  MaxSends = 2
  MaxPulls = 3
  MaxCrashes = 1
SYMMETRY GatewaySymmetry
INVARIANTS
  GTypeOK
  AckedStored
  CausalOrder
  ReadsAcked
  PullsAgree
PROPERTIES
  Promised
CHECK_DEADLOCK FALSE
