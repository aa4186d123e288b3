SPECIFICATION PSpec
CONSTANTS
  Handlers = {h1, h2}
  None = None
  NoMessage = NoMessage
  Names <- MCNames
  Words <- MCWords
  SendRequests <- MCSends
  PullRequests <- BothWays
  Times = {1}
  Limits = {1}
  MaxCursor = 2
  DefaultLimit = 1
  MaxOpenConns = 2
  Clock = "any"
  MaxSends = 3
  MaxPulls = 1
  MaxCrashes = 1
  SessionChat <- MCChat
  SessionLimits = {1}
  SessionDirections = {FALSE}
  MaxRetries = 1
SYMMETRY HandlerSymmetry
INVARIANTS
  MoreToCome
CHECK_DEADLOCK FALSE
