SPECIFICATION PFairSpec
CONSTANTS
  Handlers = {h1, h2}
  None = None
  NoMessage = NoMessage
  Names <- MCNames
  Words <- MCWords
  SendRequests <- MCSends
  PullRequests <- BothWays
  Times = {1, 2}
  Limits = {1}
  MaxCursor = 1
  DefaultLimit = 1
  MaxOpenConns = 2
  Clock = "distinct"
  MaxSends = 2
  MaxPulls = 1
  MaxCrashes = 1
  SessionChat <- MCChat
  SessionLimits = {1}
  SessionDirections = {FALSE, TRUE}
  MaxRetries = 1
PROPERTIES
  SessionEnds
CHECK_DEADLOCK FALSE
