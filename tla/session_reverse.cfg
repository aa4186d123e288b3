SPECIFICATION PSpec
CONSTANTS
  Handlers = {h1}
  None = None
  NoMessage = NoMessage
  Names <- MCNames
  Words <- MCWords
  SendRequests <- MCSends
  PullRequests <- BothWays
  Times = {1, 2, 3}
  Limits = {1}
  MaxCursor = 2
  DefaultLimit = 1
  MaxOpenConns = 2
  Clock = "distinct"
  MaxSends = 3
  MaxPulls = 2
  MaxCrashes = 1
  SessionChat <- MCChat
  SessionLimits = {0, 2}
  SessionDirections = {TRUE}
  MaxRetries = 1
INVARIANTS
  ReverseCursorsExact
  NothingMissed
  MoreToCome
PROPERTIES
  ReverseTransparent
CHECK_DEADLOCK FALSE
