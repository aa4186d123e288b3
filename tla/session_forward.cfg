SPECIFICATION PSpec
CONSTANTS
  Handlers = {h1, h2}
  None = None
  NoMessage = NoMessage
  Names <- MCNames
  Words <- MCWords
  SendRequests <- MCSends
  PullRequests <- BothWays
  Times = {1, 2, 3}
  Limits = {1, 2}
  MaxCursor = 2
  DefaultLimit = 1
  MaxOpenConns = 2
  Clock = "ordered"
  MaxSends = 3
  MaxPulls = 1
  MaxCrashes = 1
  SessionChat <- MCChat
  SessionLimits = {0, 2}
  SessionDirections = {FALSE}
  MaxRetries = 1
SYMMETRY HandlerSymmetry
INVARIANTS
  PTypeOK
  ForwardCursorsExact
  NothingMissed
  InOrderOnce
  MoreToCome
PROPERTIES
  ForwardTransparent
CHECK_DEADLOCK FALSE
