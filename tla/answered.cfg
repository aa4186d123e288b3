SPECIFICATION StockedSpec
CONSTANTS
  Handlers = {h1, h2, h3}
  None = None
  NoMessage = NoMessage
  Names <- MCNames
  Words <- MCWords
  SendRequests <- FewSends
  PullRequests <- FewBackward
  Times = {1}
  Limits = {1}
  MaxCursor = 1
  DefaultLimit = 1
  MaxOpenConns = 2
  Clock = "any"
  MaxSends = 5
  MaxPulls = 3
  MaxCrashes = 1
PROPERTIES
  AllAnswered
CHECK_DEADLOCK FALSE
