SPECIFICATION Spec
CONSTANTS
  Handlers = {h1, h2}
  None = None
  NoMessage = NoMessage
  Names <- MCNames
  Words <- MCWords
  SendRequests <- MCSends
  PullRequests <- Forward
  Times = {1, 2, 3}
  Limits = {1}
  MaxCursor = 2
  DefaultLimit = 1
  MaxOpenConns = 2
  Clock = "distinct"
  MaxSends = 3
  MaxPulls = 2
  MaxCrashes = 1
SYMMETRY HandlerSymmetry
INVARIANTS
  ForwardCursorsExact
