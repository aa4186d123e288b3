SPECIFICATION RSpec
CONSTANTS
  Handlers = {h1, h2}
  None = None
  NoMessage = NoMessage
  Names <- MCNames
  Words <- MCWords
  SendRequests <- MCSends
  PullRequests <- BothWays
  Times = {1, 2, 3}
  Limits = {0}
  MaxCursor = 2
  DefaultLimit = 1
  MaxOpenConns = 2
  Clock = "distinct"
  MaxSends = 3
  MaxPulls = 3
  MaxCrashes = 1
SYMMETRY HandlerSymmetry
INVARIANTS
  TypeOK
  CursorsSound
  CursorsNotAhead
  StaleOnlyByRace
PROPERTIES
  UnracedExact
