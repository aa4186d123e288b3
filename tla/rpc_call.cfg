SPECIFICATION HSpec
CONSTANTS
  Nil = Nil
  Error = Error
  SendRequests <- MCSendRequests
  PullRequests <- MCPullRequests
  SendOutcomes <- MCSendOutcomes
  PullOutcomes <- MCPullOutcomes
  SendForms <- MCSendForms
  PullForms <- MCPullForms
  Now <- MCNow
  MaxNewer = 2
INVARIANTS
  RequestArrives
  ResponseArrives
  BufferFits
  FailsForCause
  BreakNoticed
  PageShown
CHECK_DEADLOCK FALSE
