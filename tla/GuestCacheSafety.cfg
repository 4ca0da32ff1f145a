\* Safety of sendWithGuestCache over two sandboxes and three calls of Send.
SPECIFICATION Spec
CONSTANTS
  None = None
  Sends <- MCSends
  Sandboxes <- MCSandboxes
  Home <- MCHome
  Hooks <- MCHooks
INVARIANTS
  TypeOK
  ObligationTracked
  OneFetchInFlight
  FailedSendLetsGo
  RevalidationsDrained
PROPERTY KeepsPromise
\* Every sandbox ends, and a sandbox may wait for its own obligation.
CHECK_DEADLOCK FALSE
