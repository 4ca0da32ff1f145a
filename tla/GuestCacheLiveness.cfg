\* Liveness of Send: one call in each of two sandboxes, under fairness.
SPECIFICATION FairSpec
CONSTANTS
  None = None
  Sends <- LiveSends
  Sandboxes <- MCSandboxes
  Home <- LiveHome
  Hooks <- LiveHooks
PROPERTY SendReturns
\* Every sandbox ends.
CHECK_DEADLOCK FALSE
