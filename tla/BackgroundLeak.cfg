\* A background revalidation that fails keeps its cache handle.
SPECIFICATION Spec
CONSTANTS
  None = None
  Sends <- MCSends
  Sandboxes <- MCSandboxes
  Home <- MCHome
  Hooks <- MCHooks
\* Every sandbox ends, and a sandbox may wait for its own obligation.
CHECK_DEADLOCK FALSE
INVARIANT HandleClosedInGoroutine
