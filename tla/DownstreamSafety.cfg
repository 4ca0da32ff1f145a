\* Handlers of every kind, over the requests of a reusable sandbox.
SPECIFICATION Spec
CONSTANTS
  MaxRequests = 2
  MaxHints = 1
  MaxClients = 3
INVARIANTS
  PanicMeansNoResponse
  ResponsesEnded
  ServedBound
 
\* The sandbox ends, by itself or in a panic.
CHECK_DEADLOCK FALSE
