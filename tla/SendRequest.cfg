\* Send on one Request: building, routing, copying and polling.
SPECIFICATION FairSpec
CONSTANT MaxCalls = 3
INVARIANTS
  
  TruncationVisible
PROPERTIES
  ReportsComeFirst
  CopyTerminates
  SendTerminates
\* The handler may be done with the Request, and a panic ends the sandbox.
CHECK_DEADLOCK FALSE
