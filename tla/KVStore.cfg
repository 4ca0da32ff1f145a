\* Two clients that read, modify and write one of the keys a listing returns,
\* and the listing.
SPECIFICATION Spec
CONSTANTS
  c1 = c1
  c2 = c2
  Clients = {c1, c2}
  MaxKey = 3
  Prefixed = {2, 3}
  Written = {2}
  Limit = 1
  MaxOps = 2
  MaxCalls = 2
  Absent = Absent
SYMMETRY ClientSymmetry
INVARIANT NoLostUpdate
INVARIANT ToldTheTruth
INVARIANT ListComplete
\* Every client and the listing come to the end of their bounds.
CHECK_DEADLOCK FALSE
