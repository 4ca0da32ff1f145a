\* GetOrSet beside a user of the Core Cache API who does anything.
SPECIFICATION Spec
CONSTANTS
  None = None
  NoObject = NoObject
  s1 = s1
  s2 = s2
  s3 = s3
  k1 = k1
  o1 = o1
  o2 = o2
  Sends <- MCUsers
  Simple <- MCSimple
  Objects <- MCObjects
SYMMETRY MCSymmetry
INVARIANTS
  TypeOK
  OneSetter
  NoTruncatedRead
  ObligationInUse
PROPERTY KeepsPromise
\* Every call ends, and the objects are used up.
CHECK_DEADLOCK FALSE
