\* GetOrSet and its readers come to an end, under fairness.
SPECIFICATION FairSpec
CONSTANTS
  None = None
  NoObject = NoObject
  s1 = s1
  s2 = s2
  s3 = s3
  k1 = k1
  o1 = o1
  o2 = o2
  Sends <- LiveUsers
  Simple <- LiveUsers
  Objects <- MCObjects
PROPERTIES
  GetOrSetReturns
  ReadersFinish
\* Every call ends.
CHECK_DEADLOCK FALSE
