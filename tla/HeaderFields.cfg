\* The fields of two names, read through buffers too small for all of them.
SPECIFICATION FairSpec
CONSTANTS
  None = None
  n1 = n1
  n2 = n2
  short = short
  long = long
  Names <- MCNames
  Vals <- MCVals
  Size <- MCSize
  Medium = 1
  Large = 2
  MaxValues = 3
INVARIANTS
  HeaderComplete
  NothingLostOrTwice
PROPERTY ReadEnds
\* A Header that was read is final.
CHECK_DEADLOCK FALSE
