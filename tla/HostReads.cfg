SPECIFICATION FairReadsSpec
CONSTANTS
  Small = 1
  Medium = 2
  Large = 3
  Longest = 4
  r1 = r1
  r2 = r2
  Readers = {r1, r2}
  DictReaders = {r2}
  Lengths = {1, 2, 4}
  Absent = Absent
  Zero = Zero
  Unknown = Unknown
  Free = Free
INVARIANT ResultWhole
PROPERTY LookupReturns
