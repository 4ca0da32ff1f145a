\* Three calls of an AfterSend hook in any order, then the life of the entry.
SPECIFICATION Spec
CONSTANTS
  Second = 2
  U32 = 4
  v1 = v1
  v2 = v2
  k1 = k1
  k2 = k2
  Unset = Unset
  Rules <- MCRules
  Keys <- MCKeys
  Suggestions <- MCSuggestions
  Requests <- MCRequests
  Secs <- MCSecs
  MaxCalls = 3
  MaxTicks = 8
INVARIANTS
  HookHasLastWord
  RequestKeysStored
  RevalidationIsNoInsert
  TTLAsTold
PROPERTY FreshTTL
\* The entry's life is bounded.
CHECK_DEADLOCK FALSE
