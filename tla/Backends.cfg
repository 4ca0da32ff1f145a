SPECIFICATION BackendsSpec
CONSTANTS
  U32 = 8
  Ms = 2
  Second = 4
  Durations <- MCDurations
  Counts = {0, 3}
  Text = Text
  Blank = Blank
  Unset = Unset
  MaxCalls = 3
INVARIANT RegisteredAsSaid
INVARIANT LastWordOnSwitches
INVARIANT BackendTells
