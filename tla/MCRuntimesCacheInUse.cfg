\* An entry in use and a concurrent prune; the clock stands still.
CONSTANTS
  p1 = p1
  p2 = p2
  e1 = e1
  e2 = e2
  e3 = e3
  e4 = e4
  NoEntry = NoEntry
  Procs <- TwoProcs
  Entries <- ThreeEntries
  MinNumEntries = 1
  MaxNumEntries = 1
  MaxEntryAge = 2
  MaxLockedEntryAge = 1
  StartTime = 3
  MaxTime = 3
SPECIFICATION Spec
INVARIANTS
  InUseNotRemoved
