\* One process and a clock, so that entries have different ages.
CONSTANTS
  p1 = p1
  p2 = p2
  e1 = e1
  e2 = e2
  e3 = e3
  e4 = e4
  NoEntry = NoEntry
  Procs <- OneProc
  Entries <- FourEntries
  MinNumEntries = 2
  MaxNumEntries = 2
  MaxEntryAge = 2
  MaxLockedEntryAge = 1
  StartTime = 3
  MaxTime = 5
SPECIFICATION Spec
INVARIANTS
  PruneIsLRU
