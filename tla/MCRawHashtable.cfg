\* Groups of two slots, tables of 4, 8 and 16 of which a quarter stays empty.
CONSTANTS
  t1 = t1
  t2 = t2
  Empty = Empty
  Deleted = Deleted
  GroupSize = 2
  MinAllocatedSize = 4
  LoadDenominator = 4
  MaxAllocSize = 16
  MaxReserve = 2
  Setups <- MCSetups
SPECIFICATION Spec
INVARIANTS
  TypeOK
  FindsWhatIsThere
  BudgetIsExact
  GrowthIsReserved
