\* Three processes, one of which may also remove the component by force; no
\* symmetry, for liveness.
CONSTANTS
  p1 = p1
  p2 = p2
  p3 = p3
  NoProc = NoProc
  Procs <- MCProcs
  Forcers <- MCForcers
SPECIFICATION FairSpec
INVARIANTS
  TypeOK
  NoRedundantBuild
  PathIsComplete
  ReleaseCheckHolds
  NothingKept
PROPERTIES
  OnlyHolderWrites
  IsWriteOnceSlot
  BuildNeverStuck
