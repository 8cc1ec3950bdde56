------------------------- MODULE RuntimesBuildProofs -------------------------
(***************************************************************************)
(* Proofs about RuntimesBuild for any number of processes: its safety      *)
(* invariants, that only the lock's holder rewrites the lock file, and     *)
(* that it implements ComponentSlot.                                       *)
(***************************************************************************)
EXTENDS RuntimesBuild, TLAPS

Holding == {"pid", "recheck", "mktmp", "building", "commit", "discard",
            "clear", "unlock"}

\* Who may hold the lock and have the lock file open, by where it is.
LockInv ==
  \A p \in Procs :
    /\ pc[p] \in {"pid", "unlock"} => flock = p
    /\ flock = p => pc[p] \in Holding
    /\ p \in file <=> pc[p] = "lock" \/ flock = p
    /\ ~overtime /\ pc[p] \in Holding => flock = p

\* A staging directory exists only while its Builder does, unless it is left
\* behind without a path being answered, and is complete when the Builder
\* commits.
StagingInv ==
  \A p \in Procs :
    /\ pc[p] = "commit" => staging[p] = "full"
    /\ staging[p] \in {"partial", "full"} =>
         pc[p] \in {"building", "commit", "discard", "clear", "unlock", "rmtmp"}
    /\ staging[p] = "left" =>
         result[p] # "path" /\ pc[p] \in {"clear", "unlock"} \cup Ended \cup RemoveSteps

\* Until a removal is forced the destination is only ever absent or full.
DestInv ==
  ~forced =>
    /\ dest \in {"absent", "full"}
    /\ \A p \in Procs :
         /\ pc[p] \notin RemoveSteps
         /\ result[p] = "path" => dest = "full"
         /\ pc[p] = "discard" => overtime /\ dest = "full"
         /\ ~overtime /\ pc[p] \in {"mktmp", "building", "commit"} =>
              dest = "absent"

IInv == TypeOK /\ LockInv /\ StagingInv /\ DestInv

\* The initial states satisfy the inductive invariant.
LEMMA InitIInv == Init => IInv
  BY ProcsAssumption
  DEF Init, IInv, TypeOK, LockInv, StagingInv, DestInv, PCs, Ended, BuildSteps,
      RemoveSteps, Holding

\* Every step preserves the inductive invariant.
LEMMA NextIInv == IInv /\ [Next]_vars => IInv'
<1> SUFFICES ASSUME IInv, [Next]_vars PROVE IInv'
  OBVIOUS
<1> USE ProcsAssumption
    DEF IInv, TypeOK, PCs, Ended, BuildSteps, RemoveSteps, Holding, Goto, Return
<1>1. ASSUME NEW p \in Procs, Call(p) PROVE IInv'
  <2> USE <1>1 DEF Call
  <2>1. TypeOK'
    OBVIOUS
  <2>2. LockInv'
    BY DEF LockInv
  <2>3. StagingInv'
    BY DEF StagingInv
  <2>4. DestInv'
    BY DEF DestInv, LockInv, StagingInv
  <2> QED
    BY <2>1, <2>2, <2>3, <2>4
<1>2. ASSUME NEW p \in Procs, GetExisting(p) PROVE IInv'
  <2> USE <1>2 DEF GetExisting, Exists
  <2>1. TypeOK'
    OBVIOUS
  <2>2. LockInv'
    BY DEF LockInv
  <2>3. StagingInv'
    BY DEF StagingInv
  <2>4. DestInv'
    BY DEF DestInv, LockInv, StagingInv
  <2> QED
    BY <2>1, <2>2, <2>3, <2>4
<1>3. ASSUME NEW p \in Procs, OpenLockFile(p) PROVE IInv'
  <2> USE <1>3 DEF OpenLockFile
  <2>1. TypeOK'
    OBVIOUS
  <2>2. LockInv'
    BY DEF LockInv
  <2>3. StagingInv'
    BY DEF StagingInv
  <2>4. DestInv'
    BY DEF DestInv, LockInv, StagingInv
  <2> QED
    BY <2>1, <2>2, <2>3, <2>4
<1>4. ASSUME NEW p \in Procs, Acquire(p) PROVE IInv'
  <2> USE <1>4 DEF Acquire
  <2>1. TypeOK'
    OBVIOUS
  <2>2. LockInv'
    BY DEF LockInv
  <2>3. StagingInv'
    BY DEF StagingInv
  <2>4. DestInv'
    BY DEF DestInv, LockInv, StagingInv
  <2> QED
    BY <2>1, <2>2, <2>3, <2>4
<1>5. ASSUME NEW p \in Procs, LockTimeout(p) PROVE IInv'
  <2> USE <1>5 DEF LockTimeout
  <2>1. TypeOK'
    OBVIOUS
  <2>2. LockInv'
    BY DEF LockInv
  <2>3. StagingInv'
    BY DEF StagingInv
  <2>4. DestInv'
    BY DEF DestInv, LockInv, StagingInv
  <2> QED
    BY <2>1, <2>2, <2>3, <2>4
<1>6. ASSUME NEW p \in Procs, LockError(p) PROVE IInv'
  <2> USE <1>6 DEF LockError, ReturnError, Die, Holds
  <2>1. TypeOK'
    OBVIOUS
  <2>2. LockInv'
    BY DEF LockInv
  <2>3. StagingInv'
    BY DEF StagingInv
  <2>4. DestInv'
    BY DEF DestInv, LockInv, StagingInv
  <2> QED
    BY <2>1, <2>2, <2>3, <2>4
<1>7. ASSUME NEW p \in Procs, WritePid(p) PROVE IInv'
  <2> USE <1>7 DEF WritePid
  <2>1. TypeOK'
    OBVIOUS
  <2>2. LockInv'
    BY DEF LockInv
  <2>3. StagingInv'
    BY DEF StagingInv
  <2>4. DestInv'
    BY DEF DestInv, LockInv, StagingInv
  <2> QED
    BY <2>1, <2>2, <2>3, <2>4
<1>8. ASSUME NEW p \in Procs, Recheck(p) PROVE IInv'
  <2> USE <1>8 DEF Recheck, Exists, Holds
  <2>1. TypeOK'
    OBVIOUS
  <2>2. LockInv'
    BY DEF LockInv
  <2>3. StagingInv'
    BY DEF StagingInv
  <2>4. DestInv'
    BY DEF DestInv, LockInv, StagingInv
  <2> QED
    BY <2>1, <2>2, <2>3, <2>4
<1>9. ASSUME NEW p \in Procs, MakeTmpDir(p) PROVE IInv'
  <2> USE <1>9 DEF MakeTmpDir, NewTmpDir, ReturnError, Die, Holds
  <2>1. TypeOK'
    OBVIOUS
  <2>2. LockInv'
    BY DEF LockInv
  <2>3. StagingInv'
    BY DEF StagingInv
  <2>4. DestInv'
    BY DEF DestInv, LockInv, StagingInv
  <2> QED
    BY <2>1, <2>2, <2>3, <2>4
<1>10. ASSUME NEW p \in Procs, Populate(p) PROVE IInv'
  <2> USE <1>10 DEF Populate
  <2>1. TypeOK'
    OBVIOUS
  <2>2. LockInv'
    BY DEF LockInv
  <2>3. StagingInv'
    BY DEF StagingInv
  <2>4. DestInv'
    BY DEF DestInv, LockInv, StagingInv
  <2> QED
    BY <2>1, <2>2, <2>3, <2>4
<1>11. ASSUME NEW p \in Procs, Rename(p) PROVE IInv'
  <2> USE <1>11 DEF Rename
  <2>1. TypeOK'
    BY DEF StagingInv
  <2>2. LockInv'
    BY DEF LockInv
  <2>3. StagingInv'
    BY DEF StagingInv
  <2>4. DestInv'
    BY DEF DestInv, LockInv, StagingInv
  <2> QED
    BY <2>1, <2>2, <2>3, <2>4
<1>12. ASSUME NEW p \in Procs, Discard(p) PROVE IInv'
  <2> USE <1>12 DEF Discard
  <2>1. TypeOK'
    OBVIOUS
  <2>2. LockInv'
    BY DEF LockInv
  <2>3. StagingInv'
    BY DEF StagingInv
  <2>4. DestInv'
    BY DEF DestInv, LockInv, StagingInv
  <2> QED
    BY <2>1, <2>2, <2>3, <2>4
<1>13. ASSUME NEW p \in Procs, ClearLockFile(p) PROVE IInv'
  <2> USE <1>13 DEF ClearLockFile, Holds, AfterRelease
  <2>1. TypeOK'
    OBVIOUS
  <2>2. LockInv'
    BY DEF LockInv
  <2>3. StagingInv'
    BY DEF StagingInv
  <2>4. DestInv'
    BY DEF DestInv, LockInv, StagingInv
  <2> QED
    BY <2>1, <2>2, <2>3, <2>4
<1>14. ASSUME NEW p \in Procs, Unlock(p) PROVE IInv'
  <2> USE <1>14 DEF Unlock, AfterRelease
  <2>1. TypeOK'
    OBVIOUS
  <2>2. LockInv'
    BY DEF LockInv
  <2>3. StagingInv'
    BY DEF StagingInv
  <2>4. DestInv'
    BY DEF DestInv, LockInv, StagingInv
  <2> QED
    BY <2>1, <2>2, <2>3, <2>4
<1>15. ASSUME NEW p \in Procs, RemoveStaging(p) PROVE IInv'
  <2> USE <1>15 DEF RemoveStaging
  <2>1. TypeOK'
    OBVIOUS
  <2>2. LockInv'
    BY DEF LockInv
  <2>3. StagingInv'
    BY DEF StagingInv
  <2>4. DestInv'
    BY DEF DestInv, LockInv, StagingInv
  <2> QED
    BY <2>1, <2>2, <2>3, <2>4
<1>16. ASSUME NEW p \in Procs, CallRemove(p) PROVE IInv'
  <2> USE <1>16 DEF CallRemove
  <2>1. TypeOK'
    OBVIOUS
  <2>2. LockInv'
    BY DEF LockInv
  <2>3. StagingInv'
    BY DEF StagingInv
  <2>4. DestInv'
    BY DEF DestInv, LockInv, StagingInv
  <2> QED
    BY <2>1, <2>2, <2>3, <2>4
<1>17. ASSUME NEW p \in Procs, Rmdir(p) PROVE IInv'
  <2> USE <1>17 DEF Rmdir
  <2>1. TypeOK'
    OBVIOUS
  <2>2. LockInv'
    BY DEF LockInv
  <2>3. StagingInv'
    BY DEF StagingInv
  <2>4. DestInv'
    BY DEF DestInv, LockInv, StagingInv
  <2> QED
    BY <2>1, <2>2, <2>3, <2>4
<1>18. ASSUME NEW p \in Procs, RmOpen(p) PROVE IInv'
  <2> USE <1>18 DEF RmOpen, Exists
  <2>1. TypeOK'
    OBVIOUS
  <2>2. LockInv'
    BY DEF LockInv
  <2>3. StagingInv'
    BY DEF StagingInv
  <2>4. DestInv'
    BY DEF DestInv, LockInv, StagingInv
  <2> QED
    BY <2>1, <2>2, <2>3, <2>4
<1>19. ASSUME NEW p \in Procs, Unlink(p) PROVE IInv'
  <2> USE <1>19 DEF Unlink
  <2>1. TypeOK'
    OBVIOUS
  <2>2. LockInv'
    BY DEF LockInv
  <2>3. StagingInv'
    BY DEF StagingInv
  <2>4. DestInv'
    BY DEF DestInv, LockInv, StagingInv
  <2> QED
    BY <2>1, <2>2, <2>3, <2>4
<1>20. ASSUME NEW p \in Procs, Crash(p) PROVE IInv'
  <2> USE <1>20 DEF Crash, Die, Holds
  <2>1. TypeOK'
    OBVIOUS
  <2>2. LockInv'
    BY DEF LockInv
  <2>3. StagingInv'
    BY DEF StagingInv
  <2>4. DestInv'
    BY DEF DestInv, LockInv, StagingInv
  <2> QED
    BY <2>1, <2>2, <2>3, <2>4
<1>21. ASSUME NEW p \in Procs, Restart(p) PROVE IInv'
  <2> USE <1>21 DEF Restart
  <2>1. TypeOK'
    OBVIOUS
  <2>2. LockInv'
    BY DEF LockInv
  <2>3. StagingInv'
    BY DEF StagingInv
  <2>4. DestInv'
    BY DEF DestInv, LockInv, StagingInv
  <2> QED
    BY <2>1, <2>2, <2>3, <2>4
<1>22. CASE UNCHANGED vars
  BY <1>22 DEF vars, LockInv, StagingInv, DestInv
<1> QED
  BY <1>1, <1>2, <1>3, <1>4, <1>5, <1>6, <1>7, <1>8, <1>9, <1>10, <1>11, <1>12, <1>13, <1>14, <1>15, <1>16, <1>17, <1>18, <1>19, <1>20, <1>21, <1>22
  DEF Next, BuildStep, Progress, RemoveStep

\* Every reachable state of BuildImpl, Commit and Remove satisfies IInv.
THEOREM Invariance == Spec => []IInv
  BY InitIInv, NextIInv, PTL DEF Spec

\* The variables stay in their types, for any number of processes.
THEOREM TypeCorrect == Spec => []TypeOK
<1>1. IInv => TypeOK
  BY DEF IInv
<1> QED
  BY <1>1, Invariance, PTL

\* Until a deadline passes or a removal is forced, the lock and the second
\* Get of BuildImpl leave at most one build in flight and none thrown away.
THEOREM BuildsAreNotRedundant == Spec => []NoRedundantBuild
<1>1. IInv => NoRedundantBuild
  BY DEF IInv, LockInv, DestInv, NoRedundantBuild, Holding
<1> QED
  BY <1>1, Invariance, PTL

\* A path that Build returns names a complete directory unless a removal was
\* forced, whichever deadlines pass and whichever processes crash.
THEOREM ReturnedPathsAreComplete == Spec => []PathIsComplete
<1>1. IInv => PathIsComplete
  BY DEF IInv, DestInv, PathIsComplete
<1> QED
  BY <1>1, Invariance, PTL

\* ReleaseFileLock never fails its assertion.
THEOREM ReleaseNeverAsserts == Spec => []ReleaseCheckHolds
<1>1. IInv => ReleaseCheckHolds
  BY DEF IInv, LockInv, ReleaseCheckHolds, ReleaseCheck, Holds
<1> QED
  BY <1>1, Invariance, PTL

\* A Build that has ended holds no lock, no file and no staging directory, and
\* has left none on disk if it answers with a path.
THEOREM EndedBuildsKeepNothing == Spec => []NothingKept
<1>1. IInv => NothingKept
  BY DEF IInv, TypeOK, LockInv, StagingInv, NothingKept, Holds, Holding, Ended
<1> QED
  BY <1>1, Invariance, PTL

\* Only the process that holds the lock rewrites the lock file.
THEOREM LockFileIsTheHolders == Spec => OnlyHolderWrites
<1> DEFINE HolderWrites ==
      \A p \in Procs :
        Holds(p) /\ Holds(p)' /\ lockText' # lockText => pc'[p] # pc[p]
<1>1. IInv /\ [Next]_vars => [HolderWrites]_vars
  <2> SUFFICES ASSUME IInv, Next, NEW q \in Procs,
                      Holds(q), Holds(q)', lockText' # lockText
               PROVE  pc'[q] # pc[q]
    BY DEF HolderWrites
  <2>1. PICK p \in Procs : WritePid(p) \/ ClearLockFile(p)
    BY DEF Next, Progress, BuildStep, RemoveStep, Call, GetExisting,
       OpenLockFile, Acquire, LockTimeout, LockError, Recheck, MakeTmpDir,
       Populate, Rename, Discard, Unlock, RemoveStaging, CallRemove, Rmdir,
       RmOpen, Unlink, Crash, Restart, Die, ReturnError, NewTmpDir, Ended
  <2>2. Holds(p)
    BY <2>1 DEF IInv, LockInv, WritePid, ClearLockFile, Holds
  <2>3. p = q
    BY <2>2 DEF Holds
  <2> QED
    BY <2>1, <2>3 DEF WritePid, ClearLockFile, Holds, Goto, IInv, TypeOK
<1> QED
  BY <1>1, Invariance, PTL DEF Spec, OnlyHolderWrites

----------------------------------------------------------------------------
(* Refinement                                                               *)

\* A removal once called stays called.
LEMMA ForcedStays == forced /\ [Next]_vars => forced'
  BY DEF Next, vars, Progress, BuildStep, RemoveStep, Call, GetExisting,
     OpenLockFile, Acquire, LockTimeout, LockError, WritePid, Recheck,
     MakeTmpDir, Populate, Rename, Discard, ClearLockFile, Unlock,
     RemoveStaging, CallRemove, Rmdir, RmOpen, Unlink, Crash, Restart, Die,
     ReturnError, NewTmpDir, Ended

\* Until a removal is called, a step of one process is a step of the cell or
\* leaves it alone: the rename publishes, the two Gets and a lost rename find,
\* everything else forgets or is invisible.
LEMMA StepIsSlotStep ==
  ASSUME IInv, IInv', ~forced, ~forced', [Next]_vars
  PROVE  [Slot!Next]_(Slot!vars)
<1> USE DEF Slot!vars, Goto, Return
<1>0. forced' = forced
  BY DEF IInv, TypeOK
<1> USE <1>0
<1>1. CASE UNCHANGED vars
  BY <1>1 DEF vars
<1>2. CASE Next
  <2> SUFFICES ASSUME NEW p \in Procs,
                      \/ Call(p) \/ BuildStep(p) \/ CallRemove(p)
                      \/ RemoveStep(p) \/ Crash(p) \/ Restart(p)
               PROVE  [Slot!Next]_(Slot!vars)
    BY <1>2 DEF Next
  <2> USE DEF Slot!Next, Slot!Forget, Slot!Answers
  <2>1. CASE Call(p) \/ Crash(p) \/ LockError(p)
    BY <2>1 DEF Call, Crash, LockError, ReturnError, Die
  <2>2. CASE GetExisting(p)
    BY <2>2 DEF GetExisting, Exists, Slot!Find, IInv, DestInv
  <2>3. CASE OpenLockFile(p) \/ MakeTmpDir(p) \/ Populate(p)
    BY <2>3 DEF OpenLockFile, MakeTmpDir, NewTmpDir, ReturnError, Die, Populate
  <2>4. CASE Recheck(p)
    BY <2>4 DEF Recheck, Exists, Slot!Find, IInv, DestInv
  <2>5. CASE Rename(p)
    BY <2>5 DEF Rename, Slot!Publish, IInv, DestInv, StagingInv
  <2>6. CASE Discard(p)
    BY <2>6 DEF Discard, Slot!Find, IInv, DestInv
  <2>7. CASE Acquire(p) \/ LockTimeout(p) \/ WritePid(p) \/ ClearLockFile(p)
             \/ Unlock(p) \/ RemoveStaging(p) \/ Restart(p)
    BY <2>7 DEF Acquire, LockTimeout, WritePid, ClearLockFile, Unlock,
       RemoveStaging, Restart
  <2>8. ~(CallRemove(p) \/ RemoveStep(p))
    BY DEF CallRemove, RemoveStep, Rmdir, RmOpen, Unlink, IInv, DestInv,
       RemoveSteps
  <2> QED
    BY <2>1, <2>2, <2>3, <2>4, <2>5, <2>6, <2>7, <2>8 DEF BuildStep, Progress
<1> QED
  BY <1>1, <1>2

\* Build implements the write-once cell: until Remove is called, a component
\* is published atomically, once, and its path is answered only afterwards.
THEOREM ImplementsWriteOnceSlot == Spec => IsWriteOnceSlot
<1>1. Init => Slot!Init
  BY DEF Init, Slot!Init
<1>2. IInv /\ IInv' /\ [Next]_vars => [Slot!Next]_(Slot!vars)
  <2> SUFFICES ASSUME IInv, IInv', [Next]_vars PROVE [Slot!Next]_(Slot!vars)
    OBVIOUS
  <2>1. CASE forced'
    <3>1. Slot!Remove
      BY <2>1 DEF Slot!Remove, Slot!Answers, IInv, TypeOK
    <3> QED
      BY <3>1 DEF Slot!Next
  <2>2. CASE ~forced'
    BY <2>2, ForcedStays, StepIsSlotStep
  <2> QED
    BY <2>1, <2>2
<1> QED
  BY <1>1, <1>2, Invariance, PTL DEF Spec, IsWriteOnceSlot, Slot!Spec

=============================================================================
