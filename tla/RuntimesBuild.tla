---------------------------- MODULE RuntimesBuild ----------------------------
(***************************************************************************)
(* Building one component of a runtimes tree (Runtimes::Build, Builder and *)
(* Remove of toolchain/driver/runtimes_cache.cpp) by processes that share  *)
(* nothing but the file system.                                            *)
(*                                                                         *)
(* A caller first looks for the component directory; if it is missing it   *)
(* tries to take an advisory flock on ".<component>.lock", looks again,    *)
(* stages the build in a temporary directory and renames that directory    *)
(* onto the destination.  The lock is an optimisation: a caller that waits *)
(* for longer than BuildLockDeadline goes on without it.                   *)
(*                                                                         *)
(* Time is abstracted: a caller whose poll finds the lock held may be at   *)
(* its deadline.  A directory is abstracted to how much of it exists.      *)
(***************************************************************************)
CONSTANTS
  Procs,     \* the processes (or threads) that ask for the component
  Forcers,   \* those started with --force, which call Remove
  NoProc     \* "nobody"

ASSUME ProcsAssumption == NoProc \notin Procs /\ Forcers \subseteq Procs

VARIABLES
  pc,        \* where each process is
  dest,      \* the component directory: "absent", "full", "partial", "empty"
  flock,     \* the process that holds the advisory lock, or NoProc
  lockText,  \* whose PID the lock file names, or NoProc
  file,      \* the processes whose lock_file is open
  staging,   \* the temporary directory of each process's last Build, "left" if
             \* nobody will remove it any more
  result,    \* what the last Build of each process returned
  watched,   \* the removers whose open directory is still the destination
  overtime,  \* history: some TryLock has reached its deadline
  forced     \* history: some Remove has been called

vars == <<pc, dest, flock, lockText, file, staging, result, watched,
          overtime, forced>>

BuildSteps == {"get", "open", "lock", "pid", "recheck", "mktmp", "building",
               "commit", "discard", "clear", "unlock", "rmtmp"}
RemoveSteps == {"rmdir", "rmopen", "unlink"}
Ended == {"idle", "dead", "aborted"}
PCs == Ended \cup BuildSteps \cup RemoveSteps

Holds(p) == flock = p

TypeOK ==
  /\ pc \in [Procs -> PCs]
  /\ dest \in {"absent", "full", "partial", "empty"}
  /\ flock \in Procs \cup {NoProc}
  /\ lockText \in Procs \cup {NoProc}
  /\ file \subseteq Procs
  /\ staging \in [Procs -> {"none", "partial", "full", "left"}]
  /\ result \in [Procs -> {"none", "path", "error"}]
  /\ watched \subseteq Procs
  /\ overtime \in BOOLEAN
  /\ forced \in BOOLEAN

Init ==
  /\ pc = [p \in Procs |-> "idle"]
  /\ dest = "absent"
  /\ flock = NoProc
  /\ lockText = NoProc
  /\ file = {}
  /\ staging = [p \in Procs |-> "none"]
  /\ result = [p \in Procs |-> "none"]
  /\ watched = {}
  /\ overtime = FALSE
  /\ forced = FALSE

----------------------------------------------------------------------------
(* Runtimes::BuildImpl                                                      *)

Goto(p, l) == pc' = [pc EXCEPT ![p] = l]

Return(p, r) ==
  /\ Goto(p, "idle")
  /\ result' = [result EXCEPT ![p] = r]

Call(p) ==
  /\ pc[p] = "idle"
  /\ Goto(p, "get")
  /\ result' = [result EXCEPT ![p] = "none"]
  /\ staging' = [staging EXCEPT ![p] = "none"]
  /\ UNCHANGED <<dest, flock, lockText, file, watched, overtime, forced>>

\* Get only asks whether the directory can be opened, and an existing one can.
Exists == dest # "absent"

GetExisting(p) ==
  /\ pc[p] = "get"
  /\ IF Exists THEN Return(p, "path")
               ELSE Goto(p, "open") /\ UNCHANGED result
  /\ UNCHANGED <<dest, flock, lockText, file, staging, watched, overtime, forced>>

OpenLockFile(p) ==
  /\ pc[p] = "open"
  /\ \/ /\ Goto(p, "lock")
        /\ file' = file \cup {p}
        /\ UNCHANGED result
     \/ /\ Return(p, "error")
        /\ UNCHANGED file
  /\ UNCHANGED <<dest, flock, lockText, staging, watched, overtime, forced>>

Acquire(p) ==
  /\ pc[p] = "lock"
  /\ flock = NoProc
  /\ flock' = p
  /\ Goto(p, "pid")
  /\ UNCHANGED <<dest, lockText, file, staging, result, watched, overtime, forced>>

TimeoutKeepsFile(p) ==
  /\ pc[p] = "lock"
  /\ flock # NoProc
  /\ Goto(p, "recheck")
  /\ overtime' = TRUE
  /\ UNCHANGED <<dest, flock, lockText, file, staging, result, watched, forced>>

NoDeadline(p) == FALSE /\ UNCHANGED vars

\* The deadline passed while another process held the lock: close the lock
\* file and go on without it.
LockTimeout(p) ==
  /\ pc[p] = "lock"
  /\ flock # NoProc
  /\ Goto(p, "recheck")
  /\ file' = file \ {p}
  /\ overtime' = TRUE
  /\ UNCHANGED <<dest, flock, lockText, staging, result, watched, forced>>

\* A process is gone: the kernel closes its files and drops its flock, but
\* what it staged and wrote stays on disk.
Die(p, l) ==
  /\ Goto(p, l)
  /\ flock' = IF Holds(p) THEN NoProc ELSE flock
  /\ file' = file \ {p}
  /\ staging' = [staging EXCEPT ![p] = IF @ = "none" THEN "none" ELSE "left"]
  /\ result' = [result EXCEPT ![p] = "none"]
  /\ watched' = watched \ {p}
  /\ UNCHANGED <<dest, lockText, overtime, forced>>

\* An error return of BuildImpl destroys the local lock_file, and destroying a
\* writable file that is still open fails a CHECK.
ReturnError(p) ==
  IF p \in file
  THEN Die(p, "aborted")
  ELSE Return(p, "error") /\ UNCHANGED <<dest, flock, lockText, file, staging,
                                         watched, overtime, forced>>

\* An error other than "would block".
LockError(p) == pc[p] = "lock" /\ ReturnError(p)

\* Errors of this write are ignored.
WritePid(p) ==
  /\ pc[p] = "pid"
  /\ lockText' \in {p, lockText}
  /\ Goto(p, "recheck")
  /\ UNCHANGED <<dest, flock, file, staging, result, watched, overtime, forced>>

NoRecheck(p) ==
  /\ pc[p] = "recheck"
  /\ Goto(p, "mktmp")
  /\ UNCHANGED <<dest, flock, lockText, file, staging, result, watched,
                 overtime, forced>>

\* The second Get, made whether or not the lock was acquired.  Without the
\* lock the lock file is closed already and clearing it has no effect.
Recheck(p) ==
  /\ pc[p] = "recheck"
  /\ \/ /\ ~Exists
        /\ Goto(p, "mktmp")
        /\ UNCHANGED result
     \/ /\ Exists /\ Holds(p)
        /\ Goto(p, "clear")
        /\ result' = [result EXCEPT ![p] = "path"]
     \/ /\ Exists /\ ~Holds(p)
        /\ Return(p, "path")
  /\ UNCHANGED <<dest, flock, lockText, file, staging, watched, overtime, forced>>

NewTmpDir(p) ==
  /\ staging' = [staging EXCEPT ![p] = "partial"]
  /\ Goto(p, "building")
  /\ UNCHANGED <<dest, flock, lockText, file, result, watched, overtime, forced>>

MakeTmpDirKeepsFile(p) ==
  /\ pc[p] = "mktmp"
  /\ \/ NewTmpDir(p)
     \/ Return(p, "error") /\ UNCHANGED <<dest, flock, lockText, file, staging,
                                           watched, overtime, forced>>

\* MakeTmpDirWithPrefix may fail too.
MakeTmpDir(p) == pc[p] = "mktmp" /\ (NewTmpDir(p) \/ ReturnError(p))

----------------------------------------------------------------------------
(* Runtimes::Builder                                                        *)

PopulateIgnoringErrors(p) ==
  /\ pc[p] = "building"
  /\ \E s \in {"partial", "full"} : staging' = [staging EXCEPT ![p] = s]
  /\ Goto(p, "commit")
  /\ UNCHANGED <<dest, flock, lockText, file, result, watched, overtime, forced>>

\* The client fills the staging directory and commits, or gives up and lets
\* the Builder be destroyed.
Populate(p) ==
  /\ pc[p] = "building"
  /\ \/ /\ staging' = [staging EXCEPT ![p] = "full"]
        /\ Goto(p, "commit")
        /\ UNCHANGED result
     \/ /\ Goto(p, "clear")
        /\ result' = [result EXCEPT ![p] = "error"]
        /\ UNCHANGED staging
  /\ UNCHANGED <<dest, flock, lockText, file, watched, overtime, forced>>

\* rename(2) of a directory replaces a missing or an empty one, atomically.
Rename(p) ==
  /\ pc[p] = "commit"
  /\ \/ /\ dest \in {"absent", "empty"}
        /\ dest' = staging[p]
        /\ watched' = {}
        /\ staging' = [staging EXCEPT ![p] = "none"]
        /\ result' = [result EXCEPT ![p] = "path"]
        /\ Goto(p, "clear")
     \/ /\ dest \in {"full", "partial"}
        /\ Goto(p, "discard")
        /\ UNCHANGED <<dest, watched, staging, result>>
     \/ /\ result' = [result EXCEPT ![p] = "error"]
        /\ Goto(p, "clear")
        /\ UNCHANGED <<dest, watched, staging>>
  /\ UNCHANGED <<flock, lockText, file, overtime, forced>>

DiscardAndRetry(p) ==
  /\ pc[p] = "discard"
  /\ staging' = [staging EXCEPT ![p] = "none"]
  /\ Goto(p, "commit")
  /\ UNCHANGED <<dest, flock, lockText, file, result, watched, overtime, forced>>

\* Somebody else's build is in place: Commit removes ours.  An error of that
\* removal is Commit's result, and what is left of the directory stays behind.
Discard(p) ==
  /\ pc[p] = "discard"
  /\ \E removed \in BOOLEAN :
       /\ staging' = [staging EXCEPT ![p] = IF removed THEN "none" ELSE "left"]
       /\ result' = [result EXCEPT ![p] = IF removed THEN "path" ELSE "error"]
  /\ Goto(p, "clear")
  /\ UNCHANGED <<dest, flock, lockText, file, watched, overtime, forced>>

\* ReleaseFileLock's CHECK that a Builder without the lock has no lock file.
ReleaseCheck(p) == Holds(p) \/ p \notin file

AfterRelease(p) == IF staging[p] \in {"none", "left"} THEN "idle" ELSE "rmtmp"

ClearAlways(p) ==
  /\ pc[p] = "clear"
  /\ lockText' = NoProc
  /\ Goto(p, IF Holds(p) THEN "unlock" ELSE AfterRelease(p))
  /\ UNCHANGED <<dest, flock, file, staging, result, watched, overtime, forced>>

\* ReleaseFileLock, first half: clear the lock file (errors are ignored).
ClearLockFile(p) ==
  /\ pc[p] = "clear"
  /\ IF Holds(p)
     THEN lockText' \in {NoProc, lockText} /\ Goto(p, "unlock")
     ELSE Goto(p, AfterRelease(p)) /\ UNCHANGED lockText
  /\ UNCHANGED <<dest, flock, file, staging, result, watched, overtime, forced>>

\* ReleaseFileLock, second half: unlock and close.
Unlock(p) ==
  /\ pc[p] = "unlock"
  /\ flock' = NoProc
  /\ file' = file \ {p}
  /\ Goto(p, AfterRelease(p))
  /\ UNCHANGED <<dest, lockText, staging, result, watched, overtime, forced>>

\* ~RemovingDir; a failure is fatal (CHECK), which Crash covers.
RemoveStaging(p) ==
  /\ pc[p] = "rmtmp"
  /\ staging' = [staging EXCEPT ![p] = "none"]
  /\ Goto(p, "idle")
  /\ UNCHANGED <<dest, flock, lockText, file, result, watched, overtime, forced>>

----------------------------------------------------------------------------
(* Runtimes::Remove: DirRef::Rmtree of the component directory.             *)

CallRemove(p) ==
  /\ p \in Forcers
  /\ pc[p] = "idle"
  /\ Goto(p, "rmdir")
  /\ forced' = TRUE
  /\ UNCHANGED <<dest, flock, lockText, file, staging, result, watched, overtime>>

\* Rmtree tries rmdir first and recurses only when the directory has entries.
\* A missing directory is removed already.
Rmdir(p) ==
  /\ pc[p] = "rmdir"
  /\ \/ /\ dest \in {"absent", "empty"}
        /\ dest' = "absent"
        /\ watched' = {}
        /\ Goto(p, "idle")
     \/ /\ dest \in {"full", "partial"}
        /\ Goto(p, "rmopen")
        /\ UNCHANGED <<dest, watched>>
  /\ UNCHANGED <<flock, lockText, file, staging, result, overtime, forced>>

\* Opening a directory that has vanished in between fails the whole Rmtree.
RmOpen(p) ==
  /\ pc[p] = "rmopen"
  /\ IF Exists THEN Goto(p, "unlink") /\ watched' = watched \cup {p}
               ELSE Goto(p, "idle") /\ UNCHANGED watched
  /\ UNCHANGED <<dest, flock, lockText, file, staging, result, overtime, forced>>

\* Entries of the opened directory go one by one; it may have been replaced
\* by a rename, and then the new destination is left alone.
Unlink(p) ==
  /\ pc[p] = "unlink"
  /\ \/ /\ p \in watched /\ dest \in {"full", "partial"}
        /\ dest' \in {"partial", "empty"}
        /\ UNCHANGED <<pc, watched>>
     \/ /\ p \notin watched \/ dest = "empty"
        /\ Goto(p, "rmdir")
        /\ watched' = watched \ {p}
        /\ UNCHANGED dest
  /\ UNCHANGED <<flock, lockText, file, staging, result, overtime, forced>>

----------------------------------------------------------------------------
\* A process may die at any time, and be started again.
Crash(p) == pc[p] \notin Ended /\ Die(p, "dead")

Restart(p) ==
  /\ pc[p] \in {"dead", "aborted"}
  /\ Goto(p, "idle")
  /\ UNCHANGED <<dest, flock, lockText, file, staging, result, watched,
                 overtime, forced>>

\* The steps of Build and Commit that take the process on by themselves.
Progress(p) ==
  \/ GetExisting(p) \/ OpenLockFile(p)
  \/ Acquire(p) \/ LockTimeout(p)
  \/ WritePid(p) \/ Recheck(p) \/ MakeTmpDir(p)
  \/ Rename(p) \/ Discard(p)
  \/ ClearLockFile(p) \/ Unlock(p) \/ RemoveStaging(p)

BuildStep(p) == Progress(p) \/ LockError(p) \/ Populate(p)

RemoveStep(p) == Rmdir(p) \/ RmOpen(p) \/ Unlink(p)

Next ==
  \E p \in Procs :
    \/ Call(p) \/ BuildStep(p)
    \/ CallRemove(p) \/ RemoveStep(p)
    \/ Crash(p) \/ Restart(p)

Spec == Init /\ [][Next]_vars

\* A running process keeps running: nothing in Build blocks, since TryLock
\* polls and has a deadline.  Nobody need call Build, crash, be restarted, meet
\* an error of flock or ever finish populating what it builds.
FairSpec == Spec /\ \A p \in Procs : WF_vars(Progress(p))

----------------------------------------------------------------------------
(* Properties                                                               *)

\* As long as no lock deadline has passed and nothing was removed by force,
\* the lock and the second Get avoid redundant work: at most one process has
\* a build in flight, and no finished build is thrown away.
NoRedundantBuild ==
  ~overtime /\ ~forced =>
    \A p \in Procs :
      /\ pc[p] # "discard"
      /\ pc[p] \in {"mktmp", "building", "commit"} =>
           /\ dest = "absent"
           /\ \A q \in Procs : pc[q] \in {"mktmp", "building", "commit"} => q = p

\* Whether it built, waited, lost the race or ran without the lock, a Build
\* that answers with a path answers with a fully populated directory, and
\* keeps being right unless somebody removes the component by force.
PathIsComplete ==
  ~forced => \A p \in Procs : result[p] = "path" => dest = "full"

\* ReleaseFileLock's assertion holds whenever it is reached, from Commit and
\* from the destructor, with the lock and without it.
ReleaseCheckHolds == \A p \in Procs : pc[p] = "clear" => ReleaseCheck(p)

\* A finished Build keeps neither the lock nor an open lock file nor a
\* staging directory, whichever of its exits it took; only one that died, or
\* reported an error, can have left the directory on disk.
NothingKept ==
  \A p \in Procs : pc[p] \in Ended =>
    /\ ~Holds(p) /\ p \notin file
    /\ staging[p] \in {"none", "left"}
    /\ result[p] = "path" => staging[p] = "none"

\* While a process holds the lock nobody else rewrites the lock file, so what
\* a waiting process logs as the holder is never somebody's late clearing.
OnlyHolderWrites ==
  [][\A p \in Procs :
       Holds(p) /\ Holds(p)' /\ lockText' # lockText => pc'[p] # pc[p]]_vars

\* Nobody waits for another process for ever: a Build ends, or its process
\* dies or is itself building, even if the holder of the lock never finishes.
BuildNeverStuck ==
  \A p \in Procs :
    pc[p] \in BuildSteps \ {"building"} ~> pc[p] \in Ended \cup {"building"}

\* Until Remove is called the component is a write-once cell: it is published
\* by a single atomic step, never replaced, and answered only once published.
Slot == INSTANCE ComponentSlot
          WITH slot <- (dest = "full"), answer <- result, broken <- forced
IsWriteOnceSlot == Slot!Spec

=============================================================================
