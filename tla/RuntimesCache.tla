---------------------------- MODULE RuntimesCache ----------------------------
(***************************************************************************)
(* Runtimes::Cache of toolchain/driver/runtimes_cache.cpp: looking up an   *)
(* entry of the cache directory that many processes share, pruning stale   *)
(* entries before a new one is created, and holding a shared flock on the  *)
(* entry's ".lock" file for as long as the Runtimes object lives.          *)
(*                                                                         *)
(* A name can be removed while a process still has the file open, and      *)
(* flock locks the open file, not the name: an open lock file or directory *)
(* is either the one its entry's name refers to or an orphan.  An entry    *)
(* holds its lock file and, perhaps, built components.                     *)
(* Deadlines of TryLock are abstracted: an attempt that finds the lock     *)
(* held may be the last.  Entries of the cache that are not directories    *)
(* are unlinked by the code and left out here.                             *)
(***************************************************************************)
EXTENDS Integers, FiniteSets

CONSTANTS
  Procs, Entries,       \* processes; names "runtimes-..." of cache entries
  MinNumEntries, MaxNumEntries,
  MaxEntryAge, MaxLockedEntryAge,
  StartTime,            \* the clock's first value; the epoch is 0
  MaxTime,              \* bound on the clock
  NoEntry

ASSUME SizesAssumption ==
  /\ MinNumEntries \in Nat /\ MaxNumEntries \in Nat
  /\ 0 < MinNumEntries /\ MinNumEntries <= MaxNumEntries
ASSUME AgesAssumption ==
  /\ MaxEntryAge \in Nat /\ MaxLockedEntryAge \in Nat
  /\ StartTime \in Nat /\ MaxTime \in Nat
  /\ MaxLockedEntryAge < MaxEntryAge
  /\ MaxEntryAge < StartTime      \* the epoch is more than a year ago
  /\ StartTime <= MaxTime
ASSUME EntriesAssumption == NoEntry \notin Entries
ASSUME FiniteAssumption == IsFiniteSet(Procs) /\ IsFiniteSet(Entries)

VARIABLES
  clock,
  present,    \* the entries whose directory exists
  stamp,      \* the mtime of each entry's ".lock" file, 0 if there is none
  comp,       \* the entries that hold built components
  pc,
  want,       \* the entry each process looks up
  dir,        \* the entry whose directory it has open, unless it was removed
  lk,         \* the lock file it has open: its entry, or an orphan's number
  held,       \* how it has locked it: "no", "shared", "exclusive"
  ages,       \* the ages it computed, or its `now` for those still to compute
  entries,    \* its vector `entries`
  todo,       \* those its current loop has not reached
  num,        \* its num_entries
  victim,     \* the entry it is removing
  contended   \* history: some prune could not remove what it meant to

fs == <<present, stamp, comp>>
prune == <<ages, entries, todo, num, victim>>
vars == <<clock, fs, pc, want, dir, lk, held, prune, contended>>

\* An open file without a name has a number, which is no entry.
Orphans == 1..Cardinality(Procs)
ASSUME OrphansAssumption == Orphans \cap (Entries \cup {NoEntry}) = {}

Resting == {"idle", "using", "aborted"}
RmtreeSteps == {"rmdir", "rmopen", "rmlock", "rmcomp"}
PCs == Resting \cup RmtreeSteps \cup
       {"list", "now", "ages", "ancient", "lru", "victimlock", "mkdir", "opendir",
        "openlock", "touch", "lock"}

TypeOK ==
  /\ clock \in StartTime..MaxTime
  /\ present \subseteq Entries
  /\ stamp \in [Entries -> 0..MaxTime]
  /\ comp \subseteq present
  /\ \A e \in Entries \ present : stamp[e] = 0
  /\ pc \in [Procs -> PCs]
  /\ want \in [Procs -> Entries \cup {NoEntry}]
  /\ dir \in [Procs -> present \cup {NoEntry}]
  /\ lk \in [Procs -> Entries \cup Orphans \cup {NoEntry}]
  /\ held \in [Procs -> {"no", "shared", "exclusive"}]
  /\ ages \in [Procs -> [Entries -> (-MaxTime)..MaxTime]]
  /\ entries \in [Procs -> SUBSET Entries]
  /\ todo \in [Procs -> SUBSET Entries]
  /\ num \in [Procs -> 0..Cardinality(Entries)]
  /\ victim \in [Procs -> Entries \cup {NoEntry}]
  /\ contended \in BOOLEAN

NoAges == [e \in Entries |-> 0]

Init ==
  /\ clock = StartTime
  /\ present = {}
  /\ stamp = [e \in Entries |-> 0]
  /\ comp = {}
  /\ pc = [p \in Procs |-> "idle"]
  /\ want = [p \in Procs |-> NoEntry]
  /\ dir = [p \in Procs |-> NoEntry]
  /\ lk = [p \in Procs |-> NoEntry]
  /\ held = [p \in Procs |-> "no"]
  /\ ages = [p \in Procs |-> NoAges]
  /\ entries = [p \in Procs |-> {}]
  /\ todo = [p \in Procs |-> {}]
  /\ num = [p \in Procs |-> 0]
  /\ victim = [p \in Procs |-> NoEntry]
  /\ contended = FALSE

----------------------------------------------------------------------------
(* The file system                                                          *)

Goto(p, l) == pc' = [pc EXCEPT ![p] = l]

\* openat(e, ".lock", O_CREAT): opens the lock file or creates an empty one.
OpenLock(p, e) ==
  /\ lk' = [lk EXCEPT ![p] = e]
  /\ stamp' = IF stamp[e] = 0 THEN [stamp EXCEPT ![e] = clock] ELSE stamp

\* unlink(e, ".lock"): whoever has the file open keeps it, and its locks.
UnlinkLock(e) ==
  /\ stamp' = [stamp EXCEPT ![e] = 0]
  /\ LET unused == {o \in Orphans : \A q \in Procs : lk[q] # o}
         orphan == CHOOSE o \in unused : \A o2 \in unused : o <= o2
     IN  lk' = [q \in Procs |-> IF lk[q] = e THEN orphan ELSE lk[q]]

CloseLock(p) ==
  /\ lk' = [lk EXCEPT ![p] = NoEntry]
  /\ held' = [held EXCEPT ![p] = "no"]

LockedBy(l, modes) == \E q \in Procs : lk[q] = l /\ held[q] \in modes

PruneLocals(p, a, v, t, n) ==
  /\ ages' = [ages EXCEPT ![p] = a]
  /\ entries' = [entries EXCEPT ![p] = v]
  /\ todo' = [todo EXCEPT ![p] = t]
  /\ num' = [num EXCEPT ![p] = n]

\* Everything that goes with the locals, the Runtimes or the process.
Drop(p, l) ==
  /\ Goto(p, l)
  /\ CloseLock(p)
  /\ want' = [want EXCEPT ![p] = NoEntry]
  /\ dir' = [dir EXCEPT ![p] = NoEntry]
  /\ PruneLocals(p, NoAges, {}, {}, 0)
  /\ victim' = [victim EXCEPT ![p] = NoEntry]

\* What Lookup and Runtimes::Destroy leave behind when they are done.
Leave(p) == Drop(p, "idle")

\* An error return of Lookup destroys its lock_file if that was opened, and
\* destroying a writable file that is still open fails a CHECK.
ReturnError(p) == Drop(p, IF lk[p] = NoEntry THEN "idle" ELSE "aborted")

----------------------------------------------------------------------------
(* Runtimes::Cache::Lookup, up to pruning                                   *)

Lookup(p, e) ==
  /\ pc[p] = "idle"
  /\ want' = [want EXCEPT ![p] = e]
  /\ IF e \in present
     THEN dir' = [dir EXCEPT ![p] = e] /\ Goto(p, "openlock")
     ELSE Goto(p, "list") /\ UNCHANGED dir
  /\ UNCHANGED <<clock, fs, lk, held, prune, contended>>

----------------------------------------------------------------------------
(* Runtimes::Cache::PruneStaleRuntimes                                      *)

ListEntries(p) ==
  /\ pc[p] = "list"
  /\ IF Cardinality(present) < MinNumEntries
     THEN Goto(p, "mkdir") /\ UNCHANGED entries
     ELSE Goto(p, "now") /\ entries' = [entries EXCEPT ![p] = present]
  /\ UNCHANGED <<clock, fs, want, dir, lk, held, ages, todo, num, victim, contended>>

\* A cache directory that cannot be read is not pruned.
ListError(p) ==
  /\ pc[p] = "list"
  /\ Goto(p, "mkdir")
  /\ contended' = TRUE
  /\ UNCHANGED <<clock, fs, want, dir, lk, held, prune>>

\* ComputeEntryAges reads the clock once, ...
ReadClock(p) ==
  /\ pc[p] = "now"
  /\ ages' = [ages EXCEPT ![p] = [e \in Entries |-> IF e \in entries[p] THEN clock ELSE 0]]
  /\ todo' = [todo EXCEPT ![p] = entries[p]]
  /\ Goto(p, "ages")
  /\ UNCHANGED <<clock, fs, want, dir, lk, held, entries, num, victim, contended>>

\* ... and then the mtime of one lock file after the other.  A missing one
\* counts as modified at the epoch.
ComputeEntryAges(p) ==
  /\ pc[p] = "ages"
  /\ \/ \E e \in todo[p] :
          /\ ages' = [ages EXCEPT ![p][e] = @ - stamp[e]]
          /\ todo' = [todo EXCEPT ![p] = @ \ {e}]
          /\ UNCHANGED pc
     \/ /\ todo[p] = {}
        /\ todo' = [todo EXCEPT ![p] = {e \in entries[p] : ages[p][e] > MaxEntryAge}]
        /\ Goto(p, "ancient")
        /\ UNCHANGED ages
  /\ UNCHANGED <<clock, fs, want, dir, lk, held, entries, num, victim, contended>>

\* erase_if over the entries: those over the age limit are removed unlocked.
RemoveAncient(p) ==
  /\ pc[p] = "ancient"
  /\ \/ \E e \in todo[p] :
          /\ victim' = [victim EXCEPT ![p] = e]
          /\ todo' = [todo EXCEPT ![p] = @ \ {e}]
          /\ Goto(p, "rmdir")
          /\ UNCHANGED num
     \/ /\ todo[p] = {}
        /\ todo' = [todo EXCEPT ![p] = entries[p]]
        /\ num' = [num EXCEPT ![p] = Cardinality(entries[p])]
        /\ Goto(p, "lru")
        /\ UNCHANGED victim
  /\ UNCHANGED <<clock, fs, want, dir, lk, held, ages, entries, contended>>

YoungestOf(p, e) == \A f \in todo[p] : ages[p][e] <= ages[p][f]

\* The entries are sorted so that the oldest comes first.
OldestOf(p, e) == \A f \in todo[p] : ages[p][f] <= ages[p][e]

PrunedToMax(p) == num[p] <= MaxNumEntries
Pruned(p) == num[p] < MaxNumEntries

\* The loop that removes entries until there is room for a new one.
PruneLoop(p) ==
  /\ pc[p] = "lru"
  /\ \/ /\ Pruned(p) \/ todo[p] = {}
        /\ Goto(p, "mkdir")
        /\ PruneLocals(p, NoAges, {}, {}, 0)
        /\ UNCHANGED <<stamp, lk, victim>>
     \/ /\ ~Pruned(p)
        /\ UNCHANGED <<ages, entries>>
        /\ \E e \in todo[p] :
             /\ OldestOf(p, e)
             /\ todo' = [todo EXCEPT ![p] = @ \ {e}]
             /\ \/ /\ e = want[p]                 \* racing creation: skip
                   /\ UNCHANGED <<pc, stamp, lk, num, victim>>
                \/ /\ e # want[p]
                   /\ ages[p][e] > MaxLockedEntryAge
                   /\ victim' = [victim EXCEPT ![p] = e]
                   /\ Goto(p, "rmdir")
                   /\ UNCHANGED <<stamp, lk, num>>
                \/ /\ e # want[p]
                   /\ ages[p][e] <= MaxLockedEntryAge
                   /\ e \notin present            \* gone: counts as removed
                   /\ num' = [num EXCEPT ![p] = @ - 1]
                   /\ UNCHANGED <<pc, stamp, lk, victim>>
                \/ /\ e # want[p]
                   /\ ages[p][e] <= MaxLockedEntryAge
                   /\ e \in present
                   /\ OpenLock(p, e)
                   /\ victim' = [victim EXCEPT ![p] = e]
                   /\ Goto(p, "victimlock")
                   /\ UNCHANGED num
  /\ UNCHANGED <<clock, present, comp, want, dir, held, contended>>

LockVictim(p) ==
  /\ pc[p] = "victimlock"
  /\ \/ /\ ~LockedBy(lk[p], {"shared", "exclusive"})
        /\ held' = [held EXCEPT ![p] = "exclusive"]
        /\ Goto(p, "rmdir")
        /\ UNCHANGED <<lk, victim, contended>>
     \/ /\ LockedBy(lk[p], {"shared", "exclusive"})
        /\ CloseLock(p)
        /\ victim' = [victim EXCEPT ![p] = NoEntry]
        /\ contended' = TRUE
        /\ Goto(p, "lru")
  /\ UNCHANGED <<clock, fs, want, dir, ages, entries, todo, num>>

\* Errors of opening or locking the lock file also keep the entry.
VictimError(p) ==
  /\ \/ /\ pc[p] = "victimlock"
        /\ UNCHANGED todo
     \/ /\ pc[p] = "lru" /\ ~Pruned(p)
        /\ \E e \in todo[p] \ {want[p]} :
             /\ OldestOf(p, e)
             /\ ages[p][e] <= MaxLockedEntryAge
             /\ todo' = [todo EXCEPT ![p] = @ \ {e}]
  /\ CloseLock(p)
  /\ victim' = [victim EXCEPT ![p] = NoEntry]
  /\ contended' = TRUE
  /\ Goto(p, "lru")
  /\ UNCHANGED <<clock, fs, want, dir, ages, entries, num>>

----------------------------------------------------------------------------
(* DirRef::Rmtree of the victim, as rm_entry and rm_unlocked_entry call it  *)

InLru(p) == num[p] # 0

\* The victim is gone: it leaves the vector, or num_entries goes down.
Removed(p) ==
  /\ victim' = [victim EXCEPT ![p] = NoEntry]
  /\ CloseLock(p)
  /\ IF InLru(p)
     THEN num' = [num EXCEPT ![p] = @ - 1] /\ Goto(p, "lru") /\ UNCHANGED entries
     ELSE /\ entries' = [entries EXCEPT ![p] = @ \ {victim[p]}]
          /\ Goto(p, "ancient")
          /\ UNCHANGED num

RmdirUnchecked(p) ==
  /\ pc[p] = "rmdir"
  /\ present' = present \ {victim[p]}
  /\ dir' = [q \in Procs |-> IF dir[q] = victim[p] THEN NoEntry ELSE dir[q]]
  /\ Removed(p)
  /\ UNCHANGED <<clock, stamp, comp, want, ages, todo, contended>>

Rmdir(p) ==
  /\ pc[p] = "rmdir"
  /\ LET v == victim[p] IN
     \/ /\ v \notin present                              \* ENOENT
        /\ Removed(p)
        /\ UNCHANGED <<present, dir, contended>>
     \/ /\ v \in present /\ stamp[v] = 0 /\ v \notin comp
        /\ present' = present \ {v}
        /\ dir' = [q \in Procs |-> IF dir[q] = v THEN NoEntry ELSE dir[q]]
        /\ Removed(p)
        /\ UNCHANGED contended
     \/ /\ v \in present /\ (stamp[v] # 0 \/ v \in comp)  \* ENOTEMPTY
        /\ Goto(p, "rmopen")
        /\ UNCHANGED <<present, dir, lk, held, entries, num, victim, contended>>
  /\ UNCHANGED <<clock, stamp, comp, want, ages, todo>>

\* The directory is opened by name; if it is gone by now rm_entry takes that
\* for success.
RmOpen(p) ==
  /\ pc[p] = "rmopen"
  /\ IF victim[p] \in present
     THEN /\ dir' = [dir EXCEPT ![p] = victim[p]]
          /\ Goto(p, "rmlock")
          /\ UNCHANGED <<lk, held, entries, num, victim>>
     ELSE Removed(p) /\ UNCHANGED dir
  /\ UNCHANGED <<clock, fs, want, ages, todo, contended>>

\* Files are unlinked first, subdirectories afterwards.  A directory that
\* another process has removed meanwhile has nothing left.
RmLock(p) ==
  /\ pc[p] = "rmlock"
  /\ IF dir[p] # NoEntry THEN UnlinkLock(dir[p]) ELSE UNCHANGED <<stamp, lk>>
  /\ Goto(p, "rmcomp")
  /\ UNCHANGED <<clock, present, comp, want, dir, held, prune, contended>>

RmFilesOnly(p) ==
  /\ pc[p] = "rmcomp"
  /\ dir' = [dir EXCEPT ![p] = NoEntry]
  /\ Goto(p, "rmdir")
  /\ UNCHANGED <<clock, fs, want, lk, held, prune, contended>>

\* Then Rmtree closes the directory and tries rmdir again.
RmComponents(p) ==
  /\ pc[p] = "rmcomp"
  /\ comp' = comp \ {dir[p]}
  /\ dir' = [dir EXCEPT ![p] = NoEntry]
  /\ Goto(p, "rmdir")
  /\ UNCHANGED <<clock, present, stamp, want, lk, held, prune, contended>>

\* Any other error of Rmtree: the entry is kept.
RmError(p) ==
  /\ pc[p] \in RmtreeSteps
  /\ victim' = [victim EXCEPT ![p] = NoEntry]
  /\ CloseLock(p)
  /\ dir' = [dir EXCEPT ![p] = NoEntry]
  /\ Goto(p, IF InLru(p) THEN "lru" ELSE "ancient")
  /\ contended' = TRUE
  /\ UNCHANGED <<clock, fs, want, ages, entries, todo, num>>

----------------------------------------------------------------------------
(* Runtimes::Cache::Lookup, after pruning                                   *)

\* OpenDir(OpenAlways) is mkdir, where an existing directory is fine, ...
MakeEntry(p) ==
  /\ pc[p] = "mkdir"
  /\ present' = present \cup {want[p]}
  /\ Goto(p, "opendir")
  /\ UNCHANGED <<clock, stamp, comp, want, dir, lk, held, prune, contended>>

\* ... followed by an open that may find the new directory gone again.
OpenEntry(p) ==
  /\ pc[p] = "opendir"
  /\ IF want[p] \in present
     THEN /\ dir' = [dir EXCEPT ![p] = want[p]]
          /\ Goto(p, "openlock")
          /\ UNCHANGED <<want, lk, held, prune>>
     ELSE ReturnError(p)
  /\ UNCHANGED <<clock, fs, contended>>

\* No file can be created in a directory that was removed.
OpenEntryLock(p) ==
  /\ pc[p] = "openlock"
  /\ IF dir[p] # NoEntry
     THEN /\ OpenLock(p, dir[p])
          /\ Goto(p, "touch")
          /\ UNCHANGED <<want, dir, held, prune>>
     ELSE ReturnError(p) /\ UNCHANGED stamp
  /\ UNCHANGED <<clock, present, comp, contended>>

UpdateTimes(p) ==
  /\ pc[p] = "touch"
  /\ stamp' = IF lk[p] \in Entries THEN [stamp EXCEPT ![lk[p]] = clock] ELSE stamp
  /\ Goto(p, "lock")
  /\ UNCHANGED <<clock, present, comp, want, dir, lk, held, prune, contended>>

LockEntry(p) ==
  /\ pc[p] = "lock"
  /\ IF LockedBy(lk[p], {"exclusive"})
     THEN ReturnError(p)
     ELSE /\ held' = [held EXCEPT ![p] = "shared"]
          /\ Goto(p, "using")
          /\ UNCHANGED <<want, dir, lk, prune>>
  /\ UNCHANGED <<clock, fs, contended>>

\* Any other error of Lookup's file system calls is returned.
LookupError(p) ==
  /\ pc[p] \in {"mkdir", "opendir", "openlock", "touch", "lock"}
  /\ ReturnError(p)
  /\ UNCHANGED <<clock, fs, contended>>

----------------------------------------------------------------------------
(* Using and dropping the Runtimes                                          *)

\* A component is built into the entry (see RuntimesBuild).
BuildComponent(p) ==
  /\ pc[p] = "using"
  /\ dir[p] # NoEntry
  /\ comp' = comp \cup {dir[p]}
  /\ UNCHANGED <<clock, present, stamp, pc, want, dir, lk, held, prune, contended>>

Destroy(p) ==
  /\ pc[p] = "using"
  /\ Leave(p)
  /\ UNCHANGED <<clock, fs, contended>>

\* The process dies: the kernel closes its files.  Another one may take its
\* place.
Crash(p) ==
  /\ pc[p] # "idle"   \* or it was aborted
  /\ Leave(p)
  /\ UNCHANGED <<clock, fs, contended>>

Tick ==
  /\ clock < MaxTime
  /\ clock' = clock + 1
  /\ UNCHANGED <<fs, pc, want, dir, lk, held, prune, contended>>

\* The steps a Lookup takes by itself.
Progress(p) ==
  \/ ListEntries(p) \/ ReadClock(p) \/ ComputeEntryAges(p) \/ RemoveAncient(p)
  \/ PruneLoop(p) \/ LockVictim(p)
  \/ Rmdir(p) \/ RmOpen(p) \/ RmLock(p) \/ RmComponents(p)
  \/ MakeEntry(p) \/ OpenEntry(p) \/ OpenEntryLock(p)
  \/ UpdateTimes(p) \/ LockEntry(p)

Next ==
  \/ Tick
  \/ \E p \in Procs :
       \/ \E e \in Entries : Lookup(p, e)
       \/ Progress(p) \/ LookupError(p) \/ ListError(p) \/ VictimError(p) \/ RmError(p)
       \/ BuildComponent(p) \/ Destroy(p)
       \/ Crash(p)

Spec == Init /\ [][Next]_vars

\* A running Lookup keeps running: its lock attempts have short deadlines.
\* Nobody need look anything up, drop its Runtimes, meet an error or crash.
FairSpec == Spec /\ \A p \in Procs : WF_vars(Progress(p))

----------------------------------------------------------------------------
(* Properties                                                               *)

\* Pruning bounds the cache: as long as every entry a prune picked could be
\* removed, no interleaving of Lookups grows the cache beyond its target by
\* more than the entries that concurrent Lookups are creating.
CacheBounded ==
  ~contended => Cardinality(present) <= MaxNumEntries - 1 + Cardinality(Procs)

\* Pruning below the age limit is least-recently-used: an entry is removed
\* only if, by the ages computed, MaxNumEntries entries would have to stay that
\* are no older or are the one being looked up.
PruneIsLRU ==
  \A p \in Procs :
    pc[p] \in RmtreeSteps /\ InLru(p) /\ ~contended =>
      LET v == victim[p] IN
      Cardinality({e \in entries[p] : e = want[p] \/ ages[p][e] <= ages[p][v]})
        >= MaxNumEntries

\* Once the others stop looking things up and building, a Lookup ends, with
\* the Runtimes, an error or its process: neither Rmtree's retries nor locks
\* that others hold for ever keep it.
LookupEnds ==
  \A p \in Procs :
    /\ <>[](\A q \in Procs \ {p} : pc[q] \in Resting)
    /\ <>[][comp' \subseteq comp]_vars
    => (pc[p] \notin Resting ~> pc[p] \in Resting)

\* runtimes_cache.h on RuntimesLockDeadline: entries are locked while in use
\* to avoid them being removed concurrently, unless older than
\* MaxLockedEntryAge.
InUseNotRemoved ==
  \A p, q \in Procs :
    /\ pc[p] = "using" /\ dir[p] # NoEntry /\ lk[p] = dir[p]
    /\ pc[q] \in {"rmlock", "rmcomp"} /\ dir[q] = dir[p]
    => clock - stamp[dir[p]] > MaxLockedEntryAge

\* filesystem.h in WriteableDestroy: open writable files "must be destroyed by
\* calling Close".  A Lookup that does not get the lock of an entry that is being
\* removed returns an error; it does not take the process down.
LockedOutIsAnError ==
  [][\A p \in Procs :
       pc[p] = "lock" /\ LockedBy(lk[p], {"exclusive"}) => pc'[p] # "aborted"]_vars

=============================================================================
