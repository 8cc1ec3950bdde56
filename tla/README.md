# A TLA+ verification of the Carbon toolchain's core logic

The Carbon toolchain (`src/toolchain`, `src/common`) is for the most part a
sequential compiler: data flows from the lexer to LLVM. This project models the
places where the difficulty is not the language but the order of events:

* processes that share a cache of target runtimes through nothing but the file
  system (`driver/runtimes_cache.cpp`, `common/filesystem.cpp`);
* a thread pool that builds Clang's runtimes, ordered by latches
  (`driver/clang_runtimes.cpp`, `common/latch.cpp`);
* the order in which the files of one compile are checked (`check/check.cpp`);
* the order in which the nodes of one file are checked, with bodies that are
  skipped and resumed and scopes that are suspended and restored
  (`check/node_id_traversal.cpp`, `check/deferred_definition_worklist.cpp`,
  `check/scope_stack.cpp`, `check/decl_name_stack.cpp`);
* the verification that every use in a function is dominated by an evaluation
  (`sem_ir/dominance.cpp`);
* the hash table under every map and set (`common/raw_hashtable.h`).

Each module is a translation of the C++ named in `PROJECT.json` under `map`.
TLC checks the modules on small instances. TLAPS proves, for every value of the
constants, the safety of building one runtimes component, of the cache of
runtimes, of the Clang builders, of the order in which files are checked, that
the verifier of functions computes dominance, and that a hash table behaves as a
set.

## 1. Inventory

| Component | State | Operations | Hard behaviour |
|---|---|---|---|
| `Runtimes`, `Runtimes::Builder` | component directory, `.X.lock` with an flock and a PID, staging directories | `Get`, `Build`, `Commit`, `Destroy`, `ReleaseFileLock`, `Remove` | concurrent processes, lock deadline, crash, lost rename, error returns with open files |
| `Runtimes::Cache` | cache directory, per entry `.lock` with mtime and flocks | `Lookup`, `PruneStaleRuntimes`, `ComputeEntryAges` | concurrent prunes, removal of entries in use, stale ages, name gone while the file is open |
| `Filesystem` | none (kernel) | `TryLock`, `OpenDir`, `Rmtree`, `RemovingDir`, `File::~File` | non-atomic mkdir + open, retry loop, CHECK in destructors |
| `Latch` | atomic counter, closure | `Init`, `Inc`, `Dec`, handles | who drops the last handle, nesting of latches |
| Clang runtimes builders | results, object directories, staging directory | `Setup`, `CompileMember`, `CreateObjDir`, `Finish`, `BuildCrtFile`, `Wait` | tasks posting tasks, failure of one of many, destruction while tasks run |
| `CheckParseTrees` | `api_map`, `imports_remaining`, `incoming_imports`, `ready_to_check` | `BuildApiMap...`, `TrackImport`, the checking loops | import cycles, counters, dropped imports |
| `NodeIdTraversal`, `DeferredDefinitionWorklist` | chunks of nodes, worklist, entered scopes | `Next`, `Handle`, `PerformTask`, suspend and push | bodies checked out of order, nesting told by indices, tasks that post tasks |
| `ScopeStack`, `LexicalLookup`, `DeclNameStack` | scopes, results per name, return scopes, compile-time bindings, open names | push, pop, lookup, `Suspend`, `Restore` | results that refer to scopes by index while scopes come and go |
| `DominatorTreeBuilder`, `DominanceVerifier` | order, immediate dominators, evaluated instructions | loop over functions, search, sweep, intersect, walk | fixed point on arbitrary graphs, a set shared and undone |
| `RawHashtable`, `Map`, `Set` | metadata, entries, growth budget, storage | insert, erase, grow, clear, copy, move, destroy | deletion markers, probing, growth boundaries, ownership |
| lexer, parser, semantic checks, SemIR, lowering, formatter | append-only data | one pass each | none of the above; the difficulty is the language |
| language server | open documents | handlers, one at a time | none: a sequential loop |
| driver, linker, busybox, options, diagnostics, tests, Core library | none or output only | | |

Interactions. `ClangRunner` and `build-runtimes` look up an entry
(`Cache::Lookup`), construct the builders, and each builder calls
`Runtimes::Build` for one component, posts tasks to the pool, and calls
`Builder::Commit` in its last task. The compile driver calls `CheckParseTrees`
once all files are parsed.

What makes each part correct:

* building a component: no unfinished component is ever visible, work is not
  repeated unless a deadline passes, and all resources are given back;
* the cache: bounded, least recently used first, nothing in use removed, and no
  process waits for ever;
* the builders: compile, then archive, then commit; nothing incomplete is
  committed; `Wait` returns the final result;
* checking files: every file once, after its imports, cycles included;
* checking nodes: every node once, in the scopes and with the meaning of names
  that it is written with, bodies after the classes around them;
* dominance: the tree is the dominator tree, the verdict is exact, nothing is
  carried from one verification to the next;
* hash tables: a table behaves as a set, probes end, promised room is there,
  storage and entries are given back once.

`PROJECT.json` lists the hazards with the line at which each bites.

## 2. Modules

`ComponentSlot` is the abstract promise of `Runtimes::Build`: a cell that is
written once, by one atomic step, and answered only afterwards, until somebody
removes the component by force.

`RuntimesBuild` is `BuildImpl`, `Builder` and `Remove` for processes that run
concurrently. `pc[p]` follows the code: `get`, `open`, `lock`, `pid`, `recheck`,
`mktmp`, `building`, `commit`, `discard`, `clear`, `unlock`, `rmtmp`. A
directory is abstracted to how much of it exists. The deadline of `TryLock` is
nondeterminism: any poll that finds the lock held may be the last. Error returns
go through `ReturnError`: `lock_file` is writable, and destroying a writable
file that is open fails a `CHECK`, so the process is `aborted`. The flags
`overtime` and `forced` are history: they say whether some deadline has passed
and whether some removal was forced.

`RuntimesCache` is `Cache::Lookup` with its pruning. An open lock file or
directory outlives its name, so `lk` and `dir` say which entry a process has
open and whether the name still refers to it. `ages` are what
`ComputeEntryAges` read, one `Lstat` per step, after `now` was read.

`CheckScheduling` is `CheckParseTrees`: one step per unit or import. Its input
`program` is any set of packaging and import declarations. Checking a unit is
one step. Diagnostics are left out except where they change the imports.

`ClangRuntimes` is both builders, `ArchiveBuilder`, both latches and the pool.
`latches` counts handles, wherever they live: in a running function, in a queued
closure, or in the closure of the other latch. `AbandonSpec` adds callers that
drop a builder without `Wait`.

`ScopeStack` has no variables: it defines the operations of `ScopeStack`,
`LexicalLookup` and `DeclNameStack` as operators on one record, the part of
`Context` that the handlers share. A failing `CARBON_CHECK` sets `failed`.

`DeferredDefinitions` composes it with the parser's table of deferred
definitions, `NodeIdTraversal` and `DeferredDefinitionWorklist`. Its input is
built by the parser actions: every nesting of classes (standing for all scopes
with deferred definitions), functions, blocks, parameters, local variables,
forward declarations, uses and thunks up to `MaxSize`. Each node also carries
the environment it is written in. That environment is kept by the parser actions
without any deferral, and it is the reference for the properties. One action
stands for one handler, or for one thing that `Next` does before it returns a
node.

`Dominance` is `VerifyDominance` of one file: it returns at once if the file has
errors, skips functions that are only declared, and verifies the others one
after the other with one evaluated set. The graphs are arbitrary input. Each step of
Build's search, each branch a sweep goes through, each step of `intersect` and
each block put into the tree is an action, and so is each step of the two
worklists of the verifier. The code in the blocks is chosen when the tree is
done, since Build does not look at it. The reference is the definition: a block
dominates another if the entry does not reach the latter without it; a use is
dominated if an evaluation precedes it on every path. `VerdictIsExact` compares
the two for each function when its verification ends, and says what the call
makes of it: an error for a function that is not sound, success after all
functions or for a file with errors (`dominance.h:20`).

`RawHashtable` is the table with its three ways to grow (to twice the size, where
entries that were not probed for keep their index within a half; to any larger
size; and for a number of insertions) and the copying, moving and destruction of
table objects. A slot is empty, deleted or holds a key. Tables are not shared
between threads, so an operation is one step, except for growing: `StartGrowth`
makes the new storage, each `Reinsert` puts one entry into it, and
`FinishGrowth` or, within an insertion, `FinishInsert` settles the budget and
frees the storage that was left. Other operations start when the table has
grown (`Idle`). The reference is the set `contents`.

`RuntimesBuildProofs`, `RuntimesCacheProofs`, `ClangRuntimesProofs`,
`CheckSchedulingProofs`, `DominanceProofs` and `RawHashtableProofs` hold the
proofs about the module each is named for. The `MC*` modules and the `.cfg`
files give the constants values.

## 3. Runs

| Run | Instance | Shows |
|---|---|---|
| `build_shared` | 3 processes, one of them with `--force` | no redundant build before a deadline, only complete components answered, `ReleaseFileLock` never asserts, nothing kept, only the holder writes the lock file; refinement of `ComponentSlot`; no `Build` is stuck |
| `cache_bounded` | 2 processes, 3 entries, room for 1 | the cache exceeds its limit by at most the concurrent Lookups |
| `cache_lru` | 1 process, 4 entries, a clock | least recently used first and no more than needed |
| `cache_live` | 2 processes, 2 entries | every Lookup ends |
| `cache_in_use` | as `cache_bounded` | **violated**: an entry in use is removed |
| `cache_locked_out` | as `cache_bounded` | **violated**: a Lookup locked out by a prune aborts |
| `check_order` | 4 files: all import graphs on three libraries and an impl file; all forms of two imports in one file | each file once, after its imports; exactly the imports that wait on a cycle are dropped; the records of imports agree, with the assertion of `ImportLibrariesFromOtherPackage` |
| `clang_tasks` | 2 threads, 3 sources in nested directories, 1 CRT file | ordering by the latches, complete commits, clean staging directory, `Wait` |
| `clang_abandon` | the same | **violated**: tasks outlive `archive_` |
| `deferred_definitions` | every file up to `MaxSize = 8` with one identifier | no `CHECK` fails; scopes, names, bindings and unused-binding warnings as written; bodies after their classes; every step leaves less to do |
| `dominance` | every graph of 3 blocks, of 4 without branches to the entry; up to 3 instructions of 7 kinds, regions of 3 blocks, a general and a specific verification; files with and without errors, of one function, and of two around a declaration | `intersect` climbs, the tree is the dominator tree, the verdict on each function is exact and so is the one on the file, the evaluated set is undone, the verification ends |
| `hash_tables` | groups of 2, tables of 4 to 16 slots; in one table 4 keys with all distributions over 3 hashes, and 5 that collide for ever or until the table grows; 2 tables with 2 keys, small storage or none | lookups agree with a set, the budget is exact and probes end, reserved insertions find room, storage and entries balance |

The violated properties state what a comment or an assertion of the repository
says. `PROJECT.json` quotes each one and says what the code does instead.

Bounds and why they are enough.

* *Building*: two builders and a third process that waits, times out or removes
  are all the roles there are. The proofs cover any number.
* *Cache*: each prune meets at most one other process at a time at any entry.
  `MaxNumEntries = 1` makes every Lookup of a missing entry prune. Three entries
  are the one looked up, one in use and one to remove. Ages only matter relative
  to the two limits, so limits 1 and 2 with a clock that starts beyond them
  reach every comparison; `MaxTime` bounds the clock. `cache_lru` uses one
  process so that the ages vary. The proofs cover any number of processes,
  entries and limits.
* *Checking*: cycles of lengths one to three, files behind a cycle, and an impl
  file whose api is on one, all fit in four units. The proofs cover any number.
* *Clang*: two threads give every pair of concurrent steps, three sources give
  shared and unshared object directories. Three threads were also checked once
  (2.0 million states). The proofs cover any number of threads, sources and
  files.
* *Deferred definitions*: a class or function counts twice, everything else
  once. Eight units hold a class in a function in a class with a method each, or
  three entities with a parameter and a use. One identifier makes every two
  declarations shadow each other. `MaxSize = 9` was also checked once, safety
  only (7.0 million states).
* *Dominance*: a loop with two entries fits in three blocks; with one entry
  deeper than the other, which is when a second sweep changes a dominator, it
  takes four. Two instructions are a definition and a use, the third one is
  between them. In the file of two functions the second one is any code of one
  block after any other, so whatever the first left evaluated would show. Two
  larger sets of graphs and code were also checked once, with one function (10.0
  and 6.3 million states). The proofs cover every graph, body, list of specifics
  and file.
* *Hash tables*: a group of two slots fills, overflows and is probed past with
  three colliding keys. The three sizes let a table grow twice, and the hashes
  distinguish a key that stays in the lower half, one that moves to the upper
  half and one that was probed for. The load factor is 3/4 in place of 7/8 so
  that small tables reach it. The proofs cover every size, load factor, hash and
  number of keys and tables.

Symmetry over processes and entries is used only in runs without liveness.

Deadlock. `check_order`, `clang_tasks`, `clang_abandon` and `dominance` describe
one computation that ends, so TLC's deadlock check is off there. `CheckingEnds`,
`WaitEnds` and `VerificationEnds` say that it ends where it should. In
`deferred_definitions` the check is on and the state at the end of the file
stutters. With `CheckingProgresses`, by which a natural number decreases in every
step of the traversal, this shows without fairness that checking a file ends.

Fairness.

* `RuntimesBuild` and `RuntimesCache`: weak fairness of the steps a call takes
  by itself. Nothing blocks, since `TryLock` polls until a deadline. Calling,
  failing, crashing, restarting, filling a staging directory and dropping a
  `Runtimes` are not fair: a holder may keep its lock for ever. `LookupEnds` is
  claimed when the others have come to rest: `Rmtree` starts again for as long
  as somebody refills the directory.
* `CheckScheduling` and `Dominance`: weak fairness of `Next`; one thread runs
  until it is done.
* `ClangRuntimes`: the caller and each thread keep running. Compiles end. The
  mutex needs no strong fairness because every task takes it once.

## 4. Proofs

`RuntimesBuildProofs` proves, for every set of processes and of forcers
(`ProcsAssumption`: `NoProc` is no process and forcers are processes):

* `TypeCorrect`, `BuildsAreNotRedundant`, `ReturnedPathsAreComplete`,
  `ReleaseNeverAsserts`, `EndedBuildsKeepNothing`: the invariants of
  `build_shared`;
* `LockFileIsTheHolders`: its action property;
* `ImplementsWriteOnceSlot`: `Spec` implements `ComponentSlot`.

The argument. `NoRedundantBuild` and `PathIsComplete` are not inductive: whether
a `Commit` may find a component depends on who holds the lock and on how full
the staging directory is. The inductive invariant `IInv` adds three parts.
`LockInv` says that the lock file is open exactly while a process polls or holds
the lock, and that until a deadline passes everybody between the lock and the
release holds it. `StagingInv` says that a staging directory belongs to a living
Builder, unless it was left behind by one that died or could not remove it and
so answered no path, and is full when it is committed. `DestInv` says that until a removal is
forced the destination is absent or full, that it is full once any answer is a
path, and that it is absent while a build that holds the lock is in flight. Each
action preserves each part (`NextIInv`). `StepIsSlotStep` maps `Rename` to
`Publish`, the two `Get`s and a lost rename to `Find`, a forced removal to
`Remove`, and the rest to `Forget` or stuttering. Once a removal is forced the
slot promises nothing more, which lemma `ForcedStays` makes permanent.

`RuntimesCacheProofs` proves, for every finite set of processes and entries and
all limits with `0 < MinNumEntries <= MaxNumEntries` and `MaxLockedEntryAge <
MaxEntryAge < StartTime` (the assumptions of `RuntimesCache`; the constants of
the code satisfy them):

* `TypesHold`: the type invariant; no lock file outlives its directory under its
  name;
* `PruningBoundsCache`: `CacheBounded`, that concurrent Lookups exceed the limit
  by at most one entry each while nothing in use keeps a prune from removing;
* `PruningIsLRU`: `PruneIsLRU`, that the last loop removes an entry only if
  `MaxNumEntries` that are no older, or wanted, would stay.

The argument. What a prune knows is out of date by the time it acts, so the
number of entries present says nothing about a process's `num_entries`. The
invariant relates the two by the entries a process accounts for (`Accounted`):
those it has listed, less those its last loop has removed. Unless a removal
failed, `num_entries` is their number (`NumInv`). `Ledger` is an account of all
processes together. Take the processes that prune in the order in which they
listed the cache; `B[p]` are `p` and those before it. For each of them there is
room (`Room`): either the processes that are about to make an entry, the other
entries present and `B[p]` together fit the bound, or they fit when only the
entries that `p` does not account for are counted, which is what is left once
`p` has removed what it wants to remove. A process that lists the cache accounts
for all that is present, so it joins at the end of the order with the second
alternative; when it has finished, the first one holds for it and it becomes
one that makes an entry. Lemmas `LedgerLists`, `LedgerShrinks`, `LedgerEnds`,
`LedgerSkips` and `LedgerMakes` say this for sets, without the state; one lemma
per step of `Lookup` applies them.

`ClangRuntimesProofs` proves, for every finite set of sources, CRT files and
directories and every set of threads (`DirsAssumption`: the parent of a
directory comes before it in `obj_dirs`; `FilesAssumption`, `NoneAssumption`:
names differ):

* `TypesHold`;
* `LatchesOrder`: `LatchesOrderTasks`, compile before archive before `Finish`;
* `CommitComplete`: `CommitIsComplete`, that a component is committed only when
  all that goes into it succeeded, and without leftovers;
* `WaitReturnsResult`: `WaitSeesResult`, that `Wait` returns the final result.

The argument. `CountInv` says that each latch's counter is the number of its
handles, by naming who has one: a running function, a queued closure, or the
closure of `compilation_latch_`, which owns a handle of `step_counter_`. That no
task is in two places (`UniqInv`) makes this a count of tasks. From a counter
that is zero follows that nobody holds a handle, so whoever drops the last one
is the last to touch what the latch guards; `ArchiveInv`, `ResultInv`,
`FinishInv` and `DoneInv` say what has been stored by then, in terms of where
the setup is (`Unstarted`, `Early`, `TodoInv`).

`CheckSchedulingProofs` proves, for every number of files and every set of
programs whose declarations are well formed (`ProgramsAssumption`):

* `TypesHold`;
* `ChecksOnce`: `CheckedOnce`, every file exactly once;
* `RecordsAgree`: `ImportRecordsAgree`, the assertion of
  `ImportLibrariesFromOtherPackage` included;
* `ImportsFirst`: the action property `ImportsCheckedFirst`;
* `OnlyCycles`: `OnlyCyclesAreMasked`, that exactly the imports that wait on a
  cycle are dropped.

The argument. `CountInv` says that `imports_remaining` of a unit is the number
of places in the lists of incoming imports that name it and that `CheckReady`
has not gone through. So a unit that is ready has had all its imports checked,
and each unit becomes ready once (`ReadyInv`, `OrderInv`). `LinkInv` ties an
import to the place that lists it until the import is masked. For the cycles,
`CycleInv` says that no set of units in which each waits for another one of the
set ever has a member that is ready; what is left when nothing is ready is the
largest such set.

`DominanceProofs` proves, for every set of graphs whose blocks are numbered from
0, every text over them and every file of such functions (`BodiesAssumption`:
what a function body is; `FilesAssumption`: a file is a sequence of bodies and
declarations; `InstsAssumption`: blocks and what is spliced in are sequences of
instructions):

* `TypesHold`;
* `IntersectAlwaysClimbs`: `IntersectClimbs`, that `intersect` stays in the
  unfinished tree and goes up;
* `BuildReturnsDominance`: `TreeIsDominance`, that the tree of a body and of a
  region is its dominator tree;
* `EvaluatedIsAlwaysUndone`: `EvaluatedIsUndone`, that the evaluated set is what
  its list undoes, and empty between verifications and between functions.

The argument. Branches may go anywhere, into the middle of a loop too, so nothing
can be said of one sweep. From the search remains that every block but the entry
has a predecessor that comes before it in reverse post order (`Search`,
`SearchOrders`). Hence a block comes after all that dominate it
(`DominatorsComeFirst`), and when the sweep gets to a block it finds a
predecessor that has a dominator. `Climbs` says that the tree so far leads from
every block that has a dominator to the entry, through earlier blocks. The
other half has two parts that hold at all times. `SkipsNone`: whatever
dominates a block dominates the block that is now taken for its immediate
dominator. `intersect` keeps this because the end that moves up is the later
one: if it dominated the block it would dominate the other end too, which comes
before it (`EndClimbs`). `Settled`:
if this sweep has changed nothing yet, the dominators of the blocks behind it
are above all their predecessors in the tree. So after a sweep without a change
no branch enters a subtree but at its root, and what is above a block does
dominate it (`FixedPointDominates`). Both together make the tree exact. For the
verifier, the scopes on the two worklists are nested: whatever will be left
later was entered with no more evaluated (`InnerLast`, `Nested`), so no
`LeaveScope` goes back beyond what a scope further down counts on; and the list
holds each instruction once (`Listed`), so undoing one scope takes back nothing
that an outer one recorded.

`RawHashtableProofs` proves, for all sizes of groups and tables and all load
factors that are powers of two and fit each other (`SizesAssumption`), and for
every finite set of tables and any keys with any hashes (`SetupsAssumption`):

* `TypesHold`: the type invariant, which holds while a table grows too; storages
  and entries are given back exactly once;
* `LookupsFindWhatIsThere`: `FindsWhatIsThere`, that a table behaves as a set;
* `BudgetsAreExact`: `BudgetIsExact`, that the budget is what the header says,
  and every probe ends;
* `ReservationsHold`: `GrowthIsReserved`, that `GrowForInsertCount` keeps its
  promise;
* `RehashesHaveRoom` and `InsertCountsFit`: the checks in `GrowToNextAllocSize`
  ("Must still have a growth budget after rehash!") and in
  `GrowForInsertCountImpl` cannot fail;
* `ProbeIsQuadratic`: the index of `ProbeSequence::Next` is the one of the
  formula in its check.

The argument. What a lookup needs is `Reached`: a search for the key of a present
slot comes to that slot before it comes to a group with an empty one. Erasing
keeps this because a slot is made empty only in a group that had an empty slot,
which no search goes past. A table between operations is `Settled`: it is
`Reached`, has each key once and exactly the keys it should, its budget is the
threshold less what is not empty, and covers what was reserved. A table that
grows is `Moving`: what is in the new storage, which has no deletion markers, and
what is left in the old one are together the old entries, none of them twice, and
there is room for all of them, for the key that is waited for, and for what was
reserved. `KeptSound` is the step where a table doubles: an entry in its first
group is in its first group again, whichever half that is in. Three facts of
arithmetic carry the rest. A search visits every group (`ProbesCover`): two
triangle numbers below a power of two have different remainders
(`TrianglesDiffer`), so as many probes as there are groups are a permutation, and
as a budget never falls below zero, some group has an empty slot. A walk with an
odd stride visits each group once (`WalkVisits`), so `DestroyEntries` destroys
each entry once (`DestroysAll`). And the size that `GrowForInsertCountImpl` computes has
room for what it counted (`TargetRoom`). `Balanced` counts storages and entries;
each operation changes the share of one table or of two (`BalanceChange`,
`MoveBalance`).

Only model-checked:

* liveness (`BuildNeverStuck`, `LookupEnds`, `CheckingEnds`, `WaitEnds`,
  `VerificationEnds`), which needs fairness and `ENABLED`;
* `VerdictIsExact` of `Dominance`: its reference sees the uses and evaluations of
  a whole body at once, which the walk goes through one by one; relating the two
  is an induction over the code of the blocks;
* `DeferredDefinitions` with `ScopeStack`: the reference is the environment that
  the parser keeps for every nesting of scopes, and that the operators on the
  record preserve it needs induction over that nesting. The same goes for its
  `CheckingProgresses`.

## 5. Assumptions about code outside the repository

* `flock` locks the open file, is released when the process dies, and works
  across processes; `rename` of a directory atomically replaces a missing or an
  empty one and fails on any other; `mkdir`, `rmdir` and `unlink` are atomic.
* A directory that exists can be opened, except where an error is modelled.
* LLVM's thread pool destroys a task's closure, and the handles in it, before it
  counts the task as done; `ThreadPoolTaskGroup`'s destructor waits.
* Atomic operations of `Latch` are sequentially consistent in the model. The
  code uses relaxed increments and acquire-release decrements, which suffices
  because a handle is copied only from a live one.

## 6. Not modelled

The mapped lines are a small share of the repository's 186 thousand lines. Most
of the rest is the language itself: lexing, parsing, importing of entities
(`check/import_ref.cpp`), constant evaluation (`check/eval.cpp`), conversions,
pattern matching, C++ interoperation, lowering. That code is one pass over data
with one function per construct. A model of it would repeat the grammar or the
type rules, and no small set of values stands for its inputs.

Within the modelled parts:

* `FindXdgCachePath` and the digest that names an entry pick a name; entries of
  the cache that are not directories are left out. Clang's own failures are a
  nondeterministic result. `ClangRuntimes` does not model a crash of the
  process: what a crash leaves behind is the subject of `RuntimesBuild`.
* `ScopeStack` leaves out `break` and `continue` targets, returned variables,
  scopes of cleanups, specifics, reachability of uses, qualified declaration
  names and name poisoning. A name in a class or package is in a `NameScope`,
  which is not part of the scope stack. Class scopes hold no lexical names
  (`let T:! type` there is diagnosed).
* Lambdas are parsed but not yet checked in this version of the code. Without
  them a non-nested scope with deferred definitions never starts while another
  such scope is open.
* `Dominance` takes the operands of an instruction as given; which operand kinds
  are verified is a table in the code. Declarations that are evaluated before
  the body are constants, and all functions of a file have the same parameters
  and specifics. Which blocks make up the region of a pack expansion
  (`GetPackExpansionBodyBlocks`) is input too: of that search the model uses only
  that its blocks are those the entry reaches.
* `RawHashtable` leaves out the seven tag bits of the metadata, the SIMD and
  portable group instructions, values, alignment and the debug check for
  mutation during iteration. The comment at `common/raw_hashtable.h:117` says
  that a table whose growth budget falls to 0 is grown; the code grows it at the
  next insertion that needs an empty slot, so a budget of 0 is an ordinary state
  here.

Options, diagnostics, formatting, the language server's loop and the linker keep
no state that several steps could get wrong.

## 7. Plan

1. Done: `ComponentSlot`, `RuntimesBuild`, `RuntimesCache`, `CheckScheduling`,
   `ClangRuntimes`, their runs, and `RuntimesBuildProofs`.
2. Done: `ScopeStack` and `DeferredDefinitions`, `Dominance`, `RawHashtable`.
3. Done: `CheckSchedulingProofs`, `ClangRuntimesProofs`, `RuntimesCacheProofs`,
   `DominanceProofs`, `RawHashtableProofs`.
4. Candidates for further modules: the recovery of mismatched brackets
   (`lex/mismatched_brackets.cpp`) as an algorithm against its cost definition,
   the coalescing of specifics (`lower/specific_coalescer.cpp`) as an
   equivalence, and the resolution worklist of `check/import_ref.cpp`.
