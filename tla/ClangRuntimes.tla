---------------------------- MODULE ClangRuntimes ----------------------------
(***************************************************************************)
(* The asynchronous builders of toolchain/driver/clang_runtimes.cpp: one   *)
(* ClangResourceDirBuilder or ClangArchiveRuntimesBuilder, its task group  *)
(* on a thread pool, and the two Latches (common/latch.cpp) that say when  *)
(* the last compile and the last step of the build are done.               *)
(*                                                                         *)
(* A latch is its count of live handles.  A task's closure, and with it    *)
(* the handles it captured, is taken to be destroyed before the pool stops *)
(* counting the task: the pool is LLVM's and not part of the repository.   *)
(* Directories are numbered in the order of their paths; compiling,        *)
(* reading and writing files is abstracted to whether it works.            *)
(***************************************************************************)
EXTENDS Integers, Sequences, FiniteSets, FiniteSetsExt

CONSTANTS
  Threads,      \* the pool's threads
  Srcs,         \* the sources of the archive
  Crt,          \* the CRT begin and end files, for Linux targets
  Dirs,         \* the numbers of the directories of the sources
  Parent,       \* the parent of each, 0 at the top
  DirOf,        \* the directory of each source, 0 at the top
  None

ASSUME DirsAssumption ==
  /\ Dirs \subseteq Nat \ {0}
  /\ Parent \in [Dirs -> Dirs \cup {0}]
  /\ \A d \in Dirs : Parent[d] < d        \* parents sort earlier
  /\ DirOf \in [Srcs -> Dirs \cup {0}]
ASSUME FilesAssumption ==
  /\ IsFiniteSet(Srcs) /\ IsFiniteSet(Crt) /\ IsFiniteSet(Dirs)
  /\ Srcs \cap Crt = {} /\ None \notin Srcs \cup Crt

VARIABLES
  resource,   \* whether this builds the resource directory
  crts,       \* the CRT files to build
  main,       \* what the constructing thread does
  result,     \* result_: "unfinished", "path", "error"
  queue,      \* the pool's queue of tasks
  task,       \* the task each thread runs, or None
  pc,         \* where it is
  todo,       \* the files Setup's current loop has not posted
  step,       \* the count of step_counter_
  comp,       \* the count of compilation_latch_
  objs,       \* objs_, per source
  crtResult,  \* crt_begin_result_ and crt_end_result_
  archive,    \* the archive builder's result_
  mu,         \* the thread that holds obj_dirs_mu_, or None
  objDirs,    \* obj_dirs_, which is kept sorted
  left,       \* the object directories the archive's Finish has not reached
  made,       \* the directories that exist in the staging directory
  objFiles,   \* the object files that exist there
  alive,      \* whether the builder's archive_ has not been destroyed
  ignored     \* history: an error of removing a file or directory was ignored

pool == <<queue, task, pc>>
latches == <<step, comp>>
results == <<objs, crtResult, archive>>
files == <<objDirs, left, made, objFiles>>
vars == <<resource, crts, main, result, pool, todo, latches, results, mu, files,
          alive, ignored>>

SetupTask == [job |-> "setup", file |-> None]
FinishTask == [job |-> "finish", file |-> None]
Compile(s) == [job |-> "compile", file |-> s]
BuildCrt(c) == [job |-> "crt", file |-> c]
Tasks == {SetupTask, FinishTask} \cup {Compile(s) : s \in Srcs}
         \cup {BuildCrt(c) : c \in Crt}

ASSUME NoneAssumption == None \notin Tasks

SetupSteps == {"layout", "postcrt", "initcomp", "postcomp"}
CompileSteps == {"lockmu", "mkobj", "clang", "read", "unlink"}
ArchiveSteps == {"members", "rmdirs", "write"}
PCs == {"free", "start", "dropcomp", "dropclosure", "dropstep", "ret"}
       \cup SetupSteps \cup CompileSteps \cup ArchiveSteps

Outcomes == {"never", "ok", "error"}

TypeOK ==
  /\ resource \in BOOLEAN /\ crts \in {{}, Crt}
  /\ main \in {"construct", "wait", "destroy", "done"}
  /\ result \in {"unfinished", "path", "error"}
  /\ queue \in Seq(Tasks)
  /\ task \in [Threads -> Tasks \cup {None}]
  /\ pc \in [Threads -> PCs]
  /\ todo \subseteq Srcs \cup Crt
  /\ step \in Nat /\ comp \in Nat
  /\ objs \in [Srcs -> Outcomes]
  /\ crtResult \in [Crt -> Outcomes]
  /\ archive \in Outcomes
  /\ mu \in Threads \cup {None}
  /\ objDirs \subseteq Dirs /\ left \subseteq objDirs
  /\ made \subseteq Dirs /\ objFiles \subseteq Srcs
  /\ alive \in BOOLEAN /\ ignored \in BOOLEAN

Init ==
  /\ resource \in BOOLEAN
  /\ crts \in IF resource THEN {{}, Crt} ELSE {{}}
  /\ main = "construct"
  /\ result = "unfinished"
  /\ queue = <<>>
  /\ task = [t \in Threads |-> None]
  /\ pc = [t \in Threads |-> "free"]
  /\ todo = {}
  /\ step = 0 /\ comp = 0
  /\ objs = [s \in Srcs |-> "never"]
  /\ crtResult = [c \in Crt |-> "never"]
  /\ archive = "never"
  /\ mu = None
  /\ objDirs = {} /\ left = {} /\ made = {} /\ objFiles = {}
  /\ alive = TRUE /\ ignored = FALSE

Goto(t, l) == pc' = [pc EXCEPT ![t] = l]

----------------------------------------------------------------------------
(* The constructing thread                                                  *)

\* The constructor: Runtimes::Build finds the component, fails, or hands out
\* a Builder, and then Setup is the first task.
Construct ==
  /\ main = "construct"
  /\ main' = "wait"
  /\ \/ result' \in {"path", "error"} /\ UNCHANGED queue
     \/ queue' = <<SetupTask>> /\ UNCHANGED result
  /\ UNCHANGED <<resource, crts, task, pc, todo, latches, results, mu, files,
                 alive, ignored>>

GroupDone == queue = <<>> /\ \A t \in Threads : task[t] = None

Wait ==
  /\ main = "wait"
  /\ GroupDone
  /\ main' = "done"
  /\ UNCHANGED <<resource, crts, result, pool, todo, latches, results, mu, files,
                 alive, ignored>>

\* An error of another builder makes the caller return before this one's Wait.
\* Members are destroyed in reverse order: archive_ first, tasks_ near the end.
Abandon ==
  /\ main = "wait"
  /\ main' = "destroy"
  /\ alive' = FALSE
  /\ UNCHANGED <<resource, crts, result, pool, todo, latches, results, mu, files,
                 ignored>>

\* The destructor of tasks_ waits for the group.
DestroyTasks ==
  /\ main = "destroy"
  /\ GroupDone
  /\ main' = "done"
  /\ UNCHANGED <<resource, crts, result, pool, todo, latches, results, mu, files,
                 alive, ignored>>

----------------------------------------------------------------------------
(* The thread pool                                                          *)

FirstStep(k) ==
  CASE k.job = "setup" -> IF resource THEN "layout" ELSE "postcrt"
    [] k.job = "compile" -> "lockmu"
    [] OTHER -> "start"

TakeTask(t) ==
  /\ task[t] = None
  /\ queue # <<>>
  /\ task' = [task EXCEPT ![t] = Head(queue)]
  /\ queue' = Tail(queue)
  /\ Goto(t, FirstStep(Head(queue)))
  /\ IF Head(queue).job = "setup"
     THEN todo' = crts /\ step' = IF resource THEN step ELSE 1
     ELSE UNCHANGED <<todo, step>>
  /\ UNCHANGED <<resource, crts, main, result, comp, results, mu, files, alive, ignored>>

ReturnTask(t) ==
  /\ pc[t] = "ret"
  /\ task' = [task EXCEPT ![t] = None]
  /\ Goto(t, "free")
  /\ UNCHANGED <<resource, crts, main, result, queue, todo, latches, results, mu,
                 files, alive, ignored>>

----------------------------------------------------------------------------
(* Setup of the builder and of its ArchiveBuilder                           *)

\* ClangResourceDirBuilder::Setup: the symlink and the lib directory, then
\* step_counter_.Init.
SetupLayout(t) ==
  /\ pc[t] = "layout"
  /\ \/ step' = 1 /\ Goto(t, "postcrt") /\ UNCHANGED result
     \/ result' = "error" /\ Goto(t, "ret") /\ UNCHANGED step
  /\ UNCHANGED <<resource, crts, main, queue, task, todo, comp, results, mu, files,
                 alive, ignored>>

\* A task per CRT file, each with a copy of the step handle.
PostCrt(t) ==
  /\ pc[t] = "postcrt"
  /\ \/ \E c \in todo :
          /\ queue' = Append(queue, BuildCrt(c))
          /\ step' = step + 1
          /\ todo' = todo \ {c}
          /\ UNCHANGED pc
     \/ /\ todo = {}
        /\ Goto(t, "initcomp")
        /\ UNCHANGED <<queue, step, todo>>
  /\ UNCHANGED <<resource, crts, main, result, task, comp, results, mu, files,
                 alive, ignored>>

InitCompUncaptured(t) ==
  /\ pc[t] = "initcomp"
  /\ comp' = 1
  /\ todo' = Srcs
  /\ Goto(t, "postcomp")
  /\ UNCHANGED <<resource, crts, main, result, queue, task, step, results, mu, files,
                 alive, ignored>>

\* compilation_latch_.Init, whose closure keeps a copy of the step handle.
InitComp(t) ==
  /\ pc[t] = "initcomp"
  /\ comp' = 1
  /\ step' = step + 1
  /\ todo' = Srcs
  /\ Goto(t, "postcomp")
  /\ UNCHANGED <<resource, crts, main, result, queue, task, results, mu, files,
                 alive, ignored>>

PostCompileUncounted(t) ==
  /\ pc[t] = "postcomp"
  /\ \/ \E s \in todo :
          /\ queue' = Append(queue, Compile(s))
          /\ comp' = IF comp = 1 THEN 2 ELSE comp
          /\ todo' = todo \ {s}
          /\ UNCHANGED pc
     \/ /\ todo = {}
        /\ Goto(t, "dropcomp")
        /\ UNCHANGED <<queue, comp, todo>>
  /\ UNCHANGED <<resource, crts, main, result, task, step, results, mu, files,
                 alive, ignored>>

\* A task per source, each with a copy of the compilation handle.
PostCompile(t) ==
  /\ pc[t] = "postcomp"
  /\ \/ \E s \in todo :
          /\ queue' = Append(queue, Compile(s))
          /\ comp' = comp + 1
          /\ todo' = todo \ {s}
          /\ UNCHANGED pc
     \/ /\ todo = {}
        /\ Goto(t, "dropcomp")
        /\ UNCHANGED <<queue, comp, todo>>
  /\ UNCHANGED <<resource, crts, main, result, task, step, results, mu, files,
                 alive, ignored>>

----------------------------------------------------------------------------
(* Latch::Dec                                                               *)

\* The thread that drops the last compilation handle finishes the archive.
DropComp(t) ==
  /\ pc[t] = "dropcomp"
  /\ comp' = comp - 1
  /\ Goto(t, IF comp = 1 THEN "members"
             ELSE IF task[t] = SetupTask THEN "dropstep" ELSE "ret")
  /\ UNCHANGED <<resource, crts, main, result, queue, task, todo, step, results, mu,
                 files, alive, ignored>>

DropStepOffByOne(t) ==
  /\ pc[t] \in {"dropclosure", "dropstep"}
  /\ step' = step - 1
  /\ queue' = IF step = 0 THEN Append(queue, FinishTask) ELSE queue
  /\ Goto(t, IF pc[t] = "dropclosure" /\ task[t] = SetupTask THEN "dropstep" ELSE "ret")
  /\ UNCHANGED <<resource, crts, main, result, task, todo, comp, results, mu, files,
                 alive, ignored>>

\* A step handle goes, with the closure that captured it or by itself; the
\* last one posts the builder's Finish.
DropStep(t) ==
  /\ pc[t] \in {"dropclosure", "dropstep"}
  /\ step' = step - 1
  /\ queue' = IF step = 1 THEN Append(queue, FinishTask) ELSE queue
  /\ Goto(t, IF pc[t] = "dropclosure" /\ task[t] = SetupTask THEN "dropstep" ELSE "ret")
  /\ UNCHANGED <<resource, crts, main, result, task, todo, comp, results, mu, files,
                 alive, ignored>>

----------------------------------------------------------------------------
(* ArchiveBuilder::CompileMember                                            *)

Member(t) == task[t].file

SetObj(t, r) == objs' = [objs EXCEPT ![Member(t)] = r] /\ Goto(t, "dropcomp")

\* CreateObjDir waits for the mutex, unless the source has no directory.
LockObjDirs(t) ==
  /\ pc[t] = "lockmu"
  /\ IF DirOf[Member(t)] = 0
     THEN Goto(t, "clang") /\ UNCHANGED mu
     ELSE mu = None /\ mu' = t /\ Goto(t, "mkobj")
  /\ UNCHANGED <<resource, crts, main, result, queue, task, todo, latches, results,
                 files, alive, ignored>>

\* A directory and those on its path: what every set with it and with the
\* parents of its members has.
HasParents(D) == \A d \in D : Parent[d] # 0 => Parent[d] \in D
Ancestors(d) ==
  {a \in Dirs : \A D \in SUBSET Dirs : d \in D /\ HasParents(D) => a \in D}

CreateObjDirLocked(t) ==
  /\ pc[t] = "mkobj"
  /\ \/ /\ made' = made \cup Ancestors(DirOf[Member(t)])
        /\ objDirs' = objDirs \cup Ancestors(DirOf[Member(t)])
        /\ Goto(t, "clang")
        /\ mu' = None
        /\ UNCHANGED objs
     \/ /\ SetObj(t, "error")
        /\ UNCHANGED <<made, objDirs, mu>>
  /\ UNCHANGED <<resource, crts, main, result, queue, task, todo, latches, crtResult,
                 archive, left, objFiles, alive, ignored>>

\* The rest of CreateObjDir, with the mutex: create the directory and its
\* parents, unless that was done, and record them.
CreateObjDir(t) ==
  /\ pc[t] = "mkobj"
  /\ LET d == DirOf[Member(t)] IN
     \/ /\ d \in objDirs
        /\ Goto(t, "clang")
        /\ UNCHANGED <<objDirs, made, objs>>
     \/ /\ d \notin objDirs
        /\ made' = made \cup Ancestors(d)
        /\ objDirs' = objDirs \cup Ancestors(d)
        /\ Goto(t, "clang")
        /\ UNCHANGED objs
     \/ /\ d \notin objDirs
        /\ \E D \in SUBSET Ancestors(d) : made' = made \cup D
        /\ SetObj(t, "error")
        /\ UNCHANGED objDirs
  /\ mu' = None
  /\ UNCHANGED <<resource, crts, main, result, queue, task, todo, latches, crtResult,
                 archive, left, objFiles, alive, ignored>>

RunClang(t) ==
  /\ pc[t] = "clang"
  /\ \/ objFiles' = objFiles \cup {Member(t)} /\ Goto(t, "read") /\ UNCHANGED objs
     \/ SetObj(t, "error") /\ UNCHANGED objFiles
  /\ UNCHANGED <<resource, crts, main, result, queue, task, todo, latches, crtResult,
                 archive, mu, objDirs, left, made, alive, ignored>>

ReadObject(t) ==
  /\ pc[t] = "read"
  /\ \/ Goto(t, "unlink") /\ UNCHANGED objs
     \/ SetObj(t, "error")
  /\ UNCHANGED <<resource, crts, main, result, queue, task, todo, latches, crtResult,
                 archive, mu, files, alive, ignored>>

\* The archive member is in memory; an error of the unlink is ignored.
UnlinkObject(t) ==
  /\ pc[t] = "unlink"
  /\ \/ objFiles' = objFiles \ {Member(t)} /\ UNCHANGED ignored
     \/ ignored' = TRUE /\ UNCHANGED objFiles
  /\ SetObj(t, "ok")
  /\ UNCHANGED <<resource, crts, main, result, queue, task, todo, latches, crtResult,
                 archive, mu, objDirs, left, made, alive>>

\* BuildCrtFile, all of the task that a CRT file is.
BuildCrtFile(t) ==
  /\ pc[t] = "start" /\ task[t].job = "crt"
  /\ \E r \in {"ok", "error"} : crtResult' = [crtResult EXCEPT ![Member(t)] = r]
  /\ Goto(t, "dropstep")
  /\ UNCHANGED <<resource, crts, main, result, queue, task, todo, latches, objs, archive,
                 mu, files, alive, ignored>>

----------------------------------------------------------------------------
(* ArchiveBuilder::Finish                                                   *)

SetArchive(t, r) == archive' = r /\ Goto(t, "dropclosure")

\* The archive's directory may not be creatable; any failed member fails all.
CollectMembers(t) ==
  /\ pc[t] = "members"
  /\ \/ /\ \A s \in Srcs : objs[s] = "ok"
        /\ left' = objDirs
        /\ Goto(t, "rmdirs")
        /\ UNCHANGED archive
     \/ /\ SetArchive(t, "error")
        /\ UNCHANGED left
  /\ UNCHANGED <<resource, crts, main, result, queue, task, todo, latches, objs,
                 crtResult, mu, objDirs, made, objFiles, alive, ignored>>

IsEmptyDir(d) ==
  /\ \A e \in made : Parent[e] # d
  /\ \A s \in objFiles : DirOf[s] # d

\* Object directories go in the reverse of their order; errors are ignored.
RemoveObjDirs(t) ==
  /\ pc[t] = "rmdirs"
  /\ \/ /\ left # {}
        /\ LET d == Max(left) IN
             /\ left' = left \ {d}
             /\ \/ IsEmptyDir(d) /\ made' = made \ {d} /\ UNCHANGED ignored
                \/ ignored' = (ignored \/ IsEmptyDir(d)) /\ UNCHANGED made
        /\ UNCHANGED pc
     \/ /\ left = {}
        /\ Goto(t, "write")
        /\ UNCHANGED <<left, made, ignored>>
  /\ UNCHANGED <<resource, crts, main, result, queue, task, todo, latches, results, mu,
                 objDirs, objFiles, alive>>

WriteArchive(t) ==
  /\ pc[t] = "write"
  /\ \E r \in {"ok", "error"} : SetArchive(t, r)
  /\ UNCHANGED <<resource, crts, main, result, queue, task, todo, latches, objs,
                 crtResult, mu, files, alive, ignored>>

----------------------------------------------------------------------------
(* The builder's Finish, as a task of its own                               *)

BuildOK == archive = "ok" /\ \A c \in crts : crtResult[c] = "ok"

FinishIgnoringCrt(t) ==
  /\ pc[t] = "start" /\ task[t].job = "finish"
  /\ \/ archive = "ok" /\ result' \in {"path", "error"}
     \/ archive # "ok" /\ result' = "error"
  /\ Goto(t, "ret")
  /\ UNCHANGED <<resource, crts, main, queue, task, todo, latches, results, mu, files,
                 alive, ignored>>

\* Commit (see RuntimesBuild) unless something failed.
Finish(t) ==
  /\ pc[t] = "start" /\ task[t].job = "finish"
  /\ \/ BuildOK /\ result' \in {"path", "error"}
     \/ ~BuildOK /\ result' = "error"
  /\ Goto(t, "ret")
  /\ UNCHANGED <<resource, crts, main, queue, task, todo, latches, results, mu, files,
                 alive, ignored>>

----------------------------------------------------------------------------
ThreadStep(t) ==
  \/ TakeTask(t) \/ ReturnTask(t)
  \/ SetupLayout(t) \/ PostCrt(t) \/ InitComp(t) \/ PostCompile(t)
  \/ DropComp(t) \/ DropStep(t)
  \/ LockObjDirs(t) \/ CreateObjDir(t) \/ RunClang(t) \/ ReadObject(t) \/ UnlinkObject(t)
  \/ BuildCrtFile(t)
  \/ CollectMembers(t) \/ RemoveObjDirs(t) \/ WriteArchive(t)
  \/ Finish(t)

MainStep == Construct \/ Wait

Next == MainStep \/ \E t \in Threads : ThreadStep(t)

Spec == Init /\ [][Next]_vars

\* The pool's threads and the caller keep running, and compiles end.  Weak
\* fairness is enough for the mutex: each task takes it once.
FairSpec ==
  /\ Spec
  /\ WF_vars(MainStep)
  /\ \A t \in Threads : WF_vars(ThreadStep(t))

\* The same with callers that may drop the builder without a Wait.
AbandonNext == Next \/ Abandon \/ DestroyTasks
AbandonSpec == Init /\ [][AbandonNext]_vars

----------------------------------------------------------------------------
(* Properties                                                               *)

Busy(t) == task[t] # None /\ pc[t] # "ret"

\* The two latches order the tasks, whichever thread drops the last handle, the
\* setting-up one included. The archive ("must only be called once all members
\* have been compiled") is finished by one thread after every compile has
\* stored its result. Commit renames the staging directory away, so nothing may
\* still write to it: the builder's Finish is the last task, runs once, and
\* finds every result in place.
LatchesOrderTasks ==
  \A t \in Threads :
    /\ pc[t] \in ArchiveSteps \cup {"dropclosure"} =>
         /\ \A s \in Srcs : objs[s] # "never"
         /\ \A u \in Threads \ {t} :
              pc[u] \notin ArchiveSteps \cup CompileSteps \cup {"dropclosure"}
    /\ task[t] = FinishTask =>
         /\ queue = <<>>
         /\ \A u \in Threads \ {t} : ~Busy(u)
         /\ archive # "never" /\ \A c \in crts : crtResult[c] # "never"

\* What was built here and committed is complete: no failed compile, CRT file
\* or archive is ever committed; nor are object files and their directories,
\* unless an error of removing one was ignored.
CommitIsComplete ==
  result = "path" =>
    /\ archive # "never" =>
         /\ archive = "ok"
         /\ \A s \in Srcs : objs[s] = "ok"
         /\ \A c \in crts : crtResult[c] = "ok"
    /\ ~ignored => made = {} /\ objFiles = {}

\* Wait never returns the placeholder of a build that is still running or was
\* never finished.
WaitSeesResult == main = "done" => result # "unfinished" /\ GroupDone

\* The build ends, with any number of threads.
WaitEnds == <>(main = "done")

\* clang_runtimes.h says that callers "may call" Wait: a builder that is dropped
\* without it must not leave tasks behind that still use its archive_.
NoTaskOutlivesArchive ==
  ~alive => /\ \A t \in Threads : task[t] = None \/ pc[t] = "ret"
            /\ queue = <<>>

=============================================================================
