------------------------- MODULE ClangRuntimesProofs -------------------------
(***************************************************************************)
(* Proofs about ClangRuntimes for any number of threads, sources, CRT      *)
(* files and directories: the latches order the tasks, what is committed   *)
(* is complete, and Wait returns the result of a finished build.           *)
(***************************************************************************)
EXTENDS ClangRuntimes, FiniteSetTheorems, SequenceTheorems, TLAPS

----------------------------------------------------------------------------
(* The inductive invariant                                                  *)

InQueue(k) == \E i \in 1..Len(queue) : queue[i] = k
At(k, L) == \E t \in Threads : task[t] = k /\ pc[t] \in L
Present(k) == InQueue(k) \/ \E t \in Threads : task[t] = k

\* The thread that runs ArchiveBuilder::Finish and then drops the closure.
Archiving == ArchiveSteps \cup {"dropclosure"}

\* What a thread does is what its task is for.
JobInv ==
  \A t \in Threads :
    /\ task[t] = None <=> pc[t] = "free"
    /\ pc[t] \in SetupSteps => task[t] = SetupTask
    /\ pc[t] \in CompileSteps => task[t].job = "compile"
    /\ pc[t] \in Archiving \cup {"dropcomp"} => task[t].job \in {"compile", "setup"}
    /\ pc[t] = "start" => task[t].job \in {"crt", "finish"}
    /\ pc[t] = "dropstep" => task[t].job \in {"crt", "setup"}

\* No task is in two places.
UniqInv ==
  /\ \A m, n \in 1..Len(queue) : queue[m] = queue[n] => m = n
  /\ \A t, u \in Threads : task[t] = task[u] /\ task[t] # None => t = u
  /\ \A m \in 1..Len(queue), t \in Threads : queue[m] # task[t]

\* Before Setup starts there is nothing else.
StartInv ==
  /\ main = "construct" =>
       /\ queue = <<>> /\ \A t \in Threads : task[t] = None
       /\ result = "unfinished" /\ made = {} /\ objFiles = {}
  /\ InQueue(SetupTask) =>
       /\ main # "construct" /\ Len(queue) = 1 /\ \A t \in Threads : task[t] = None
  /\ \A t \in Threads : pc[t] = "layout" =>
       /\ queue = <<>> /\ \A u \in Threads \ {t} : task[u] = None

Unstarted == main = "construct" \/ InQueue(SetupTask) \/ At(SetupTask, {"layout"})
Early == Unstarted \/ At(SetupTask, {"postcrt", "initcomp"})

\* Before compilation_latch_.Init nothing is compiled.
EarlyInv ==
  Early => /\ \A s \in Srcs : ~Present(Compile(s)) /\ objs[s] = "never"
           /\ archive = "never"

\* What the loops of Setup are still to post.
TodoInv ==
  \A t \in Threads :
    /\ pc[t] \in {"layout", "postcrt"} =>
         todo \subseteq crts /\ \A c \in todo : ~Present(BuildCrt(c))
    /\ pc[t] = "layout" => todo = crts
    /\ pc[t] = "postcomp" =>
         todo \subseteq Srcs /\ \A s \in todo : ~Present(Compile(s)) /\ objs[s] = "never"

\* A compile stores its result last.
StoredInv ==
  \A s \in Srcs : InQueue(Compile(s)) \/ At(Compile(s), CompileSteps) => objs[s] = "never"

\* The tasks that hold a handle of compilation_latch_.
HoldsComp == CompileSteps \cup {"postcomp", "dropcomp"}
CompHeld ==
  {k \in Tasks : (k.job = "compile" /\ InQueue(k)) \/ At(k, HoldsComp)}

\* The tasks that hold a handle of step_counter_, and the closure that does.
Closure == [job |-> "closure", file |-> None]
SetupHolds == {"postcrt", "initcomp", "postcomp", "dropcomp", "dropstep"} \cup Archiving
HoldsStep(k) ==
  \/ k.job = "crt" /\ (InQueue(k) \/ At(k, {"start", "dropstep"}))
  \/ k = SetupTask /\ At(k, SetupHolds)
ClosureAlive == CompHeld # {} \/ \E t \in Threads : pc[t] \in Archiving
StepHeld == {k \in Tasks : HoldsStep(k)} \cup {k \in {Closure} : ClosureAlive}

\* The latches count their handles.
CountInv ==
  /\ IsFiniteSet(CompHeld) /\ comp = Cardinality(CompHeld)
  /\ IsFiniteSet(StepHeld) /\ step = Cardinality(StepHeld)

\* The archive is finished once, after the last compile.
ArchiveInv ==
  /\ \A t \in Threads : pc[t] \in Archiving =>
       comp = 0 /\ \A u \in Threads : pc[u] \in Archiving => u = t
  /\ archive # "never" => comp = 0
  /\ \A t \in Threads : pc[t] \in {"rmdirs", "write"} => \A s \in Srcs : objs[s] = "ok"
  /\ archive = "ok" => \A s \in Srcs : objs[s] = "ok"

\* Nothing runs, and nothing that Finish was for.
NoBuild ==
  main # "construct" /\ queue = <<>> /\ \A t \in Threads : ~Busy(t) /\ task[t] # FinishTask

\* A result that is missing is still to come.
ResultInv ==
  /\ \A s \in Srcs : objs[s] = "never" =>
       \/ Early \/ NoBuild \/ InQueue(Compile(s)) \/ At(Compile(s), CompileSteps)
       \/ At(SetupTask, {"postcomp"}) /\ s \in todo
  /\ archive = "never" =>
       Early \/ NoBuild \/ comp > 0 \/ \E t \in Threads : pc[t] \in ArchiveSteps
  /\ \A c \in crts : crtResult[c] = "never" =>
       \/ Unstarted \/ NoBuild \/ InQueue(BuildCrt(c)) \/ At(BuildCrt(c), {"start"})
       \/ At(SetupTask, {"postcrt"}) /\ c \in todo

\* Finish is posted when the last step handle goes.
FinishInv ==
  Present(FinishTask) =>
    /\ step = 0 /\ ~Unstarted /\ archive # "never"
    /\ \A c \in crts : crtResult[c] # "never"

\* The build has a result when, and only when, nothing is left to do.
DoneInv ==
  /\ result # "unfinished" =>
       main # "construct" /\ queue = <<>> /\ \A t \in Threads : ~Busy(t)
  /\ result = "unfinished" /\ main # "construct" =>
       \/ Unstarted \/ step > 0 \/ InQueue(FinishTask) \/ At(FinishTask, {"start"})
  /\ main = "done" => result # "unfinished" /\ GroupDone

\* What is left in the staging directory.
CleanInv ==
  /\ ~ignored => \A s \in objFiles : objs[s] = "error" \/ At(Compile(s), {"read", "unlink"})
  /\ made \subseteq objDirs \/ \E s \in Srcs : objs[s] = "error"
  /\ \A t \in Threads : pc[t] = "rmdirs" /\ ~ignored => made \subseteq left
  /\ \A t \in Threads : pc[t] = "write" /\ ~ignored => made = {}
  /\ archive = "ok" /\ ~ignored => made = {} /\ objFiles = {}
  /\ result = "path" =>
       \/ archive = "ok" /\ \A c \in crts : crtResult[c] = "ok"
       \/ archive = "never" /\ made = {} /\ objFiles = {}

IInv ==
  /\ TypeOK /\ JobInv /\ UniqInv /\ StartInv /\ EarlyInv /\ TodoInv /\ StoredInv
  /\ CountInv /\ ArchiveInv /\ ResultInv /\ FinishInv /\ DoneInv /\ CleanInv

----------------------------------------------------------------------------
(* Tasks and where they are                                                 *)

\* The four sorts of tasks.
LEMMA TaskFacts ==
  /\ SetupTask \in Tasks /\ SetupTask.job = "setup"
  /\ FinishTask \in Tasks /\ FinishTask.job = "finish"
  /\ \A s \in Srcs : Compile(s) \in Tasks /\ Compile(s).job = "compile" /\ Compile(s).file = s
  /\ \A c \in Crt : BuildCrt(c) \in Tasks /\ BuildCrt(c).job = "crt" /\ BuildCrt(c).file = c
  /\ \A k \in Tasks :
       /\ k.job \in {"setup", "finish", "compile", "crt"} /\ k # None /\ k # Closure
       /\ k.job = "setup" => k = SetupTask
       /\ k.job = "finish" => k = FinishTask
       /\ k.job = "compile" => k.file \in Srcs /\ k = Compile(k.file)
       /\ k.job = "crt" => k.file \in Crt /\ k = BuildCrt(k.file)
  /\ Closure.job = "closure"
<1> USE DEF SetupTask, FinishTask, Compile, BuildCrt, Closure
<1>1. /\ SetupTask \in Tasks /\ SetupTask.job = "setup"
      /\ FinishTask \in Tasks /\ FinishTask.job = "finish" /\ Closure.job = "closure"
  BY DEF Tasks
<1>2. \A s \in Srcs : Compile(s) \in Tasks /\ Compile(s).job = "compile" /\ Compile(s).file = s
  BY DEF Tasks
<1>3. \A c \in Crt : BuildCrt(c) \in Tasks /\ BuildCrt(c).job = "crt" /\ BuildCrt(c).file = c
  BY DEF Tasks
<1>4. ASSUME NEW k \in Tasks
      PROVE  /\ k.job \in {"setup", "finish", "compile", "crt"} /\ k # None /\ k # Closure
             /\ k.job = "setup" => k = SetupTask
             /\ k.job = "finish" => k = FinishTask
             /\ k.job = "compile" => k.file \in Srcs /\ k = Compile(k.file)
             /\ k.job = "crt" => k.file \in Crt /\ k = BuildCrt(k.file)
  <2>1. CASE k \in {SetupTask, FinishTask}
    BY <2>1, NoneAssumption
  <2>2. CASE \E s \in Srcs : k = Compile(s)
    BY <2>2, NoneAssumption
  <2>3. CASE \E c \in Crt : k = BuildCrt(c)
    BY <2>3, NoneAssumption
  <2> QED
    BY <2>1, <2>2, <2>3 DEF Tasks
<1> QED
  BY <1>1, <1>2, <1>3, <1>4

\* A task is run by one thread, so where that one is is where the task is.
LEMMA AtThread ==
  ASSUME UniqInv, NEW t \in Threads, NEW k \in Tasks, task[t] = k
  PROVE  /\ \A L : At(k, L) <=> pc[t] \in L
         /\ Present(k) /\ ~InQueue(k)
<1>1. k # None
  BY TaskFacts
<1> QED
  BY <1>1 DEF UniqInv, At, Present, InQueue

\* Thread t moves to the step l of its task k; no other task is elsewhere.
Moved(t, k, l) ==
  /\ \A x : InQueue(x)' <=> InQueue(x)
  /\ \A x : Present(x)' <=> Present(x)
  /\ \A x, L : x # k => (At(x, L)' <=> At(x, L))
  /\ \A L : At(k, L) <=> pc[t] \in L
  /\ \A L : At(k, L)' <=> l \in L
  /\ \A u \in Threads : pc'[u] = IF u = t THEN l ELSE pc[u]

\* That is what a step of a thread inside its task does.
LEMMA Move ==
  ASSUME TypeOK, UniqInv, NEW t \in Threads, NEW k \in Tasks, task[t] = k, NEW l,
         UNCHANGED <<queue, task>>, pc' = [pc EXCEPT ![t] = l]
  PROVE  Moved(t, k, l)
<1>1. k # None
  BY TaskFacts
<1>2. \A u \in Threads : pc'[u] = IF u = t THEN l ELSE pc[u]
  BY DEF TypeOK
<1>3. \A u \in Threads : task[u] = k => u = t
  BY <1>1 DEF UniqInv
<1> QED
  BY <1>2, <1>3 DEF At, Present, InQueue, Moved

\* A task is posted, while a thread may move.
LEMMA QueueAppend ==
  ASSUME TypeOK, NEW y \in Tasks, queue' = Append(queue, y)
  PROVE  \A x : InQueue(x)' <=> InQueue(x) \/ x = y
<1>1. queue \in Seq(Tasks) /\ Len(queue) \in Nat
  BY DEF TypeOK
<1>2. /\ Len(queue') = Len(queue) + 1 /\ queue'[Len(queue) + 1] = y
      /\ \A m \in 1..Len(queue) : queue'[m] = queue[m]
  BY <1>1
<1>3. \A x : InQueue(x)' <=> \E i \in 1..Len(queue') : queue'[i] = x
  BY DEF InQueue
<1> QED
  BY <1>1, <1>2, <1>3 DEF InQueue

\* A thread takes the first task.
LEMMA QueueTail ==
  ASSUME TypeOK, UniqInv, queue # <<>>, queue' = Tail(queue), NEW h, h = Head(queue)
  PROVE  /\ h \in Tasks /\ InQueue(h) /\ ~InQueue(h)'
         /\ \A x : x # h => (InQueue(x)' <=> InQueue(x))
         /\ \A m, n \in 1..Len(queue') : queue'[m] = queue'[n] => m = n
<1>1. queue \in Seq(Tasks) /\ Len(queue) \in Nat /\ Len(queue) # 0
  BY DEF TypeOK
<1>2. /\ h \in Tasks /\ h = queue[1] /\ Len(queue') = Len(queue) - 1
      /\ \A m \in 1..Len(queue') : queue'[m] = queue[m + 1]
  BY <1>1
<1>3. \A x : InQueue(x)' <=> \E i \in 1..Len(queue') : queue'[i] = x
  BY DEF InQueue
<1>4. \A m \in 1..Len(queue) : m = 1 \/ (m - 1 \in 1..Len(queue') /\ queue'[m - 1] = queue[m])
  BY <1>1, <1>2
<1>5. InQueue(h)
  BY <1>1, <1>2 DEF InQueue
<1>6. ~InQueue(h)'
  BY <1>1, <1>2, <1>3 DEF UniqInv
<1>7. \A x : x # h => (InQueue(x)' <=> InQueue(x))
  BY <1>1, <1>2, <1>3, <1>4 DEF InQueue
<1>8. \A m, n \in 1..Len(queue') : queue'[m] = queue'[n] => m = n
  BY <1>1, <1>2 DEF UniqInv
<1> QED
  BY <1>2, <1>5, <1>6, <1>7, <1>8

\* The other tasks are not where one task is.
LEMMA OtherTasks ==
  ASSUME NEW s \in Srcs
  PROVE  /\ Compile(s) # SetupTask /\ Compile(s) # FinishTask
         /\ \A c \in Crt : Compile(s) # BuildCrt(c)
         /\ \A u \in Srcs : u # s => Compile(s) # Compile(u)
  BY TaskFacts

----------------------------------------------------------------------------
(* CompileMember                                                            *)

\* What the steps of CompileMember have in common: the compile moves on, and
\* when it is through its result is stored.
LEMMA MemberMove ==
  ASSUME IInv, NEW t \in Threads, NEW s \in Srcs, task[t] = Compile(s), NEW l,
         pc[t] \in CompileSteps, l \in CompileSteps \cup {"dropcomp"},
         pc' = [pc EXCEPT ![t] = l],
         objs' \in [Srcs -> Outcomes],
         \A u \in Srcs : objs'[u] # objs[u] => u = s,
         l = "dropcomp" <=> objs'[s] # "never",
         UNCHANGED <<resource, crts, main, result, queue, task, todo, step, comp,
                     crtResult, archive>>,
         ignored => ignored', objFiles' \subseteq objFiles \cup {s},
         ignored' \/ s \notin objFiles' \/ objs'[s] = "error" \/ l \in {"read", "unlink"},
         made' \subseteq objDirs' \/ \E u \in Srcs : objs'[u] = "error",
         TypeOK'
  PROVE  IInv'
<1> USE DEF IInv
<1>1. PICK k \in Tasks : k = Compile(s) /\ task[t] = k /\ k.job = "compile" /\ k.file = s
  BY TaskFacts
<1>2. /\ \A x : InQueue(x)' <=> InQueue(x)
      /\ \A x : Present(x)' <=> Present(x)
      /\ \A x, L : x # k => (At(x, L)' <=> At(x, L))
      /\ \A L : At(k, L) <=> pc[t] \in L
      /\ \A L : At(k, L)' <=> l \in L
      /\ \A u \in Threads : pc'[u] = IF u = t THEN l ELSE pc[u]
  <2>1. TypeOK /\ UniqInv /\ task[t] = k /\ UNCHANGED <<queue, task>>
    BY <1>1
  <2>2. Moved(t, k, l)
    BY <2>1, Move
  <2> QED
    BY <2>2 DEF Moved
<1>3. /\ \A L : At(SetupTask, L)' <=> At(SetupTask, L)
      /\ \A L : At(FinishTask, L)' <=> At(FinishTask, L)
      /\ \A c \in Crt : \A L : At(BuildCrt(c), L)' <=> At(BuildCrt(c), L)
      /\ \A u \in Srcs : \A L : u # s => (At(Compile(u), L)' <=> At(Compile(u), L))
  BY <1>1, <1>2, OtherTasks
<1>4. Present(k) /\ ~InQueue(k)
  BY <1>1, AtThread
<1>5. ~Early /\ ~Unstarted /\ Busy(t) /\ main # "construct"
  <2>1. ~Early
    BY <1>1, <1>4 DEF EarlyInv
  <2>2. task[t] # None
    BY <1>1, TaskFacts
  <2>3. pc[t] # "ret"
    BY DEF CompileSteps
  <2> QED
    BY <2>1, <2>2, <2>3 DEF Early, Unstarted, Busy
<1>6. ~Early' /\ ~Unstarted'
  BY <1>2, <1>3, <1>5 DEF Early, Unstarted
<1>7. JobInv'
  BY <1>1, <1>2 DEF JobInv, SetupSteps, CompileSteps, Archiving, ArchiveSteps
<1>8. UniqInv'
  BY DEF UniqInv
<1>9. StartInv'
  <2>1. \A u \in Threads : pc'[u] = "layout" => pc[u] = "layout"
    BY <1>2 DEF CompileSteps
  <2> QED
    BY <1>2, <1>5, <2>1 DEF StartInv
<1>10. EarlyInv'
  BY <1>6 DEF EarlyInv
<1>11. TodoInv'
  <2>1. \A u \in Threads : pc'[u] \in {"layout", "postcrt", "postcomp"} => pc'[u] = pc[u]
    BY <1>2 DEF CompileSteps
  <2>2. \A u \in Threads : pc[u] = "postcomp" => s \notin todo
    BY <1>1, <1>4 DEF TodoInv
  <2> QED
    BY <1>2, <2>1, <2>2 DEF TodoInv
<1>12. CountInv'
  <2>1. CompHeld' = CompHeld
    <3>1. pc[t] \in HoldsComp /\ l \in HoldsComp
      BY DEF HoldsComp
    <3> QED
      BY <1>2, <3>1 DEF CompHeld
  <2>2. \A x \in Tasks : HoldsStep(x)' <=> HoldsStep(x)
    BY <1>1, <1>2, <1>3 DEF HoldsStep
  <2>3. ClosureAlive' <=> ClosureAlive
    BY <1>2, <2>1 DEF ClosureAlive, Archiving, ArchiveSteps, CompileSteps
  <2>4. StepHeld' = StepHeld
    BY <2>2, <2>3 DEF StepHeld
  <2> QED
    BY <2>1, <2>4 DEF CountInv
<1>13. comp > 0
  <2>1. k \in CompHeld
    BY <1>2 DEF CompHeld, HoldsComp
  <2>2. comp # 0
    BY <2>1, FS_EmptySet DEF CountInv
  <2> QED
    BY <2>2 DEF TypeOK
<1>14. ArchiveInv'
  <2>1. \A u \in Threads : pc[u] \notin Archiving /\ archive = "never"
    BY <1>13 DEF ArchiveInv
  <2>2. \A u \in Threads : pc'[u] \notin Archiving
    BY <1>2, <2>1 DEF Archiving, ArchiveSteps, CompileSteps
  <2> QED
    BY <2>1, <2>2 DEF ArchiveInv, Archiving, ArchiveSteps
<1>15. ResultInv'
  <2>1. ~NoBuild
    BY <1>5 DEF NoBuild
  <2>2. \A u \in Srcs : objs'[u] = "never" =>
          \/ InQueue(Compile(u))' \/ At(Compile(u), CompileSteps)'
          \/ At(SetupTask, {"postcomp"})' /\ u \in todo'
    <3> SUFFICES ASSUME NEW u \in Srcs, objs'[u] = "never"
                 PROVE  \/ InQueue(Compile(u))' \/ At(Compile(u), CompileSteps)'
                        \/ At(SetupTask, {"postcomp"})' /\ u \in todo'
      OBVIOUS
    <3>1. CASE u = s
      BY <1>1, <1>2, <3>1
    <3>2. CASE u # s
      BY <1>2, <1>3, <1>5, <2>1, <3>2 DEF ResultInv
    <3> QED
      BY <3>1, <3>2
  <2>3. \A c \in crts : crtResult[c] = "never" =>
       \/ InQueue(BuildCrt(c))' \/ At(BuildCrt(c), {"start"})'
       \/ At(SetupTask, {"postcrt"})' /\ c \in todo
    <3>1. crts \subseteq Crt
      BY DEF TypeOK
    <3> QED
      BY <1>2, <1>3, <1>5, <2>1, <3>1 DEF ResultInv
  <2> QED
    BY <1>13, <2>2, <2>3 DEF ResultInv
<1>16. FinishInv'
  BY <1>2, <1>6 DEF FinishInv
<1>17. DoneInv'
  <2>1. result = "unfinished"
    BY <1>5 DEF DoneInv
  <2>2. main # "done"
    BY <2>1 DEF DoneInv
  <2>3. step > 0 \/ InQueue(FinishTask) \/ At(FinishTask, {"start"})
    BY <1>5, <2>1 DEF DoneInv
  <2> QED
    BY <1>2, <1>3, <2>1, <2>2, <2>3 DEF DoneInv
<1>18. StoredInv'
  <2>1. \A u \in Srcs : InQueue(Compile(u))' \/ At(Compile(u), CompileSteps)' => objs'[u] = "never"
    <3> SUFFICES ASSUME NEW u \in Srcs, InQueue(Compile(u))' \/ At(Compile(u), CompileSteps)'
                 PROVE  objs'[u] = "never"
      OBVIOUS
    <3>1. CASE u = s
      <4>1. "dropcomp" \notin CompileSteps
        BY DEF CompileSteps
      <4> QED
        BY <1>1, <1>2, <1>4, <3>1, <4>1
    <3>2. CASE u # s
      BY <1>2, <1>3, <3>2 DEF StoredInv
    <3> QED
      BY <3>1, <3>2
  <2> QED
    BY <2>1 DEF StoredInv
<1>19. CleanInv'
  <2>1. \A u \in Threads : pc'[u] \notin {"rmdirs", "write"}
    <3>1. \A u \in Threads : pc[u] \notin Archiving
      BY <1>13 DEF ArchiveInv
    <3> QED
      BY <1>2, <3>1 DEF Archiving, ArchiveSteps, CompileSteps
  <2>2. archive' # "ok" /\ result' # "path"
    BY <1>5, <1>13 DEF ArchiveInv, DoneInv
  <2>3. ~ignored' => \A u \in objFiles' :
          objs'[u] = "error" \/ At(Compile(u), {"read", "unlink"})'
    <3> SUFFICES ASSUME ~ignored', NEW u \in objFiles'
                 PROVE  objs'[u] = "error" \/ At(Compile(u), {"read", "unlink"})'
      OBVIOUS
    <3>1. CASE u = s
      BY <1>1, <1>2, <3>1
    <3>2. CASE u # s
      <4>1. u \in objFiles /\ u \in Srcs
        BY <3>2 DEF TypeOK
      <4>2. objs[u] = "error" \/ At(Compile(u), {"read", "unlink"})
        BY <4>1 DEF CleanInv
      <4> QED
        BY <1>3, <3>2, <4>1, <4>2
    <3> QED
      BY <3>1, <3>2
  <2> QED
    BY <2>1, <2>2, <2>3 DEF CleanInv
<1> QED
  BY <1>7, <1>8, <1>9, <1>10, <1>11, <1>12, <1>14, <1>15, <1>16, <1>17, <1>18, <1>19

\* What a thread in CompileMember has.
LEMMA MemberFacts ==
  ASSUME IInv, NEW t \in Threads, pc[t] \in CompileSteps
  PROVE  \E s \in Srcs : task[t] = Compile(s) /\ Member(t) = s /\ objs[s] = "never"
<1> USE DEF IInv
<1>1. task[t] \in Tasks /\ task[t].job = "compile"
  <2>1. task[t] # None /\ task[t].job = "compile"
    BY DEF JobInv, CompileSteps
  <2> QED
    BY <2>1 DEF TypeOK
<1>2. PICK s \in Srcs : task[t] = Compile(s) /\ task[t].file = s /\ Compile(s) \in Tasks
  BY <1>1, TaskFacts
<1>3. At(Compile(s), CompileSteps)
  BY <1>2 DEF At
<1> QED
  BY <1>2, <1>3 DEF Member, StoredInv

\* CreateObjDir takes its mutex and looks whether the directory is known.
LEMMA LockObjDirsInv ==
  ASSUME IInv, NEW t \in Threads, LockObjDirs(t)
  PROVE  IInv'
<1> USE DEF IInv
<1>1. pc[t] = "lockmu" /\ pc[t] \in CompileSteps
  BY DEF LockObjDirs, CompileSteps
<1>2. PICK s \in Srcs : task[t] = Compile(s) /\ Member(t) = s /\ objs[s] = "never"
  BY <1>1, MemberFacts
<1>3. PICK l \in {"clang", "mkobj"} : pc' = [pc EXCEPT ![t] = l]
  BY DEF LockObjDirs, Goto
<1>4. UNCHANGED <<resource, crts, main, result, queue, task, todo, step, comp, objs,
                  crtResult, archive, objDirs, left, made, objFiles, alive, ignored>>
  BY DEF LockObjDirs, latches, results, files
<1>5. TypeOK'
  <2>1. pc' \in [Threads -> PCs]
    BY <1>3 DEF TypeOK, PCs, CompileSteps
  <2>2. mu' \in Threads \cup {None}
    BY DEF TypeOK, LockObjDirs
  <2> QED
    BY <1>4, <2>1, <2>2 DEF TypeOK
<1>6. s \notin objFiles \/ objs[s] = "error" \/ ignored
  <2>1. \A L : At(Compile(s), L) <=> pc[t] \in L
    BY <1>2, AtThread, TaskFacts
  <2> QED
    BY <1>1, <2>1 DEF CleanInv
<1>7. made' \subseteq objDirs' \/ \E u \in Srcs : objs'[u] = "error"
  BY <1>4 DEF CleanInv
<1>8. objs' \in [Srcs -> Outcomes]
  BY <1>5 DEF TypeOK
<1>9. l \in CompileSteps /\ l # "dropcomp"
  BY DEF CompileSteps
<1> QED
  BY <1>1, <1>2, <1>3, <1>4, <1>5, <1>6, <1>7, <1>8, <1>9, MemberMove

\* CreateObjDir leaves a directory that obj_dirs_ does not know only with an error.
LEMMA CreateObjDirInv ==
  ASSUME IInv, NEW t \in Threads, CreateObjDir(t)
  PROVE  IInv'
<1> USE DEF IInv
<1>1. pc[t] = "mkobj" /\ pc[t] \in CompileSteps
  BY DEF CreateObjDir, CompileSteps
<1>2. PICK s \in Srcs : task[t] = Compile(s) /\ Member(t) = s /\ objs[s] = "never"
  BY <1>1, MemberFacts
<1>3. UNCHANGED <<resource, crts, main, result, queue, task, todo, step, comp,
                  crtResult, archive, left, objFiles, alive, ignored>> /\ mu' = None
  BY DEF CreateObjDir, latches
<1>4. objs \in [Srcs -> Outcomes] /\ "error" \in Outcomes
  BY DEF TypeOK, Outcomes
<1>5. PICK l \in {"clang", "dropcomp"} :
        /\ pc' = [pc EXCEPT ![t] = l]
        /\ IF l = "clang" THEN objs' = objs ELSE objs' = [objs EXCEPT ![s] = "error"]
  BY <1>2 DEF CreateObjDir, Goto, SetObj
<1>6. \E D \in SUBSET Dirs : made' = made \cup D /\ objDirs \subseteq objDirs'
        /\ objDirs' \subseteq Dirs
        /\ ((D \subseteq objDirs' /\ objDirs' \subseteq objDirs \cup D) \/ l = "dropcomp")
  <2>1. Ancestors(DirOf[s]) \subseteq Dirs
    BY DEF Ancestors
  <2>2. objDirs \subseteq Dirs
    BY DEF TypeOK
  <2>3. CASE UNCHANGED <<objDirs, made>>
    <3>1. {} \in SUBSET Dirs /\ made' = made \cup {}
      BY <2>3
    <3> QED
      BY <2>2, <2>3, <3>1
  <2>4. CASE made' = made \cup Ancestors(DirOf[s]) /\ objDirs' = objDirs \cup Ancestors(DirOf[s])
    BY <2>1, <2>2, <2>4
  <2>5. CASE /\ \E D \in SUBSET Ancestors(DirOf[s]) : made' = made \cup D
             /\ pc' = [pc EXCEPT ![t] = "dropcomp"] /\ UNCHANGED objDirs
    <3>1. l = "dropcomp"
      BY <1>5, <2>5 DEF TypeOK
    <3> QED
      BY <2>1, <2>2, <2>5, <3>1
  <2> QED
    BY <1>2, <2>3, <2>4, <2>5 DEF CreateObjDir, SetObj, Goto
<1>7. /\ objs' \in [Srcs -> Outcomes] /\ \A u \in Srcs : objs'[u] # objs[u] => u = s
      /\ l = "dropcomp" <=> objs'[s] # "never"
      /\ l = "dropcomp" => objs'[s] = "error"
  BY <1>2, <1>4, <1>5
<1>8. TypeOK'
  <2>1. pc' \in [Threads -> PCs]
    BY <1>5 DEF TypeOK, PCs, CompileSteps
  <2>2. made' \subseteq Dirs /\ objDirs' \subseteq Dirs /\ left' \subseteq objDirs'
    BY <1>3, <1>6 DEF TypeOK
  <2> QED
    BY <1>3, <1>7, <2>1, <2>2 DEF TypeOK
<1>9. s \notin objFiles \/ ignored
  <2>1. \A L : At(Compile(s), L) <=> pc[t] \in L
    BY <1>2, AtThread, TaskFacts
  <2> QED
    BY <1>1, <1>2, <2>1 DEF CleanInv
<1>10. made' \subseteq objDirs' \/ \E u \in Srcs : objs'[u] = "error"
  <2>1. CASE l = "dropcomp"
    BY <1>7, <2>1
  <2>2. CASE l = "clang"
    BY <1>5, <1>6, <2>2 DEF CleanInv
  <2> QED
    BY <2>1, <2>2
<1>11. l \in CompileSteps \cup {"dropcomp"}
  BY DEF CompileSteps
<1> QED
  BY <1>1, <1>2, <1>3, <1>5, <1>7, <1>8, <1>9, <1>10, <1>11, MemberMove

\* An error of the compiler ends the compile; else the object file is there.
LEMMA RunClangInv ==
  ASSUME IInv, NEW t \in Threads, RunClang(t)
  PROVE  IInv'
<1> USE DEF IInv
<1>1. pc[t] = "clang" /\ pc[t] \in CompileSteps
  BY DEF RunClang, CompileSteps
<1>2. PICK s \in Srcs : task[t] = Compile(s) /\ Member(t) = s /\ objs[s] = "never"
  BY <1>1, MemberFacts
<1>3. UNCHANGED <<resource, crts, main, result, queue, task, todo, step, comp,
                  crtResult, archive, mu, objDirs, left, made, alive, ignored>>
  BY DEF RunClang, latches
<1>4. objs \in [Srcs -> Outcomes] /\ "error" \in Outcomes
  BY DEF TypeOK, Outcomes
<1>5. PICK l \in {"read", "dropcomp"} :
        /\ pc' = [pc EXCEPT ![t] = l]
        /\ objFiles' \subseteq objFiles \cup {s}
        /\ IF l = "read" THEN objs' = objs ELSE objs' = [objs EXCEPT ![s] = "error"]
  BY <1>2 DEF RunClang, Goto, SetObj
<1>7. /\ objs' \in [Srcs -> Outcomes] /\ \A u \in Srcs : objs'[u] # objs[u] => u = s
      /\ l = "dropcomp" <=> objs'[s] # "never"
      /\ l = "dropcomp" => objs'[s] = "error"
  BY <1>2, <1>4, <1>5
<1>8. TypeOK'
  <2>1. pc' \in [Threads -> PCs]
    BY <1>5 DEF TypeOK, PCs, CompileSteps
  <2>2. objFiles' \subseteq Srcs
    BY <1>5 DEF TypeOK
  <2> QED
    BY <1>3, <1>7, <2>1, <2>2 DEF TypeOK
<1>10. made' \subseteq objDirs' \/ \E u \in Srcs : objs'[u] = "error"
  BY <1>2, <1>3, <1>7 DEF CleanInv
<1>11. l \in CompileSteps \cup {"dropcomp"}
  BY DEF CompileSteps
<1> QED
  BY <1>1, <1>2, <1>3, <1>5, <1>7, <1>8, <1>10, <1>11, MemberMove

\* An object that cannot be read ends the compile, and its file stays.
LEMMA ReadObjectInv ==
  ASSUME IInv, NEW t \in Threads, ReadObject(t)
  PROVE  IInv'
<1> USE DEF IInv
<1>1. pc[t] = "read" /\ pc[t] \in CompileSteps
  BY DEF ReadObject, CompileSteps
<1>2. PICK s \in Srcs : task[t] = Compile(s) /\ Member(t) = s /\ objs[s] = "never"
  BY <1>1, MemberFacts
<1>3. UNCHANGED <<resource, crts, main, result, queue, task, todo, step, comp,
                  crtResult, archive, mu, objDirs, left, made, objFiles, alive, ignored>>
  BY DEF ReadObject, latches, files
<1>4. objs \in [Srcs -> Outcomes] /\ "error" \in Outcomes
  BY DEF TypeOK, Outcomes
<1>5. PICK l \in {"unlink", "dropcomp"} :
        /\ pc' = [pc EXCEPT ![t] = l]
        /\ IF l = "unlink" THEN objs' = objs ELSE objs' = [objs EXCEPT ![s] = "error"]
  BY <1>2 DEF ReadObject, Goto, SetObj
<1>7. /\ objs' \in [Srcs -> Outcomes] /\ \A u \in Srcs : objs'[u] # objs[u] => u = s
      /\ l = "dropcomp" <=> objs'[s] # "never"
      /\ l = "dropcomp" => objs'[s] = "error"
  BY <1>2, <1>4, <1>5
<1>8. TypeOK'
  <2>1. pc' \in [Threads -> PCs]
    BY <1>5 DEF TypeOK, PCs, CompileSteps
  <2> QED
    BY <1>3, <1>7, <2>1 DEF TypeOK
<1>10. made' \subseteq objDirs' \/ \E u \in Srcs : objs'[u] = "error"
  BY <1>2, <1>3, <1>7 DEF CleanInv
<1>11. l \in CompileSteps \cup {"dropcomp"}
  BY DEF CompileSteps
<1> QED
  BY <1>1, <1>2, <1>3, <1>5, <1>7, <1>8, <1>10, <1>11, MemberMove

\* A compile that worked leaves no file, unless the unlink's error was ignored.
LEMMA UnlinkObjectInv ==
  ASSUME IInv, NEW t \in Threads, UnlinkObject(t)
  PROVE  IInv'
<1> USE DEF IInv
<1>1. pc[t] = "unlink" /\ pc[t] \in CompileSteps
  BY DEF UnlinkObject, CompileSteps
<1>2. PICK s \in Srcs : task[t] = Compile(s) /\ Member(t) = s /\ objs[s] = "never"
  BY <1>1, MemberFacts
<1>3. UNCHANGED <<resource, crts, main, result, queue, task, todo, step, comp,
                  crtResult, archive, mu, objDirs, left, made, alive>>
  BY DEF UnlinkObject, latches
<1>4. objs \in [Srcs -> Outcomes] /\ "ok" \in Outcomes
  BY DEF TypeOK, Outcomes
<1>5. PICK l : /\ l = "dropcomp" /\ pc' = [pc EXCEPT ![t] = l]
                /\ objs' = [objs EXCEPT ![s] = "ok"]
  BY <1>2 DEF UnlinkObject, Goto, SetObj
<1>6. \/ objFiles' = objFiles \ {s} /\ ignored' = ignored
      \/ ignored' = TRUE /\ objFiles' = objFiles
  BY <1>2 DEF UnlinkObject
<1>7. objs' \in [Srcs -> Outcomes] /\ \A u \in Srcs : objs'[u] # objs[u] => u = s
  BY <1>2, <1>4, <1>5
<1>8. TypeOK'
  <2>1. pc' \in [Threads -> PCs]
    BY <1>5 DEF TypeOK, PCs, CompileSteps
  <2>2. objFiles' \subseteq Srcs
    BY <1>6 DEF TypeOK
  <2>3. ignored' \in BOOLEAN
    BY <1>6 DEF TypeOK
  <2> QED
    BY <1>3, <1>7, <2>1, <2>2, <2>3 DEF TypeOK
<1>9. made' \subseteq objDirs' \/ \E u \in Srcs : objs'[u] = "error"
  BY <1>2, <1>3, <1>4, <1>5, <1>7 DEF CleanInv
<1>10. objFiles' \subseteq objFiles \cup {s} /\ (ignored' \/ s \notin objFiles')
  BY <1>6
<1>11. l = "dropcomp" <=> objs'[s] # "never"
  BY <1>4, <1>5
<1>12. l \in CompileSteps \cup {"dropcomp"}
  BY <1>5
<1>13. ignored => ignored'
  BY <1>6
<1> QED
  BY <1>1, <1>2, <1>3, <1>5, <1>7, <1>8, <1>9, <1>10, <1>11, <1>12, <1>13, MemberMove

----------------------------------------------------------------------------
(* ArchiveBuilder::Finish                                                   *)

\* A latch whose count is zero has no handles.
LEMMA NoHandles ==
  ASSUME CountInv
  PROVE  /\ comp = 0 <=> CompHeld = {}
         /\ step = 0 <=> StepHeld = {}
  BY FS_EmptySet DEF CountInv

\* While the archive is finished nothing is compiled, and Setup is over or is
\* the thread that finishes it.
LEMMA ArchivingFacts ==
  ASSUME IInv, NEW t \in Threads, pc[t] \in Archiving
  PROVE  /\ comp = 0 /\ \A u \in Threads : pc[u] \in Archiving => u = t
         /\ \A x \in Tasks : ~At(x, HoldsComp) /\ (x.job = "compile" => ~InQueue(x))
         /\ task[t] \in Tasks /\ task[t].job \in {"compile", "setup"}
         /\ ~Early /\ ~Unstarted /\ Busy(t)
         /\ result = "unfinished" /\ main # "construct" /\ main # "done"
<1> USE DEF IInv
<1>1. comp = 0 /\ \A u \in Threads : pc[u] \in Archiving => u = t
  BY DEF ArchiveInv
<1>2. \A x \in Tasks : ~At(x, HoldsComp) /\ (x.job = "compile" => ~InQueue(x))
  BY <1>1, NoHandles DEF CompHeld
<1>3. task[t] \in Tasks /\ task[t].job \in {"compile", "setup"} /\ Busy(t)
  <2>1. pc[t] # "free" /\ pc[t] # "ret"
    BY DEF Archiving, ArchiveSteps
  <2> QED
    BY <2>1 DEF JobInv, Busy, TypeOK
<1>4. result = "unfinished" /\ main # "construct" /\ main # "done"
  BY <1>3 DEF DoneInv, StartInv, Busy
<1>5. ~Early
  <2>1. CASE task[t].job = "compile"
    <3>1. PICK s \in Srcs : task[t] = Compile(s)
      BY <1>3, <2>1, TaskFacts
    <3> QED
      BY <3>1 DEF EarlyInv, Present
  <2>2. CASE task[t].job = "setup"
    <3>1. task[t] = SetupTask /\ SetupTask \in Tasks
      BY <1>3, <2>2, TaskFacts
    <3>2. /\ \A L : At(SetupTask, L) <=> pc[t] \in L
          /\ ~InQueue(SetupTask)
      BY <3>1, AtThread
    <3> QED
      BY <1>4, <3>2 DEF Early, Unstarted, Archiving, ArchiveSteps
  <2> QED
    BY <1>3, <2>1, <2>2
<1>6. ~Unstarted
  BY <1>5 DEF Early
<1> QED
  BY <1>1, <1>2, <1>3, <1>4, <1>5, <1>6

\* What the steps of the archive's Finish have in common.
LEMMA ArchiveMove ==
  ASSUME IInv, NEW t \in Threads, pc[t] \in ArchiveSteps, NEW l, l \in Archiving,
         pc' = [pc EXCEPT ![t] = l],
         UNCHANGED <<resource, crts, main, result, queue, task, todo, step, comp, objs,
                     crtResult, objFiles>>,
         l = "dropclosure" => archive' # "never",
         archive' = archive \/ archive' # "never",
         l \in {"rmdirs", "write"} \/ archive' = "ok" => \A s \in Srcs : objs[s] = "ok",
         TypeOK', ignored => ignored',
         made' \subseteq made, objDirs' = objDirs,
         l = "rmdirs" /\ ~ignored' => made' \subseteq left',
         l = "write" /\ ~ignored' => made' = {},
         archive' = "ok" /\ ~ignored' => made' = {} /\ objFiles = {}
  PROVE  IInv'
<1> USE DEF IInv
<1>1. /\ comp = 0 /\ \A u \in Threads : pc[u] \in Archiving => u = t
      /\ \A x \in Tasks : ~At(x, HoldsComp) /\ (x.job = "compile" => ~InQueue(x))
      /\ task[t] \in Tasks /\ task[t].job \in {"compile", "setup"}
      /\ ~Early /\ ~Unstarted /\ Busy(t)
      /\ result = "unfinished" /\ main # "construct" /\ main # "done"
  BY ArchivingFacts DEF Archiving
<1>2. PICK k \in Tasks : task[t] = k /\ k.job \in {"compile", "setup"}
  BY <1>1
<1>3. /\ \A x : InQueue(x)' <=> InQueue(x)
      /\ \A x : Present(x)' <=> Present(x)
      /\ \A x, L : x # k => (At(x, L)' <=> At(x, L))
      /\ \A L : At(k, L) <=> pc[t] \in L
      /\ \A L : At(k, L)' <=> l \in L
      /\ \A u \in Threads : pc'[u] = IF u = t THEN l ELSE pc[u]
  <2>1. TypeOK /\ UniqInv /\ UNCHANGED <<queue, task>>
    OBVIOUS
  <2>2. Moved(t, k, l)
    BY <1>2, <2>1, Move
  <2> QED
    BY <2>2 DEF Moved
<1>4. /\ pc[t] \in Archiving /\ l \notin {"layout", "postcrt", "initcomp", "postcomp", "free", "start"}
      /\ l \notin CompileSteps /\ l \notin SetupSteps /\ l \notin HoldsComp
      /\ l # "dropstep" /\ l # "dropcomp" /\ l # "ret" /\ l \in SetupHolds
      /\ pc[t] \in SetupHolds /\ pc[t] \notin HoldsComp
      /\ pc[t] \notin {"layout", "postcrt", "initcomp", "postcomp", "free", "start"}
  BY DEF Archiving, ArchiveSteps, CompileSteps, SetupSteps, HoldsComp, SetupHolds
<1>5. \A x, L : L \in SUBSET {"layout", "postcrt", "initcomp", "postcomp", "start"} =>
        (At(x, L)' <=> At(x, L))
  <2> SUFFICES ASSUME NEW x, NEW L \in SUBSET {"layout", "postcrt", "initcomp", "postcomp", "start"}
               PROVE  At(x, L)' <=> At(x, L)
    OBVIOUS
  <2>1. l \notin L /\ pc[t] \notin L
    BY <1>4
  <2> QED
    BY <1>3, <2>1
<1>6. ~Early' /\ ~Unstarted'
  BY <1>1, <1>3, <1>5 DEF Early, Unstarted
<1>7. JobInv'
  BY <1>2, <1>3, <1>4 DEF JobInv
<1>8. UniqInv'
  BY DEF UniqInv
<1>9. StartInv'
  <2>1. \A u \in Threads : pc'[u] = "layout" => pc[u] = "layout"
    BY <1>3, <1>4
  <2> QED
    BY <1>1, <1>3, <2>1 DEF StartInv
<1>10. EarlyInv'
  BY <1>6 DEF EarlyInv
<1>11. TodoInv'
  <2>1. \A u \in Threads : pc'[u] \in {"layout", "postcrt", "postcomp"} => pc'[u] = pc[u]
    BY <1>3, <1>4
  <2> QED
    BY <1>3, <2>1 DEF TodoInv
<1>12. CountInv'
  <2>1. CompHeld' = CompHeld
    <3>1. \A x \in Tasks : At(x, HoldsComp)' <=> At(x, HoldsComp)
      BY <1>3, <1>4
    <3> QED
      BY <1>3, <3>1 DEF CompHeld
  <2>2. \A x \in Tasks : HoldsStep(x)' <=> HoldsStep(x)
    <3> SUFFICES ASSUME NEW x \in Tasks
                 PROVE  HoldsStep(x)' <=> HoldsStep(x)
      OBVIOUS
    <3>1. CASE x = k
      BY <1>2, <1>3, <1>4, <3>1 DEF HoldsStep
    <3>2. CASE x # k
      BY <1>3, <3>2 DEF HoldsStep
    <3> QED
      BY <3>1, <3>2
  <2>3. ClosureAlive' /\ ClosureAlive
    BY <1>3, <1>4 DEF ClosureAlive
  <2>4. StepHeld' = StepHeld
    BY <2>2, <2>3 DEF StepHeld
  <2> QED
    BY <2>1, <2>4 DEF CountInv
<1>13. StoredInv'
  <2>1. \A x \in Tasks : At(x, CompileSteps)' => At(x, CompileSteps)
    BY <1>3, <1>4
  <2> QED
    BY <1>3, <2>1, TaskFacts DEF StoredInv
<1>14. ArchiveInv'
  <2>1. \A u \in Threads : pc'[u] \in Archiving => u = t
    BY <1>1, <1>3
  <2>2. \A u \in Threads : pc'[u] \in {"rmdirs", "write"} => u = t
    BY <2>1 DEF Archiving, ArchiveSteps
  <2> QED
    BY <1>1, <1>3, <2>1, <2>2 DEF ArchiveInv
<1>15. ResultInv'
  <2>1. ~NoBuild
    BY <1>1 DEF NoBuild
  <2>2. \A u \in Srcs : objs'[u] # "never"
    <3>1. \A u \in Srcs : ~InQueue(Compile(u)) /\ ~At(Compile(u), CompileSteps)
      <4> SUFFICES ASSUME NEW u \in Srcs
                   PROVE  ~InQueue(Compile(u)) /\ ~At(Compile(u), CompileSteps)
        OBVIOUS
      <4>1. ~At(Compile(u), HoldsComp) /\ ~InQueue(Compile(u))
        BY <1>1, TaskFacts
      <4> QED
        BY <4>1 DEF At, HoldsComp
    <3>2. ~At(SetupTask, {"postcomp"})
      <4>1. ~At(SetupTask, HoldsComp)
        BY <1>1, TaskFacts
      <4> QED
        BY <4>1 DEF At, HoldsComp
    <3> QED
      BY <1>1, <2>1, <3>1, <3>2 DEF ResultInv
  <2>3. archive' = "never" => \E u \in Threads : pc'[u] \in ArchiveSteps
    BY <1>3 DEF Archiving
  <2>4. \A c \in crts : crtResult[c] = "never" =>
       \/ InQueue(BuildCrt(c))' \/ At(BuildCrt(c), {"start"})'
       \/ At(SetupTask, {"postcrt"})' /\ c \in todo
    BY <1>1, <1>3, <1>5, <2>1 DEF ResultInv
  <2> QED
    BY <2>2, <2>3, <2>4 DEF ResultInv
<1>16. FinishInv'
  BY <1>3, <1>6 DEF FinishInv
<1>17. DoneInv'
  <2>1. step > 0 \/ InQueue(FinishTask) \/ At(FinishTask, {"start"})
    BY <1>1 DEF DoneInv
  <2> QED
    BY <1>1, <1>3, <1>5, <2>1 DEF DoneInv
<1>18. CleanInv'
  <2>1. \A u \in Threads : pc'[u] \in {"rmdirs", "write"} => u = t
    BY <1>1, <1>3 DEF Archiving, ArchiveSteps
  <2>2. ~ignored' => \A s \in objFiles' :
          objs'[s] = "error" \/ At(Compile(s), {"read", "unlink"})'
    <3> SUFFICES ASSUME ~ignored', NEW s \in objFiles
                 PROVE  objs[s] = "error"
      OBVIOUS
    <3>1. s \in Srcs /\ Compile(s) \in Tasks
      BY TaskFacts DEF TypeOK
    <3>2. ~At(Compile(s), {"read", "unlink"})
      <4>1. ~At(Compile(s), HoldsComp)
        BY <1>1, <3>1
      <4> QED
        BY <4>1 DEF At, HoldsComp, CompileSteps
    <3> QED
      BY <3>2 DEF CleanInv
  <2>3. made' \subseteq objDirs' \/ \E s \in Srcs : objs'[s] = "error"
    BY DEF CleanInv
  <2> QED
    BY <1>1, <1>3, <2>1, <2>2, <2>3 DEF CleanInv
<1> QED
  BY <1>7, <1>8, <1>9, <1>10, <1>11, <1>12, <1>13, <1>14, <1>15, <1>16, <1>17, <1>18

\* The greatest of a finite set of numbers: the one with the fewest above it.
LEMMA MaxOfFinite ==
  ASSUME NEW S, IsFiniteSet(S), S # {}, S \subseteq Nat
  PROVE  Max(S) \in S /\ \A e \in S : e <= Max(S)
<1> DEFINE Above(d) == {e \in S : e > d}
           T == {Cardinality(Above(d)) : d \in S}
           R == OpToRel(<, Nat)
<1>1. \A d \in S : IsFiniteSet(Above(d)) /\ Cardinality(Above(d)) \in Nat
  BY FS_Subset, FS_CardinalityType
<1>2. T \subseteq Nat /\ T # {}
  BY <1>1
<1>3. \A i, j \in Nat : <<i, j>> \in R <=> i < j
  BY DEF OpToRel
<1>4. \E i \in T : \A j \in T : ~(<<j, i>> \in R)
  <2>1. IsWellFoundedOn(R, Nat)
    BY NatLessThanWellFounded
  <2> HIDE DEF R, T
  <2> QED
    BY <1>2, <2>1, WFMin
<1>5. PICK d \in S : \A e \in S : ~(Cardinality(Above(e)) < Cardinality(Above(d)))
  <2>1. PICK i \in T : \A j \in T : ~(<<j, i>> \in R)
    BY <1>4
  <2>2. PICK d \in S : i = Cardinality(Above(d))
    BY <2>1
  <2>3. ASSUME NEW e \in S
        PROVE  ~(Cardinality(Above(e)) < Cardinality(Above(d)))
    <3> DEFINE j == Cardinality(Above(e))
    <3>1. j \in T /\ j \in Nat /\ i \in Nat
      BY <1>1, <2>2
    <3>2. ~(<<j, i>> \in R)
      BY <2>1, <3>1
    <3> HIDE DEF j, R
    <3>3. ~(j < i)
      BY <1>3, <3>1, <3>2
    <3> QED
      BY <2>2, <3>3 DEF j
  <2> QED
    BY <2>3
<1>6. ASSUME NEW e \in S, e > d
      PROVE  FALSE
  <2>1. Above(e) \subseteq Above(d) /\ e \in Above(d) /\ e \notin Above(e)
    <3>1. d \in Nat /\ e \in Nat /\ \A z \in S : z \in Nat
      OBVIOUS
    <3>2. \A z \in S : z > e => z > d
      BY <1>6, <3>1
    <3>3. Above(e) \subseteq Above(d)
      BY <3>2
    <3>4. e \in Above(d) /\ e \notin Above(e)
      BY <1>6, <3>1
    <3> QED
      BY <3>3, <3>4
  <2>2. Cardinality(Above(e)) < Cardinality(Above(d))
    <3> HIDE DEF Above
    <3>1. Cardinality(Above(e)) <= Cardinality(Above(d)) /\ Above(e) # Above(d)
      BY <1>1, <2>1, FS_Subset
    <3>2. Cardinality(Above(e)) # Cardinality(Above(d))
      BY <1>1, <2>1, <3>1, FS_Subset
    <3> QED
      BY <1>1, <3>1, <3>2
  <2> QED
    BY <1>5, <2>2
<1>7. \A e \in S : d >= e
  BY <1>6
<1>8. Max(S) \in S /\ \A e \in S : Max(S) >= e
  BY <1>7 DEF Max
<1> QED
  BY <1>8

\* Finish stops at the first member that failed.
LEMMA CollectMembersInv ==
  ASSUME IInv, NEW t \in Threads, CollectMembers(t)
  PROVE  IInv'
<1> USE DEF IInv
<1>1. pc[t] = "members" /\ pc[t] \in ArchiveSteps
  BY DEF CollectMembers, ArchiveSteps
<1>2. UNCHANGED <<resource, crts, main, result, queue, task, todo, step, comp, objs,
                  crtResult, mu, objDirs, made, objFiles, alive, ignored>>
  BY DEF CollectMembers, latches
<1>3. PICK l : /\ pc' = [pc EXCEPT ![t] = l]
               /\ \/ /\ l = "rmdirs" /\ archive' = archive /\ left' = objDirs
                     /\ \A s \in Srcs : objs[s] = "ok"
                  \/ l = "dropclosure" /\ archive' = "error" /\ left' = left
  BY DEF CollectMembers, SetArchive, Goto
<1>4. l \in Archiving
  BY <1>3 DEF Archiving, ArchiveSteps
<1>5. TypeOK'
  <2>1. pc' \in [Threads -> PCs]
    BY <1>3 DEF TypeOK, PCs, ArchiveSteps
  <2>2. archive' \in Outcomes
    BY <1>3 DEF TypeOK, Outcomes
  <2>3. left' \subseteq objDirs
    BY <1>3 DEF TypeOK
  <2> QED
    BY <1>2, <2>1, <2>2, <2>3 DEF TypeOK
<1>6. l = "rmdirs" /\ ~ignored => made \subseteq left'
  BY <1>3 DEF CleanInv
<1>7. archive' = "ok" => archive = "ok"
  BY <1>3
<1>8. archive' = "ok" /\ ~ignored => made = {} /\ objFiles = {}
  BY <1>7 DEF CleanInv
<1>9. l \in {"rmdirs", "write"} \/ archive' = "ok" => \A s \in Srcs : objs[s] = "ok"
  BY <1>3, <1>7 DEF ArchiveInv
<1>10. /\ l = "dropclosure" => archive' # "never"
       /\ archive' = archive \/ archive' # "never"
       /\ l # "write"
  BY <1>3
<1> QED
  BY <1>1, <1>2, <1>3, <1>4, <1>5, <1>6, <1>8, <1>9, <1>10, ArchiveMove

\* Every compiled object is gone, unless an error was ignored.
LEMMA NoObjects ==
  ASSUME IInv, NEW t \in Threads, pc[t] \in {"rmdirs", "write"}, ~ignored
  PROVE  objFiles = {}
<1> USE DEF IInv
<1> SUFFICES ASSUME NEW s \in objFiles
             PROVE  FALSE
  OBVIOUS
<1>1. pc[t] \in Archiving
  BY DEF Archiving, ArchiveSteps
<1>2. s \in Srcs /\ Compile(s) \in Tasks
  BY TaskFacts DEF TypeOK
<1>3. ~At(Compile(s), HoldsComp)
  BY <1>1, <1>2, ArchivingFacts
<1>4. ~At(Compile(s), {"read", "unlink"})
  BY <1>3 DEF At, HoldsComp, CompileSteps
<1>5. objs[s] = "ok"
  BY <1>2 DEF ArchiveInv
<1> QED
  BY <1>4, <1>5 DEF CleanInv

\* The last directory in the order of the paths is empty, for the ones in it
\* sort after it.
LEMMA RemoveObjDirsInv ==
  ASSUME IInv, NEW t \in Threads, RemoveObjDirs(t)
  PROVE  IInv'
<1> USE DEF IInv
<1>1. pc[t] = "rmdirs" /\ pc[t] \in ArchiveSteps
  BY DEF RemoveObjDirs, ArchiveSteps
<1>2. UNCHANGED <<resource, crts, main, result, queue, task, todo, step, comp, objs,
                  crtResult, archive, mu, objDirs, objFiles, alive>>
  BY DEF RemoveObjDirs, latches, results
<1>3. \A s \in Srcs : objs[s] = "ok"
  BY <1>1 DEF ArchiveInv
<1>4. archive' = "ok" /\ ~ignored => made = {} /\ objFiles = {}
  BY <1>2 DEF CleanInv
<1>5. ~ignored => made \subseteq left
  BY <1>1 DEF CleanInv
<1>6. CASE left = {} /\ pc' = [pc EXCEPT ![t] = "write"] /\ UNCHANGED <<left, made, ignored>>
  <2>1. PICK l : l = "write" /\ pc' = [pc EXCEPT ![t] = l]
    BY <1>6
  <2>2. l \in Archiving /\ l \in PCs
    BY <2>1 DEF Archiving, ArchiveSteps, PCs
  <2>3. TypeOK'
    <3>1. pc' \in [Threads -> PCs]
      BY <2>1, <2>2 DEF TypeOK
    <3> QED
      BY <1>2, <1>6, <3>1 DEF TypeOK
  <2>4. ~ignored' => made' = {}
    BY <1>5, <1>6
  <2>5. l # "dropclosure" /\ l # "rmdirs" /\ made' \subseteq made /\ (ignored => ignored')
    BY <1>6, <2>1
  <2>6. archive' = "ok" /\ ~ignored' => made' = {} /\ objFiles = {}
    BY <1>4, <1>6
  <2> QED
    BY <1>1, <1>2, <1>3, <2>1, <2>2, <2>3, <2>4, <2>5, <2>6, ArchiveMove
<1>7. CASE /\ left # {} /\ pc' = pc
           /\ left' = left \ {Max(left)}
           /\ \/ IsEmptyDir(Max(left)) /\ made' = made \ {Max(left)} /\ UNCHANGED ignored
              \/ ignored' = (ignored \/ IsEmptyDir(Max(left))) /\ UNCHANGED made
  <2>1. left \subseteq Dirs /\ left \subseteq Nat /\ IsFiniteSet(left)
    <3>1. left \subseteq Dirs
      BY DEF TypeOK
    <3> QED
      BY <3>1, FS_Subset, DirsAssumption, FilesAssumption
  <2>2. PICK d \in left : d = Max(left) /\ \A e \in left : e <= d
    BY <1>7, <2>1, MaxOfFinite
  <2>3. ~ignored => IsEmptyDir(d)
    <3> SUFFICES ASSUME ~ignored
                 PROVE  IsEmptyDir(d)
      OBVIOUS
    <3>1. objFiles = {}
      BY <1>1, NoObjects
    <3>2. \A e \in made : Parent[e] # d
      <4> SUFFICES ASSUME NEW e \in made, Parent[e] = d
                   PROVE  FALSE
        OBVIOUS
      <4>1. e \in left /\ e \in Dirs /\ e \in Nat /\ d \in Nat
        BY <1>5, <2>1
      <4>2. Parent[e] < e
        BY <4>1, DirsAssumption
      <4> QED
        BY <2>2, <4>1, <4>2
    <3> QED
      BY <3>1, <3>2 DEF IsEmptyDir
  <2>4. ignored \/ ignored' \/ made' = made \ {d}
    BY <1>7, <2>2, <2>3
  <2>5. PICK l : l = "rmdirs" /\ l = pc[t]
    BY <1>1
  <2>6. pc' = [pc EXCEPT ![t] = l]
    BY <1>7, <2>5 DEF TypeOK
  <2>7. l \in Archiving
    BY <2>5 DEF Archiving, ArchiveSteps
  <2>8. (ignored => ignored') /\ made' \subseteq made /\ ignored' \in BOOLEAN
    <3>1. ignored \in BOOLEAN
      BY DEF TypeOK
    <3>2. CASE IsEmptyDir(Max(left)) /\ made' = made \ {Max(left)} /\ UNCHANGED ignored
      BY <3>1, <3>2
    <3>3. CASE ignored' = (ignored \/ IsEmptyDir(Max(left))) /\ UNCHANGED made
      <4>1. made' \subseteq made /\ (ignored => ignored')
        BY <3>3
      <4>2. ignored' \in BOOLEAN
        BY <3>3, Zenon
      <4> QED
        BY <4>1, <4>2
    <3> QED
      BY <1>7, <3>2, <3>3
  <2>9. TypeOK'
    <3>1. left' \subseteq objDirs /\ made' \subseteq Dirs
      BY <1>7, <2>8 DEF TypeOK
    <3> QED
      BY <1>2, <1>7, <2>8, <3>1 DEF TypeOK
  <2>10. ~ignored' => made' \subseteq left'
    BY <1>5, <1>7, <2>2, <2>4, <2>8
  <2>11. archive' = "ok" /\ ~ignored' => made' = {} /\ objFiles = {}
    BY <1>4, <2>8
  <2>12. l # "dropclosure" /\ l # "write"
    BY <2>5
  <2> QED
    BY <1>1, <1>2, <1>3, <2>6, <2>7, <2>8, <2>9, <2>10, <2>11, <2>12, ArchiveMove
<1> QED
  BY <1>6, <1>7 DEF RemoveObjDirs, Goto

\* The archive is written when nothing else is left of the compiles.
LEMMA WriteArchiveInv ==
  ASSUME IInv, NEW t \in Threads, WriteArchive(t)
  PROVE  IInv'
<1> USE DEF IInv
<1>1. pc[t] = "write" /\ pc[t] \in ArchiveSteps
  BY DEF WriteArchive, ArchiveSteps
<1>2. UNCHANGED <<resource, crts, main, result, queue, task, todo, step, comp, objs,
                  crtResult, mu, objDirs, left, made, objFiles, alive, ignored>>
  BY DEF WriteArchive, latches, files
<1>3. PICK l : /\ l = "dropclosure" /\ pc' = [pc EXCEPT ![t] = l]
               /\ archive' \in {"ok", "error"}
  BY DEF WriteArchive, SetArchive, Goto
<1>4. l \in Archiving /\ l \in PCs
  BY <1>3 DEF Archiving, PCs
<1>5. TypeOK'
  <2>1. pc' \in [Threads -> PCs]
    BY <1>3, <1>4 DEF TypeOK
  <2>2. archive' \in Outcomes
    BY <1>3 DEF Outcomes
  <2> QED
    BY <1>2, <2>1, <2>2 DEF TypeOK
<1>6. \A s \in Srcs : objs[s] = "ok"
  BY <1>1 DEF ArchiveInv
<1>7. ~ignored' => made' = {} /\ objFiles = {}
  BY <1>1, <1>2, NoObjects DEF CleanInv
<1>8. archive' # "never" /\ l # "rmdirs" /\ l # "write" /\ made' \subseteq made /\ (ignored => ignored')
  BY <1>2, <1>3
<1> QED
  BY <1>1, <1>2, <1>3, <1>4, <1>5, <1>6, <1>7, <1>8, ArchiveMove

----------------------------------------------------------------------------
(* CRT files, and the builder's Finish                                      *)

\* A thread with a step left is a reason not to have a result.
LEMMA BusyFacts ==
  ASSUME IInv, NEW t \in Threads, Busy(t)
  PROVE  /\ result = "unfinished" /\ main # "construct" /\ main # "done" /\ ~NoBuild
         /\ ~InQueue(SetupTask)
         /\ \A u \in Threads : u # t => pc[u] # "layout"
  BY DEF IInv, DoneInv, StartInv, NoBuild, Busy

\* A task other than Setup waits for no step of it.
LEMMA BuildCrtFileInv ==
  ASSUME IInv, NEW t \in Threads, BuildCrtFile(t)
  PROVE  IInv'
<1> USE DEF IInv
<1>1. /\ pc[t] = "start" /\ task[t].job = "crt"
      /\ UNCHANGED <<resource, crts, main, result, queue, task, todo, step, comp, objs,
                     archive, mu, objDirs, left, made, objFiles, alive, ignored>>
  BY DEF BuildCrtFile, latches, files
<1>2. PICK k \in Tasks : task[t] = k /\ k.job = "crt"
  BY <1>1 DEF JobInv, TypeOK
<1>3. PICK c \in Crt : k = BuildCrt(c) /\ k.file = c
  BY <1>2, TaskFacts
<1>4. PICK l : l = "dropstep" /\ pc' = [pc EXCEPT ![t] = l]
  BY DEF BuildCrtFile, Goto
<1>5. /\ crtResult' \in [Crt -> Outcomes] /\ crtResult'[c] # "never"
      /\ \A d \in Crt : d # c => crtResult'[d] = crtResult[d]
  BY <1>2, <1>3 DEF BuildCrtFile, Member, TypeOK, Outcomes
<1>6. /\ \A x : InQueue(x)' <=> InQueue(x)
      /\ \A x : Present(x)' <=> Present(x)
      /\ \A x, L : x # k => (At(x, L)' <=> At(x, L))
      /\ \A L : At(k, L) <=> pc[t] \in L
      /\ \A L : At(k, L)' <=> l \in L
      /\ \A u \in Threads : pc'[u] = IF u = t THEN l ELSE pc[u]
  <2>1. TypeOK /\ UniqInv /\ UNCHANGED <<queue, task>>
    BY <1>1
  <2>2. Moved(t, k, l)
    BY <1>2, <1>4, <2>1, Move
  <2> QED
    BY <2>2 DEF Moved
<1>7. /\ \A L : At(SetupTask, L)' <=> At(SetupTask, L)
      /\ \A L : At(FinishTask, L)' <=> At(FinishTask, L)
      /\ \A s \in Srcs : \A L : At(Compile(s), L)' <=> At(Compile(s), L)
      /\ \A d \in Crt : \A L : d # c => (At(BuildCrt(d), L)' <=> At(BuildCrt(d), L))
  BY <1>2, <1>3, <1>6, TaskFacts
<1>8. /\ result = "unfinished" /\ main # "construct" /\ main # "done" /\ ~NoBuild
      /\ ~InQueue(SetupTask) /\ Busy(t)
      /\ \A u \in Threads : u # t => pc[u] # "layout"
  <2>1. Busy(t)
    BY <1>1, <1>2, TaskFacts DEF Busy
  <2> QED
    BY <2>1, BusyFacts
<1>9. /\ ~Unstarted /\ ~Unstarted' /\ (Early' <=> Early)
  <2>1. ~At(SetupTask, {"layout"})
    BY <1>1, <1>8 DEF At
  <2> QED
    BY <1>1, <1>6, <1>7, <1>8, <2>1 DEF Early, Unstarted
<1>10. JobInv'
  BY <1>1, <1>2, <1>4, <1>6 DEF JobInv, SetupSteps, CompileSteps, Archiving, ArchiveSteps
<1>11. UniqInv'
  BY <1>1 DEF UniqInv
<1>12. StartInv'
  <2>1. \A u \in Threads : pc'[u] = "layout" => pc[u] = "layout"
    BY <1>4, <1>6
  <2> QED
    BY <1>1, <1>6, <1>8, <2>1 DEF StartInv
<1>13. EarlyInv'
  BY <1>1, <1>6, <1>9 DEF EarlyInv
<1>14. TodoInv'
  <2>1. \A u \in Threads : pc'[u] \in {"layout", "postcrt", "postcomp"} => pc'[u] = pc[u]
    BY <1>4, <1>6
  <2> QED
    BY <1>1, <1>6, <2>1 DEF TodoInv
<1>15. StoredInv'
  BY <1>1, <1>6, <1>7 DEF StoredInv
<1>16. CountInv' /\ step # 0
  <2>1. CompHeld' = CompHeld
    <3>1. \A x \in Tasks : At(x, HoldsComp)' <=> At(x, HoldsComp)
      BY <1>1, <1>4, <1>6 DEF HoldsComp, CompileSteps
    <3> QED
      BY <1>6, <3>1 DEF CompHeld
  <2>2. \A x \in Tasks : HoldsStep(x)' <=> HoldsStep(x)
    <3> SUFFICES ASSUME NEW x \in Tasks
                 PROVE  HoldsStep(x)' <=> HoldsStep(x)
      OBVIOUS
    <3>1. CASE x = k
      BY <1>1, <1>2, <1>4, <1>6, <3>1, TaskFacts DEF HoldsStep
    <3>2. CASE x # k
      BY <1>6, <3>2 DEF HoldsStep
    <3> QED
      BY <3>1, <3>2
  <2>3. ClosureAlive' <=> ClosureAlive
    BY <1>1, <1>4, <1>6, <2>1 DEF ClosureAlive, Archiving, ArchiveSteps
  <2>4. StepHeld' = StepHeld
    BY <2>2, <2>3 DEF StepHeld
  <2>5. k \in StepHeld
    BY <1>1, <1>2, <1>6 DEF StepHeld, HoldsStep
  <2> QED
    BY <1>1, <2>1, <2>4, <2>5, NoHandles DEF CountInv
<1>17. ArchiveInv'
  <2>1. \A u \in Threads : pc'[u] \in Archiving => pc'[u] = pc[u]
    BY <1>4, <1>6 DEF Archiving, ArchiveSteps
  <2>2. \A u \in Threads : pc'[u] \in {"rmdirs", "write"} => pc'[u] = pc[u]
    BY <1>4, <1>6
  <2> QED
    BY <1>1, <2>1, <2>2 DEF ArchiveInv
<1>18. ResultInv'
  <2>1. \A s \in Srcs : objs'[s] = "never" =>
          \/ Early' \/ InQueue(Compile(s))' \/ At(Compile(s), CompileSteps)'
          \/ At(SetupTask, {"postcomp"})' /\ s \in todo'
    BY <1>1, <1>6, <1>7, <1>8, <1>9 DEF ResultInv
  <2>2. archive' = "never" => Early' \/ comp' > 0 \/ \E u \in Threads : pc'[u] \in ArchiveSteps
    <3>1. \A u \in Threads : pc[u] \in ArchiveSteps => pc'[u] = pc[u]
      BY <1>1, <1>6 DEF ArchiveSteps
    <3> QED
      BY <1>1, <1>8, <1>9, <3>1 DEF ResultInv
  <2>3. ASSUME NEW d \in crts, crtResult'[d] = "never"
        PROVE  \/ InQueue(BuildCrt(d))' \/ At(BuildCrt(d), {"start"})'
               \/ At(SetupTask, {"postcrt"})' /\ d \in todo'
    <3>1. d \in Crt /\ d # c
      BY <1>5, <2>3 DEF TypeOK
    <3> QED
      BY <1>1, <1>5, <1>6, <1>7, <1>8, <1>9, <2>3, <3>1 DEF ResultInv
  <2> QED
    BY <1>1, <2>1, <2>2, <2>3 DEF ResultInv
<1>19. FinishInv'
  <2>1. ~Present(FinishTask)
    BY <1>16 DEF FinishInv
  <2> QED
    BY <1>6, <2>1 DEF FinishInv
<1>20. DoneInv'
  <2>1. step > 0
    BY <1>16 DEF TypeOK
  <2> QED
    BY <1>1, <1>8, <2>1 DEF DoneInv
<1>21. CleanInv'
  <2>1. \A u \in Threads : pc'[u] \in {"rmdirs", "write"} => pc'[u] = pc[u]
    BY <1>4, <1>6
  <2>2. objFiles \subseteq Srcs
    BY DEF TypeOK
  <2> QED
    BY <1>1, <1>7, <1>8, <2>1, <2>2 DEF CleanInv
<1>22. TypeOK'
  <2>1. pc' \in [Threads -> PCs]
    BY <1>4 DEF TypeOK, PCs
  <2> QED
    BY <1>1, <1>5, <2>1 DEF TypeOK
<1> QED
  BY <1>10, <1>11, <1>12, <1>13, <1>14, <1>15, <1>16, <1>17, <1>18, <1>19, <1>20, <1>21, <1>22

\* With no step handle left nothing runs that may still post or write.
LEMMA NothingHeld ==
  ASSUME IInv, StepHeld = {}, ~Unstarted
  PROVE  /\ \A u \in Threads : Busy(u) => task[u] = FinishTask /\ pc[u] = "start"
         /\ \A x : InQueue(x) => x = FinishTask
         /\ CompHeld = {} /\ \A u \in Threads : pc[u] \notin Archiving
         /\ ~At(SetupTask, SetupHolds)
<1> USE DEF IInv
<1>1. (\A x \in Tasks : ~HoldsStep(x)) /\ ~ClosureAlive
  BY DEF StepHeld
<1>2. CompHeld = {} /\ \A u \in Threads : pc[u] \notin Archiving
  BY <1>1 DEF ClosureAlive
<1>3. \A x \in Tasks : ~At(x, HoldsComp) /\ (x.job = "compile" => ~InQueue(x))
  BY <1>2 DEF CompHeld
<1>4. ~At(SetupTask, SetupHolds)
  BY <1>1, TaskFacts DEF HoldsStep
<1>5. ASSUME NEW u \in Threads, Busy(u)
      PROVE  task[u] = FinishTask /\ pc[u] = "start"
  <2>1. PICK k \in Tasks : task[u] = k /\ pc[u] # "ret" /\ pc[u] # "free"
    BY <1>5 DEF Busy, TypeOK, JobInv
  <2>2. pc[u] \notin HoldsComp
    BY <1>3, <2>1 DEF At
  <2>3. pc[u] \notin SetupSteps
    <3> SUFFICES ASSUME pc[u] \in SetupSteps
                 PROVE  FALSE
      OBVIOUS
    <3>1. k = SetupTask
      BY <2>1 DEF JobInv
    <3>2. pc[u] \notin SetupHolds /\ pc[u] # "layout"
      BY <1>4, <2>1, <3>1 DEF At, Unstarted
    <3> QED
      BY <3>2 DEF SetupSteps, SetupHolds
  <2>4. pc[u] # "dropstep"
    <3> SUFFICES ASSUME pc[u] = "dropstep"
                 PROVE  FALSE
      OBVIOUS
    <3>1. k.job \in {"crt", "setup"}
      BY <2>1 DEF JobInv
    <3>2. At(k, {"start", "dropstep"}) /\ At(k, SetupHolds)
      BY <2>1 DEF At, SetupHolds
    <3> QED
      BY <1>1, <2>1, <3>1, <3>2, TaskFacts DEF HoldsStep
  <2>5. pc[u] \in PCs /\ pc[u] \notin Archiving
    BY <1>2 DEF TypeOK
  <2>6. pc[u] = "start"
    BY <2>1, <2>2, <2>3, <2>4, <2>5 DEF PCs, HoldsComp, Archiving
  <2>7. k.job \in {"crt", "finish"}
    BY <2>1, <2>6 DEF JobInv
  <2>8. k.job # "crt"
    BY <1>1, <2>1, <2>6 DEF HoldsStep, At
  <2> QED
    BY <2>1, <2>6, <2>7, <2>8, TaskFacts
<1>6. ASSUME NEW x, InQueue(x)
      PROVE  x = FinishTask
  <2>1. x \in Tasks
    BY <1>6 DEF InQueue, TypeOK
  <2>2. x.job # "compile" /\ x # SetupTask /\ x.job # "crt"
    BY <1>1, <1>3, <1>6, <2>1 DEF HoldsStep, Unstarted
  <2> QED
    BY <2>1, <2>2, TaskFacts
<1> QED
  BY <1>2, <1>4, <1>5, <1>6

\* The builder's Finish is alone.
LEMMA FinishAlone ==
  ASSUME IInv, NEW t \in Threads, task[t] = FinishTask
  PROVE  /\ queue = <<>> /\ \A u \in Threads \ {t} : ~Busy(u)
         /\ ~Unstarted /\ StepHeld = {} /\ archive # "never"
         /\ \A c \in crts : crtResult[c] # "never"
<1> USE DEF IInv
<1>1. Present(FinishTask)
  BY DEF Present
<1>2. step = 0 /\ ~Unstarted /\ archive # "never" /\ \A c \in crts : crtResult[c] # "never"
  BY <1>1 DEF FinishInv
<1>3. StepHeld = {}
  BY <1>2, NoHandles
<1>4. /\ \A u \in Threads : Busy(u) => task[u] = FinishTask
      /\ \A x : InQueue(x) => x = FinishTask
  BY <1>2, <1>3, NothingHeld
<1>5. \A u \in Threads \ {t} : ~Busy(u)
  <2>1. FinishTask # None
    BY TaskFacts
  <2> QED
    BY <1>4, <2>1 DEF UniqInv
<1>6. queue = <<>>
  <2>1. ~InQueue(FinishTask)
    BY TaskFacts, AtThread
  <2>2. \A m \in 1..Len(queue) : FALSE
    BY <1>4, <2>1 DEF InQueue
  <2>3. queue \in Seq(Tasks) /\ Len(queue) \in Nat
    BY DEF TypeOK
  <2>4. Len(queue) = 0
    BY <2>2, <2>3
  <2> QED
    BY <2>3, <2>4
<1> QED
  BY <1>2, <1>3, <1>5, <1>6

\* The builder's Finish stores the result, and is the last step of the build.
LEMMA FinishStepInv ==
  ASSUME IInv, NEW t \in Threads, Finish(t)
  PROVE  IInv'
<1> USE DEF IInv
<1>1. /\ pc[t] = "start" /\ task[t].job = "finish"
      /\ UNCHANGED <<resource, crts, main, queue, task, todo, step, comp, objs, crtResult,
                     archive, mu, objDirs, left, made, objFiles, alive, ignored>>
  BY DEF Finish, latches, results, files
<1>2. PICK k \in Tasks : task[t] = k /\ k = FinishTask /\ k.job = "finish"
  BY <1>1, TaskFacts DEF JobInv, TypeOK
<1>3. PICK l : l = "ret" /\ pc' = [pc EXCEPT ![t] = l]
  BY DEF Finish, Goto
<1>4. result' \in {"path", "error"} /\ (result' = "path" => BuildOK)
  BY DEF Finish
<1>5. /\ \A x : InQueue(x)' <=> InQueue(x)
      /\ \A x : Present(x)' <=> Present(x)
      /\ \A x, L : x # k => (At(x, L)' <=> At(x, L))
      /\ \A L : At(k, L) <=> pc[t] \in L
      /\ \A L : At(k, L)' <=> l \in L
      /\ \A u \in Threads : pc'[u] = IF u = t THEN l ELSE pc[u]
  <2>1. TypeOK /\ UniqInv /\ UNCHANGED <<queue, task>>
    BY <1>1
  <2>2. Moved(t, k, l)
    BY <1>2, <1>3, <2>1, Move
  <2> QED
    BY <2>2 DEF Moved
<1>6. /\ \A L : At(SetupTask, L)' <=> At(SetupTask, L)
      /\ \A s \in Srcs : \A L : At(Compile(s), L)' <=> At(Compile(s), L)
      /\ \A c \in Crt : \A L : At(BuildCrt(c), L)' <=> At(BuildCrt(c), L)
  BY <1>2, <1>5, TaskFacts
<1>7. /\ result = "unfinished" /\ main # "construct" /\ main # "done" /\ ~NoBuild /\ Busy(t)
      /\ \A u \in Threads : u # t => pc[u] # "layout"
  <2>1. Busy(t)
    BY <1>1, <1>2, TaskFacts DEF Busy
  <2> QED
    BY <2>1, BusyFacts
<1>8. /\ queue = <<>> /\ \A u \in Threads \ {t} : ~Busy(u)
      /\ ~Unstarted /\ StepHeld = {} /\ archive # "never"
      /\ \A c \in crts : crtResult[c] # "never"
  BY <1>2, FinishAlone
<1>9. /\ CompHeld = {} /\ \A u \in Threads : pc[u] \notin Archiving
      /\ ~At(SetupTask, SetupHolds)
  BY <1>8, NothingHeld
<1>10. ~Unstarted' /\ ~Early /\ ~Early'
  <2>1. ~At(SetupTask, {"postcrt", "initcomp"})
    BY <1>9 DEF At, SetupHolds
  <2> QED
    BY <1>1, <1>5, <1>6, <1>8, <2>1 DEF Early, Unstarted
<1>11. JobInv'
  BY <1>1, <1>2, <1>3, <1>5 DEF JobInv, SetupSteps, CompileSteps, Archiving, ArchiveSteps
<1>12. UniqInv'
  BY <1>1 DEF UniqInv
<1>13. StartInv'
  <2>1. \A u \in Threads : pc'[u] # "layout"
    BY <1>3, <1>5, <1>7
  <2>2. ~InQueue(SetupTask)'
    BY <1>5, <1>8 DEF Unstarted
  <2> QED
    BY <1>1, <1>7, <2>1, <2>2 DEF StartInv
<1>14. EarlyInv'
  BY <1>10 DEF EarlyInv
<1>15. TodoInv'
  <2>1. \A u \in Threads : pc'[u] \in {"layout", "postcrt", "postcomp"} => pc'[u] = pc[u]
    BY <1>3, <1>5
  <2> QED
    BY <1>1, <1>5, <2>1 DEF TodoInv
<1>16. StoredInv'
  BY <1>1, <1>5, <1>6 DEF StoredInv
<1>17. CountInv'
  <2>1. CompHeld' = CompHeld
    <3>1. \A x \in Tasks : At(x, HoldsComp)' <=> At(x, HoldsComp)
      BY <1>1, <1>3, <1>5 DEF HoldsComp, CompileSteps
    <3> QED
      BY <1>5, <3>1 DEF CompHeld
  <2>2. \A x \in Tasks : HoldsStep(x)' <=> HoldsStep(x)
    <3> SUFFICES ASSUME NEW x \in Tasks
                 PROVE  HoldsStep(x)' <=> HoldsStep(x)
      OBVIOUS
    <3>1. CASE x = k
      BY <1>2, <3>1, TaskFacts DEF HoldsStep
    <3>2. CASE x # k
      BY <1>5, <3>2 DEF HoldsStep
    <3> QED
      BY <3>1, <3>2
  <2>3. ClosureAlive' <=> ClosureAlive
    BY <1>1, <1>3, <1>5, <2>1 DEF ClosureAlive, Archiving, ArchiveSteps
  <2>4. StepHeld' = StepHeld
    BY <2>2, <2>3 DEF StepHeld
  <2> QED
    BY <1>1, <2>1, <2>4 DEF CountInv
<1>18. ArchiveInv'
  <2>1. \A u \in Threads : pc'[u] \notin Archiving /\ pc'[u] \notin {"rmdirs", "write"}
    BY <1>3, <1>5, <1>9 DEF Archiving, ArchiveSteps
  <2> QED
    BY <1>1, <2>1 DEF ArchiveInv
<1>19. ResultInv'
  <2>1. \A s \in Srcs : objs'[s] # "never"
    <3> SUFFICES ASSUME NEW s \in Srcs, objs[s] = "never"
                 PROVE  FALSE
      BY <1>1
    <3>1. Compile(s) \in Tasks /\ Compile(s).job = "compile" /\ SetupTask \in Tasks
      BY TaskFacts
    <3>2. ~InQueue(Compile(s)) /\ ~At(Compile(s), HoldsComp) /\ ~At(SetupTask, HoldsComp)
      BY <1>9, <3>1 DEF CompHeld
    <3>3. ~At(Compile(s), CompileSteps) /\ ~At(SetupTask, {"postcomp"})
      BY <3>2 DEF At, HoldsComp
    <3> QED
      BY <1>7, <1>10, <3>2, <3>3 DEF ResultInv
  <2> QED
    BY <1>1, <1>8, <2>1 DEF ResultInv
<1>20. FinishInv'
  BY <1>1, <1>5, <1>10 DEF FinishInv
<1>21. DoneInv'
  <2>1. \A u \in Threads : ~Busy(u)'
    BY <1>1, <1>3, <1>5, <1>8 DEF Busy
  <2> QED
    BY <1>1, <1>4, <1>7, <1>8, <2>1 DEF DoneInv
<1>22. CleanInv'
  <2>1. \A u \in Threads : pc'[u] \notin {"rmdirs", "write"}
    BY <1>3, <1>5, <1>9 DEF Archiving, ArchiveSteps
  <2>2. objFiles \subseteq Srcs
    BY DEF TypeOK
  <2>3. result' = "path" => archive' = "ok" /\ \A c \in crts' : crtResult'[c] = "ok"
    BY <1>1, <1>4 DEF BuildOK
  <2> QED
    BY <1>1, <1>6, <2>1, <2>2, <2>3 DEF CleanInv
<1>23. TypeOK'
  <2>1. pc' \in [Threads -> PCs]
    BY <1>3 DEF TypeOK, PCs
  <2> QED
    BY <1>1, <1>4, <2>1 DEF TypeOK
<1> QED
  BY <1>11, <1>12, <1>13, <1>14, <1>15, <1>16, <1>17, <1>18, <1>19, <1>20, <1>21, <1>22, <1>23

----------------------------------------------------------------------------
(* Setup                                                                    *)

\* While Setup lays out the directory there is nothing else.
LEMMA LayoutFacts ==
  ASSUME IInv, NEW t \in Threads, pc[t] = "layout"
  PROVE  /\ task[t] = SetupTask /\ queue = <<>> /\ \A u \in Threads \ {t} : task[u] = None
         /\ \A x : ~InQueue(x)
         /\ \A x \in Tasks : \A L : x # SetupTask => ~At(x, L) /\ ~Present(x)
         /\ CompHeld = {} /\ StepHeld = {} /\ Early /\ \A u \in Threads : pc[u] \notin Archiving
         /\ result = "unfinished" /\ main # "construct" /\ main # "done"
<1> USE DEF IInv
<1>1. task[t] = SetupTask
  BY DEF JobInv, SetupSteps
<1>2. queue = <<>> /\ \A u \in Threads \ {t} : task[u] = None
  BY DEF StartInv
<1>3. \A x : ~InQueue(x)
  BY <1>2 DEF InQueue
<1>4. \A x \in Tasks : \A L : x # SetupTask => ~At(x, L) /\ ~Present(x)
  <2>1. \A x \in Tasks : x # None
    BY TaskFacts
  <2> QED
    BY <1>1, <1>2, <1>3, <2>1 DEF At, Present
<1>5. \A u \in Threads : pc[u] = "layout" \/ pc[u] = "free"
  BY <1>2 DEF JobInv
<1>6. \A u \in Threads : pc[u] \notin Archiving /\ pc[u] \notin HoldsComp /\ pc[u] \notin SetupHolds
  BY <1>5 DEF Archiving, ArchiveSteps, HoldsComp, CompileSteps, SetupHolds
<1>7. CompHeld = {}
  BY <1>3, <1>6 DEF CompHeld, At
<1>8. StepHeld = {}
  <2>1. \A x \in Tasks : ~HoldsStep(x)
    <3> SUFFICES ASSUME NEW x \in Tasks
                 PROVE  ~HoldsStep(x)
      OBVIOUS
    <3>1. x = SetupTask => ~At(x, SetupHolds) /\ x.job # "crt"
      BY <1>6, TaskFacts DEF At
    <3>2. x # SetupTask => ~At(x, {"start", "dropstep"})
      BY <1>4
    <3> QED
      BY <1>3, <3>1, <3>2 DEF HoldsStep
  <2>2. ~ClosureAlive
    BY <1>6, <1>7 DEF ClosureAlive
  <2> QED
    BY <2>1, <2>2 DEF StepHeld
<1>9. Early
  BY <1>1 DEF Early, Unstarted, At
<1>10. result = "unfinished" /\ main # "construct" /\ main # "done"
  <2>1. Busy(t)
    BY <1>1, TaskFacts DEF Busy
  <2> QED
    BY <2>1, BusyFacts
<1> QED
  BY <1>1, <1>2, <1>3, <1>4, <1>6, <1>7, <1>8, <1>9, <1>10

\* A layout that fails is the result, with no other step ever taken.
LEMMA SetupLayoutInv ==
  ASSUME IInv, NEW t \in Threads, SetupLayout(t)
  PROVE  IInv'
<1> USE DEF IInv
<1>1. /\ pc[t] = "layout"
      /\ UNCHANGED <<resource, crts, main, queue, task, todo, comp, objs, crtResult,
                     archive, mu, objDirs, left, made, objFiles, alive, ignored>>
  BY DEF SetupLayout, results, files
<1>2. /\ task[t] = SetupTask /\ queue = <<>> /\ \A u \in Threads \ {t} : task[u] = None
      /\ \A x : ~InQueue(x)
      /\ \A x \in Tasks : \A L : x # SetupTask => ~At(x, L) /\ ~Present(x)
      /\ CompHeld = {} /\ StepHeld = {} /\ Early /\ \A u \in Threads : pc[u] \notin Archiving
      /\ result = "unfinished" /\ main # "construct" /\ main # "done"
  BY <1>1, LayoutFacts
<1>3. PICK l : /\ pc' = [pc EXCEPT ![t] = l]
               /\ \/ l = "postcrt" /\ step' = 1 /\ result' = result
                  \/ l = "ret" /\ step' = step /\ result' = "error"
  BY DEF SetupLayout, Goto
<1>4. PICK k \in Tasks : k = SetupTask /\ task[t] = k /\ k.job = "setup"
  BY <1>2, TaskFacts
<1>5. /\ \A x : InQueue(x)' <=> InQueue(x)
      /\ \A x : Present(x)' <=> Present(x)
      /\ \A x, L : x # k => (At(x, L)' <=> At(x, L))
      /\ \A L : At(k, L) <=> pc[t] \in L
      /\ \A L : At(k, L)' <=> l \in L
      /\ \A u \in Threads : pc'[u] = IF u = t THEN l ELSE pc[u]
  <2>1. TypeOK /\ UniqInv /\ UNCHANGED <<queue, task>>
    BY <1>1
  <2>2. Moved(t, k, l)
    BY <1>3, <1>4, <2>1, Move
  <2> QED
    BY <2>2 DEF Moved
<1>6. /\ ~Unstarted'
      /\ \A u \in Threads : pc'[u] # "layout" /\ pc'[u] \notin Archiving
      /\ \A u \in Threads : u # t => pc'[u] = "free"
  <2>1. \A u \in Threads : u # t => pc[u] = "free"
    BY <1>2 DEF JobInv
  <2> QED
    BY <1>1, <1>2, <1>3, <1>4, <1>5, <2>1 DEF Unstarted, Archiving, ArchiveSteps
<1>7. /\ objs = [s \in Srcs |-> objs[s]] /\ (\A s \in Srcs : objs[s] = "never")
      /\ archive = "never"
  BY <1>2 DEF EarlyInv, TypeOK
<1>8. JobInv'
  BY <1>1, <1>2, <1>3, <1>4, <1>5, TaskFacts
     DEF JobInv, SetupSteps, CompileSteps, Archiving, ArchiveSteps
<1>9. UniqInv'
  BY <1>1 DEF UniqInv
<1>10. StartInv'
  BY <1>1, <1>2, <1>5, <1>6 DEF StartInv
<1>11. EarlyInv'
  <2>1. \A s \in Srcs : ~Present(Compile(s))'
    BY <1>2, <1>5, TaskFacts
  <2> QED
    BY <1>1, <1>7, <2>1 DEF EarlyInv
<1>12. TodoInv'
  <2>1. todo = crts
    BY <1>1 DEF TodoInv
  <2>2. \A c \in crts : ~Present(BuildCrt(c))'
    BY <1>2, <1>5, TaskFacts DEF TypeOK
  <2>3. \A u \in Threads : pc'[u] # "postcomp"
    BY <1>3, <1>5, <1>6
  <2> QED
    BY <1>1, <1>6, <2>1, <2>2, <2>3 DEF TodoInv
<1>13. StoredInv'
  BY <1>1, <1>7 DEF StoredInv
<1>14. CountInv'
  <2>1. CompHeld' = {}
    <3>1. \A x \in Tasks : ~At(x, HoldsComp)'
      BY <1>2, <1>3, <1>4, <1>5 DEF HoldsComp, CompileSteps
    <3> QED
      BY <1>2, <1>5, <3>1 DEF CompHeld
  <2>2. ~ClosureAlive'
    BY <1>6, <2>1 DEF ClosureAlive
  <2>3. ASSUME NEW x \in Tasks, x # SetupTask
        PROVE  ~HoldsStep(x)'
    BY <1>2, <1>4, <1>5, <2>3 DEF HoldsStep
  <2>4. comp' = Cardinality(CompHeld') /\ IsFiniteSet(CompHeld')
    BY <1>1, <1>2, <2>1 DEF CountInv
  <2>5. HoldsStep(SetupTask)' <=> l \in SetupHolds
    BY <1>4, <1>5 DEF HoldsStep
  <2>6. CASE l = "postcrt"
    <3>1. l \in SetupHolds
      BY <2>6 DEF SetupHolds
    <3>2. StepHeld' = {SetupTask}
      BY <2>2, <2>3, <2>5, <3>1, TaskFacts DEF StepHeld
    <3>3. step' = Cardinality(StepHeld') /\ IsFiniteSet(StepHeld')
      BY <1>3, <2>6, <3>2, FS_Singleton
    <3> QED
      BY <2>4, <3>3 DEF CountInv
  <2>7. CASE l = "ret"
    <3>1. l \notin SetupHolds
      BY <2>7 DEF SetupHolds, Archiving, ArchiveSteps
    <3>2. StepHeld' = StepHeld
      BY <1>2, <2>2, <2>3, <2>5, <3>1 DEF StepHeld
    <3> QED
      BY <1>3, <2>4, <2>7, <3>2 DEF CountInv
  <2> QED
    BY <1>3, <2>6, <2>7
<1>15. ArchiveInv'
  <2>1. \A u \in Threads : pc'[u] \notin {"rmdirs", "write"}
    BY <1>6 DEF Archiving, ArchiveSteps
  <2> QED
    BY <1>1, <1>6, <1>7, <2>1 DEF ArchiveInv
<1>16. ResultInv'
  <2>1. CASE l = "postcrt"
    <3>1. Early' /\ At(SetupTask, {"postcrt"})'
      BY <1>4, <1>5, <2>1 DEF Early
    <3>2. todo' = crts'
      BY <1>1 DEF TodoInv
    <3> QED
      BY <3>1, <3>2 DEF ResultInv
  <2>2. CASE l = "ret"
    <3>1. NoBuild'
      <4>1. SetupTask # FinishTask /\ FinishTask # None
        BY TaskFacts
      <4> QED
        BY <1>1, <1>2, <1>5, <2>2, <4>1 DEF NoBuild, Busy
    <3> QED
      BY <3>1 DEF ResultInv
  <2> QED
    BY <1>3, <2>1, <2>2
<1>17. FinishInv'
  <2>1. ~Present(FinishTask)'
    BY <1>2, <1>5, TaskFacts
  <2> QED
    BY <2>1 DEF FinishInv
<1>18. DoneInv'
  <2>1. CASE l = "postcrt"
    BY <1>1, <1>2, <1>3, <2>1 DEF DoneInv
  <2>2. CASE l = "ret"
    <3>1. \A u \in Threads : ~Busy(u)'
      BY <1>1, <1>2, <1>5, <2>2 DEF Busy
    <3> QED
      BY <1>1, <1>2, <1>3, <2>2, <3>1 DEF DoneInv
  <2> QED
    BY <1>3, <2>1, <2>2
<1>19. CleanInv'
  <2>1. \A u \in Threads : pc'[u] \notin {"rmdirs", "write"}
    BY <1>6 DEF Archiving, ArchiveSteps
  <2>2. \A s \in objFiles : ~At(Compile(s), {"read", "unlink"})
    BY <1>2, TaskFacts DEF TypeOK
  <2>3. result' # "path"
    BY <1>2, <1>3
  <2> QED
    BY <1>1, <1>7, <2>1, <2>2, <2>3 DEF CleanInv
<1>20. TypeOK'
  <2>1. pc' \in [Threads -> PCs]
    BY <1>3 DEF TypeOK, PCs, SetupSteps
  <2>2. step' \in Nat /\ result' \in {"unfinished", "path", "error"}
    BY <1>3 DEF TypeOK
  <2> QED
    BY <1>1, <2>1, <2>2 DEF TypeOK
<1> QED
  BY <1>8, <1>9, <1>10, <1>11, <1>12, <1>13, <1>14, <1>15, <1>16, <1>17, <1>18, <1>19, <1>20

\* Setup is the only thread that posts.
LEMMA SetupFacts ==
  ASSUME IInv, NEW t \in Threads, pc[t] \in {"postcrt", "initcomp", "postcomp"}
  PROVE  /\ task[t] = SetupTask /\ SetupTask \in Tasks /\ SetupTask.job = "setup"
         /\ \A L : At(SetupTask, L) <=> pc[t] \in L
         /\ \A u \in Threads : u # t => pc[u] \notin SetupSteps
         /\ \A u \in Threads : pc[u] # "layout"
         /\ ~Unstarted /\ ~NoBuild
         /\ result = "unfinished" /\ main # "construct" /\ main # "done"
         /\ step > 0 /\ ~Present(FinishTask) /\ SetupTask \in StepHeld
<1> USE DEF IInv
<1>1. task[t] = SetupTask /\ SetupTask \in Tasks /\ SetupTask.job = "setup"
  BY TaskFacts DEF JobInv, SetupSteps
<1>2. /\ \A L : At(SetupTask, L) <=> pc[t] \in L
      /\ ~InQueue(SetupTask)
  BY <1>1, AtThread
<1>3. SetupTask # None
  BY TaskFacts
<1>4. \A u \in Threads : u # t => pc[u] \notin SetupSteps
  BY <1>1, <1>3 DEF JobInv, UniqInv
<1>5. \A u \in Threads : pc[u] # "layout"
  BY <1>4 DEF SetupSteps
<1>6. /\ result = "unfinished" /\ main # "construct" /\ main # "done" /\ ~NoBuild
  <2>1. Busy(t)
    BY <1>1, <1>3 DEF Busy
  <2> QED
    BY <2>1, BusyFacts
<1>7. ~Unstarted
  BY <1>2, <1>6 DEF Unstarted
<1>8. SetupTask \in StepHeld
  BY <1>1, <1>2 DEF StepHeld, HoldsStep, SetupHolds
<1>9. step > 0
  BY <1>8, NoHandles DEF TypeOK
<1>10. ~Present(FinishTask)
  BY <1>9 DEF FinishInv
<1> QED
  BY <1>1, <1>2, <1>4, <1>5, <1>6, <1>7, <1>8, <1>9, <1>10

\* A task y is posted that was nowhere.
LEMMA PostUniq ==
  ASSUME TypeOK, UniqInv, NEW y \in Tasks, ~Present(y), queue' = Append(queue, y),
         task' = task
  PROVE  /\ UniqInv' /\ queue' \in Seq(Tasks)
         /\ \A x : InQueue(x)' <=> InQueue(x) \/ x = y
         /\ \A x : Present(x)' <=> Present(x) \/ x = y
<1>1. queue \in Seq(Tasks) /\ Len(queue) \in Nat
  BY DEF TypeOK
<1>2. /\ Len(queue') = Len(queue) + 1 /\ queue'[Len(queue) + 1] = y /\ queue' \in Seq(Tasks)
      /\ \A m \in 1..Len(queue) : queue'[m] = queue[m]
  BY <1>1
<1>3. \A x : InQueue(x)' <=> InQueue(x) \/ x = y
  BY QueueAppend
<1>4. \A x : Present(x)' <=> Present(x) \/ x = y
  BY <1>3 DEF Present
<1>5. \A m \in 1..Len(queue) : queue[m] # y
  BY DEF Present, InQueue
<1>6. \A t \in Threads : task[t] # y
  BY DEF Present
<1>7. \A m \in 1..Len(queue') : m \in 1..Len(queue) \/ m = Len(queue) + 1
  BY <1>1, <1>2
<1>8. \A m, n \in 1..Len(queue') : queue'[m] = queue'[n] => m = n
  BY <1>1, <1>2, <1>5, <1>7 DEF UniqInv
<1>9. \A m \in 1..Len(queue'), t \in Threads : queue'[m] # task'[t]
  BY <1>1, <1>2, <1>6, <1>7 DEF UniqInv
<1>10. UniqInv'
  BY <1>8, <1>9 DEF UniqInv
<1> QED
  BY <1>2, <1>3, <1>4, <1>10

\* The same while no thread moves.
Posted(y) ==
  /\ \A x : InQueue(x)' <=> InQueue(x) \/ x = y
  /\ \A x : Present(x)' <=> Present(x) \/ x = y
  /\ \A x, L : At(x, L)' <=> At(x, L)

\* That is what posting a task to the pool does.
LEMMA Post ==
  ASSUME TypeOK, UniqInv, NEW y \in Tasks, ~Present(y), queue' = Append(queue, y),
         UNCHANGED <<task, pc>>
  PROVE  Posted(y) /\ UniqInv' /\ queue' \in Seq(Tasks)
<1>1. \A x, L : At(x, L)' <=> At(x, L)
  BY DEF At
<1>2. /\ UniqInv' /\ queue' \in Seq(Tasks)
      /\ \A x : InQueue(x)' <=> InQueue(x) \/ x = y
      /\ \A x : Present(x)' <=> Present(x) \/ x = y
  BY PostUniq
<1> QED
  BY <1>1, <1>2 DEF Posted

\* Every CRT file is posted with a step handle.
LEMMA PostCrtInv ==
  ASSUME IInv, NEW t \in Threads, PostCrt(t)
  PROVE  IInv'
<1> USE DEF IInv
<1>1. /\ pc[t] = "postcrt"
      /\ UNCHANGED <<resource, crts, main, result, task, comp, objs, crtResult, archive,
                     mu, objDirs, left, made, objFiles, alive, ignored>>
  BY DEF PostCrt, results, files
<1>2. /\ task[t] = SetupTask /\ SetupTask \in Tasks /\ SetupTask.job = "setup"
      /\ \A L : At(SetupTask, L) <=> pc[t] \in L
      /\ \A u \in Threads : u # t => pc[u] \notin SetupSteps
      /\ \A u \in Threads : pc[u] # "layout"
      /\ ~Unstarted /\ ~NoBuild
      /\ result = "unfinished" /\ main # "construct" /\ main # "done"
      /\ step > 0 /\ ~Present(FinishTask) /\ SetupTask \in StepHeld
  BY <1>1, SetupFacts
<1>3. Early
  BY <1>1, <1>2 DEF Early
<1>4. todo \subseteq crts /\ crts \subseteq Crt /\ \A c \in todo : ~Present(BuildCrt(c))
  BY <1>1 DEF TodoInv, TypeOK
<1>5. CASE \E c \in todo : /\ queue' = Append(queue, BuildCrt(c)) /\ step' = step + 1
                           /\ todo' = todo \ {c} /\ pc' = pc
  <2>1. PICK c \in todo : /\ queue' = Append(queue, BuildCrt(c)) /\ step' = step + 1
                          /\ todo' = todo \ {c} /\ pc' = pc
    BY <1>5
  <2>2. PICK y \in Tasks : y = BuildCrt(c) /\ y.job = "crt" /\ y.file = c
    BY <1>4, TaskFacts
  <2>3. Posted(y) /\ UniqInv' /\ queue' \in Seq(Tasks)
    BY <1>1, <1>4, <2>1, <2>2, Post
  <2>4. /\ \A x : InQueue(x)' <=> InQueue(x) \/ x = y
        /\ \A x : Present(x)' <=> Present(x) \/ x = y
        /\ \A x, L : At(x, L)' <=> At(x, L)
    BY <2>3 DEF Posted
  <2>5. /\ y # SetupTask /\ y # FinishTask /\ \A s \in Srcs : y # Compile(s)
        /\ \A d \in Crt : d # c => y # BuildCrt(d)
    BY <2>2, TaskFacts
  <2>6. ~Unstarted' /\ Early'
    BY <1>1, <1>2, <1>3, <2>4, <2>5 DEF Early, Unstarted
  <2>7. JobInv'
    BY <1>1, <2>1 DEF JobInv
  <2>8. StartInv'
    BY <1>1, <1>2, <2>1, <2>4, <2>5 DEF StartInv, Unstarted
  <2>9. EarlyInv'
    BY <1>1, <1>3, <2>4, <2>5 DEF EarlyInv
  <2>10. TodoInv'
    <3>1. \A d \in todo' : d \in crts /\ ~Present(BuildCrt(d))'
      BY <1>4, <2>1, <2>4, <2>5
    <3>2. \A u \in Threads : pc'[u] # "postcomp" /\ pc'[u] # "layout"
      BY <1>1, <1>2, <2>1 DEF SetupSteps
    <3> QED
      BY <1>1, <3>1, <3>2 DEF TodoInv
  <2>11. StoredInv'
    BY <1>1, <2>4, <2>5 DEF StoredInv
  <2>12. CountInv'
    <3>1. CompHeld' = CompHeld
      BY <2>2, <2>4 DEF CompHeld
    <3>2. ClosureAlive' <=> ClosureAlive
      BY <2>1, <3>1 DEF ClosureAlive
    <3>3. \A x \in Tasks : HoldsStep(x)' <=> HoldsStep(x) \/ x = y
      BY <2>2, <2>4, <2>5 DEF HoldsStep
    <3>4. StepHeld' = StepHeld \cup {y}
      BY <3>2, <3>3 DEF StepHeld
    <3>5. y \notin StepHeld
      <4>1. ~InQueue(y) /\ \A L : ~At(y, L)
        BY <1>4, <2>2 DEF Present, At
      <4> QED
        BY <2>2, <2>5, <4>1, TaskFacts DEF StepHeld, HoldsStep
    <3>6. Cardinality(StepHeld') = step + 1 /\ IsFiniteSet(StepHeld')
      BY <3>4, <3>5, FS_AddElement DEF CountInv
    <3> QED
      BY <1>1, <2>1, <3>1, <3>6 DEF CountInv
  <2>13. ArchiveInv'
    BY <1>1, <2>1 DEF ArchiveInv
  <2>14. ResultInv'
    <3>1. \A d \in crts : crtResult[d] = "never" =>
            \/ InQueue(BuildCrt(d))' \/ At(BuildCrt(d), {"start"})'
            \/ At(SetupTask, {"postcrt"})' /\ d \in todo'
      BY <1>2, <2>1, <2>2, <2>4 DEF ResultInv
    <3> QED
      BY <1>1, <2>6, <3>1 DEF ResultInv
  <2>15. FinishInv'
    BY <1>2, <2>4, <2>5 DEF FinishInv
  <2>16. DoneInv'
    <3>1. step' > 0
      BY <1>2, <2>1 DEF TypeOK
    <3> QED
      BY <1>1, <1>2, <3>1 DEF DoneInv
  <2>17. CleanInv'
    BY <1>1, <1>2, <2>1, <2>4 DEF CleanInv
  <2>18. TypeOK'
    <3>1. step' \in Nat /\ todo' \subseteq Srcs \cup Crt
      BY <2>1 DEF TypeOK
    <3> QED
      BY <1>1, <2>1, <2>3, <3>1 DEF TypeOK
  <2> QED
    BY <2>3, <2>7, <2>8, <2>9, <2>10, <2>11, <2>12, <2>13, <2>14, <2>15, <2>16, <2>17, <2>18
<1>6. CASE todo = {} /\ pc' = [pc EXCEPT ![t] = "initcomp"] /\ UNCHANGED <<queue, step, todo>>
  <2>1. PICK l : l = "initcomp" /\ pc' = [pc EXCEPT ![t] = l]
    BY <1>6
  <2>2. PICK k \in Tasks : k = SetupTask /\ task[t] = k /\ k.job = "setup"
    BY <1>2
  <2>3. /\ \A x : InQueue(x)' <=> InQueue(x)
        /\ \A x : Present(x)' <=> Present(x)
        /\ \A x, L : x # k => (At(x, L)' <=> At(x, L))
        /\ \A L : At(k, L) <=> pc[t] \in L
        /\ \A L : At(k, L)' <=> l \in L
        /\ \A u \in Threads : pc'[u] = IF u = t THEN l ELSE pc[u]
    <3>1. TypeOK /\ UniqInv /\ UNCHANGED <<queue, task>>
      BY <1>1, <1>6
    <3>2. Moved(t, k, l)
      BY <2>1, <2>2, <3>1, Move
    <3> QED
      BY <3>2 DEF Moved
  <2>4. ~Unstarted' /\ Early'
    BY <1>1, <1>2, <2>1, <2>2, <2>3 DEF Early, Unstarted
  <2>5. \A x \in Tasks : x # SetupTask => \A L : At(x, L)' <=> At(x, L)
    BY <2>2, <2>3
  <2>6. \A s \in Srcs : \A L : At(Compile(s), L)' <=> At(Compile(s), L)
    BY <2>5, TaskFacts
  <2>7. JobInv'
    BY <1>1, <2>1, <2>2, <2>3 DEF JobInv, SetupSteps, CompileSteps, Archiving, ArchiveSteps
  <2>8. UniqInv'
    BY <1>1, <1>6 DEF UniqInv
  <2>9. StartInv'
    <3>1. \A u \in Threads : pc'[u] # "layout"
      BY <1>2, <2>1, <2>3
    <3> QED
      BY <1>1, <1>2, <2>3, <3>1 DEF StartInv, Unstarted
  <2>10. EarlyInv'
    BY <1>1, <1>3, <2>3 DEF EarlyInv
  <2>11. TodoInv'
    <3>1. \A u \in Threads : pc'[u] \notin {"layout", "postcrt", "postcomp"}
      BY <1>2, <2>1, <2>3 DEF SetupSteps
    <3> QED
      BY <3>1 DEF TodoInv
  <2>12. StoredInv'
    BY <1>1, <2>3, <2>6 DEF StoredInv
  <2>13. CountInv'
    <3>1. CompHeld' = CompHeld
      <4>1. \A x \in Tasks : At(x, HoldsComp)' <=> At(x, HoldsComp)
        BY <1>1, <2>1, <2>3 DEF HoldsComp, CompileSteps
      <4> QED
        BY <2>3, <4>1 DEF CompHeld
    <3>2. ClosureAlive' <=> ClosureAlive
      BY <1>1, <2>1, <2>3, <3>1 DEF ClosureAlive, Archiving, ArchiveSteps
    <3>3. \A x \in Tasks : HoldsStep(x)' <=> HoldsStep(x)
      <4> SUFFICES ASSUME NEW x \in Tasks
                   PROVE  HoldsStep(x)' <=> HoldsStep(x)
        OBVIOUS
      <4>1. CASE x = k
        BY <1>1, <2>1, <2>2, <2>3, <4>1 DEF HoldsStep, SetupHolds
      <4>2. CASE x # k
        BY <2>3, <4>2 DEF HoldsStep
      <4> QED
        BY <4>1, <4>2
    <3>4. StepHeld' = StepHeld
      BY <3>2, <3>3 DEF StepHeld
    <3> QED
      BY <1>1, <1>6, <3>1, <3>4 DEF CountInv
  <2>14. ArchiveInv'
    <3>1. \A u \in Threads : pc'[u] \in Archiving => pc'[u] = pc[u]
      BY <2>1, <2>3 DEF Archiving, ArchiveSteps
    <3>2. \A u \in Threads : pc'[u] \in {"rmdirs", "write"} => pc'[u] = pc[u]
      BY <2>1, <2>3
    <3> QED
      BY <1>1, <3>1, <3>2 DEF ArchiveInv
  <2>15. ResultInv'
    <3>1. \A d \in crts : crtResult[d] = "never" =>
            InQueue(BuildCrt(d))' \/ At(BuildCrt(d), {"start"})'
      <4>1. \A d \in crts : BuildCrt(d) \in Tasks /\ BuildCrt(d) # SetupTask
        BY <1>4, TaskFacts
      <4> QED
        BY <1>2, <1>6, <2>3, <2>5, <4>1 DEF ResultInv
    <3> QED
      BY <1>1, <2>4, <3>1 DEF ResultInv
  <2>16. FinishInv'
    BY <1>2, <2>3 DEF FinishInv
  <2>17. DoneInv'
    BY <1>1, <1>2, <1>6 DEF DoneInv
  <2>18. CleanInv'
    <3>1. \A u \in Threads : pc'[u] \in {"rmdirs", "write"} => pc'[u] = pc[u]
      BY <2>1, <2>3
    <3>2. objFiles \subseteq Srcs
      BY DEF TypeOK
    <3> QED
      BY <1>1, <1>2, <2>6, <3>1, <3>2 DEF CleanInv
  <2>19. TypeOK'
    <3>1. pc' \in [Threads -> PCs]
      BY <2>1 DEF TypeOK, PCs, SetupSteps
    <3> QED
      BY <1>1, <1>6, <3>1 DEF TypeOK
  <2> QED
    BY <2>7, <2>8, <2>9, <2>10, <2>11, <2>12, <2>13, <2>14, <2>15, <2>16, <2>17, <2>18, <2>19
<1> QED
  BY <1>5, <1>6 DEF PostCrt, Goto

\* Before compilation_latch_.Init neither latch has a handle for the compiles.
LEMMA EarlyHeld ==
  ASSUME IInv, NEW t \in Threads, pc[t] = "initcomp"
  PROVE  /\ CompHeld = {} /\ ~ClosureAlive
         /\ \A u \in Threads : pc[u] \notin Archiving
<1> USE DEF IInv
<1>1. /\ task[t] = SetupTask
      /\ \A L : At(SetupTask, L) <=> pc[t] \in L
  BY SetupFacts
<1>2. \A s \in Srcs : ~Present(Compile(s))
  BY <1>1 DEF EarlyInv, Early
<1>3. \A u \in Threads : task[u] # None /\ task[u].job = "compile" => FALSE
  BY <1>2, TaskFacts DEF Present, TypeOK
<1>4. \A u \in Threads : task[u] # None /\ task[u].job = "setup" => u = t
  BY <1>1, TaskFacts DEF TypeOK, UniqInv
<1>5. \A u \in Threads : pc[u] \in Archiving \cup HoldsComp => FALSE
  <2> SUFFICES ASSUME NEW u \in Threads, pc[u] \in Archiving \cup HoldsComp
               PROVE  FALSE
    OBVIOUS
  <2>1. task[u] # None
    BY DEF JobInv, Archiving, ArchiveSteps, HoldsComp, CompileSteps
  <2>2. task[u].job \in {"compile", "setup"}
    BY TaskFacts DEF JobInv, HoldsComp, SetupSteps
  <2>3. u = t
    BY <1>3, <1>4, <2>1, <2>2
  <2> QED
    BY <2>3 DEF Archiving, ArchiveSteps, HoldsComp, CompileSteps
<1>6. CompHeld = {}
  <2>1. \A x \in Tasks : x.job = "compile" => ~InQueue(x)
    BY <1>2, TaskFacts DEF Present
  <2> QED
    BY <1>5, <2>1 DEF CompHeld, At
<1> QED
  BY <1>5, <1>6 DEF ClosureAlive

\* compilation_latch_.Init takes a handle of each latch.
LEMMA InitCompInv ==
  ASSUME IInv, NEW t \in Threads, InitComp(t)
  PROVE  IInv'
<1> USE DEF IInv
<1>1. /\ pc[t] = "initcomp" /\ comp' = 1 /\ step' = step + 1 /\ todo' = Srcs
      /\ UNCHANGED <<resource, crts, main, result, queue, task, objs, crtResult, archive,
                     mu, objDirs, left, made, objFiles, alive, ignored>>
  BY DEF InitComp, results, files
<1>2. /\ task[t] = SetupTask /\ SetupTask \in Tasks /\ SetupTask.job = "setup"
      /\ \A L : At(SetupTask, L) <=> pc[t] \in L
      /\ \A u \in Threads : u # t => pc[u] \notin SetupSteps
      /\ \A u \in Threads : pc[u] # "layout"
      /\ ~Unstarted /\ ~NoBuild
      /\ result = "unfinished" /\ main # "construct" /\ main # "done"
      /\ step > 0 /\ ~Present(FinishTask) /\ SetupTask \in StepHeld
  BY <1>1, SetupFacts
<1>3. /\ \A s \in Srcs : ~Present(Compile(s)) /\ objs[s] = "never"
      /\ archive = "never"
  BY <1>1, <1>2 DEF Early, EarlyInv
<1>4. CompHeld = {} /\ ~ClosureAlive /\ \A u \in Threads : pc[u] \notin Archiving
  BY <1>1, EarlyHeld
<1>5. PICK l : l = "postcomp" /\ pc' = [pc EXCEPT ![t] = l]
  BY DEF InitComp, Goto
<1>6. PICK k \in Tasks : k = SetupTask /\ task[t] = k /\ k.job = "setup"
  BY <1>2
<1>7. /\ \A x : InQueue(x)' <=> InQueue(x)
      /\ \A x : Present(x)' <=> Present(x)
      /\ \A x, L : x # k => (At(x, L)' <=> At(x, L))
      /\ \A L : At(k, L) <=> pc[t] \in L
      /\ \A L : At(k, L)' <=> l \in L
      /\ \A u \in Threads : pc'[u] = IF u = t THEN l ELSE pc[u]
  <2>1. TypeOK /\ UniqInv /\ UNCHANGED <<queue, task>>
    BY <1>1
  <2>2. Moved(t, k, l)
    BY <1>5, <1>6, <2>1, Move
  <2> QED
    BY <2>2 DEF Moved
<1>8. ~Unstarted' /\ ~Early' /\ At(SetupTask, {"postcomp"})'
  BY <1>1, <1>2, <1>5, <1>6, <1>7 DEF Early, Unstarted
<1>9. \A x \in Tasks : x # SetupTask => \A L : At(x, L)' <=> At(x, L)
  BY <1>6, <1>7
<1>10. JobInv'
  BY <1>1, <1>5, <1>6, <1>7 DEF JobInv, SetupSteps, CompileSteps, Archiving, ArchiveSteps
<1>11. UniqInv'
  BY <1>1 DEF UniqInv
<1>12. \A u \in Threads : pc'[u] \notin {"layout", "rmdirs", "write"} /\ pc'[u] \notin Archiving
  BY <1>2, <1>4, <1>5, <1>7 DEF Archiving, ArchiveSteps
<1>13. StartInv'
  BY <1>1, <1>2, <1>7, <1>12 DEF StartInv, Unstarted
<1>14. EarlyInv'
  BY <1>8 DEF EarlyInv
<1>15. TodoInv'
  <2>1. \A u \in Threads : pc'[u] \notin {"layout", "postcrt"}
    BY <1>2, <1>5, <1>7 DEF SetupSteps
  <2> QED
    BY <1>1, <1>3, <1>7, <2>1 DEF TodoInv
<1>16. StoredInv'
  BY <1>1, <1>3 DEF StoredInv
<1>17. CountInv'
  <2>1. CompHeld' = {SetupTask}
    <3>1. At(SetupTask, HoldsComp)'
      BY <1>5, <1>6, <1>7 DEF HoldsComp
    <3>2. \A x \in Tasks : x # SetupTask => ~At(x, HoldsComp)'
      BY <1>4, <1>9 DEF CompHeld
    <3>3. \A x \in Tasks : x.job = "compile" => ~InQueue(x)'
      BY <1>4, <1>7 DEF CompHeld
    <3> QED
      BY <1>2, <3>1, <3>2, <3>3 DEF CompHeld
  <2>2. ClosureAlive'
    BY <2>1 DEF ClosureAlive
  <2>3. \A x \in Tasks : HoldsStep(x)' <=> HoldsStep(x)
    <3> SUFFICES ASSUME NEW x \in Tasks
                 PROVE  HoldsStep(x)' <=> HoldsStep(x)
      OBVIOUS
    <3>1. CASE x = k
      BY <1>1, <1>5, <1>6, <1>7, <3>1 DEF HoldsStep, SetupHolds
    <3>2. CASE x # k
      BY <1>7, <3>2 DEF HoldsStep
    <3> QED
      BY <3>1, <3>2
  <2>4. StepHeld' = StepHeld \cup {Closure} /\ Closure \notin StepHeld
    BY <1>4, <2>2, <2>3, TaskFacts DEF StepHeld
  <2>5. Cardinality(StepHeld') = step + 1 /\ IsFiniteSet(StepHeld')
    BY <2>4, FS_AddElement DEF CountInv
  <2>6. Cardinality(CompHeld') = 1 /\ IsFiniteSet(CompHeld')
    BY <2>1, FS_Singleton
  <2> QED
    BY <1>1, <2>5, <2>6 DEF CountInv
<1>18. ArchiveInv'
  BY <1>1, <1>3, <1>12 DEF ArchiveInv
<1>19. ResultInv'
  <2>1. \A d \in crts : crtResult[d] = "never" =>
          InQueue(BuildCrt(d))' \/ At(BuildCrt(d), {"start"})'
    <3>1. \A d \in crts : BuildCrt(d) \in Tasks /\ BuildCrt(d) # SetupTask
      BY TaskFacts DEF TypeOK
    <3>2. ~At(SetupTask, {"postcrt"})
      BY <1>1, <1>2
    <3> QED
      BY <1>2, <1>7, <1>9, <3>1, <3>2 DEF ResultInv
  <2> QED
    BY <1>1, <1>8, <2>1 DEF ResultInv
<1>20. FinishInv'
  BY <1>2, <1>7 DEF FinishInv
<1>21. DoneInv'
  <2>1. step' > 0
    BY <1>1, <1>2 DEF TypeOK
  <2> QED
    BY <1>1, <1>2, <2>1 DEF DoneInv
<1>22. CleanInv'
  <2>1. \A s \in Srcs : \A L : At(Compile(s), L)' <=> At(Compile(s), L)
    BY <1>9, TaskFacts
  <2>2. objFiles \subseteq Srcs
    BY DEF TypeOK
  <2> QED
    BY <1>1, <1>2, <1>12, <2>1, <2>2 DEF CleanInv
<1>23. TypeOK'
  <2>1. pc' \in [Threads -> PCs]
    BY <1>5 DEF TypeOK, PCs, SetupSteps
  <2>2. step' \in Nat /\ comp' \in Nat /\ todo' \subseteq Srcs \cup Crt
    BY <1>1 DEF TypeOK
  <2> QED
    BY <1>1, <2>1, <2>2 DEF TypeOK
<1> QED
  BY <1>10, <1>11, <1>13, <1>14, <1>15, <1>16, <1>17, <1>18, <1>19, <1>20, <1>21, <1>22, <1>23

\* Every source is posted with a compilation handle.
LEMMA PostCompileInv ==
  ASSUME IInv, NEW t \in Threads, PostCompile(t)
  PROVE  IInv'
<1> USE DEF IInv
<1>1. /\ pc[t] = "postcomp"
      /\ UNCHANGED <<resource, crts, main, result, task, step, objs, crtResult, archive,
                     mu, objDirs, left, made, objFiles, alive, ignored>>
  BY DEF PostCompile, results, files
<1>2. /\ task[t] = SetupTask /\ SetupTask \in Tasks /\ SetupTask.job = "setup"
      /\ \A L : At(SetupTask, L) <=> pc[t] \in L
      /\ \A u \in Threads : u # t => pc[u] \notin SetupSteps
      /\ \A u \in Threads : pc[u] # "layout"
      /\ ~Unstarted /\ ~NoBuild
      /\ result = "unfinished" /\ main # "construct" /\ main # "done"
      /\ step > 0 /\ ~Present(FinishTask) /\ SetupTask \in StepHeld
  BY <1>1, SetupFacts
<1>3. ~Early
  BY <1>1, <1>2 DEF Early
<1>4. todo \subseteq Srcs /\ \A s \in todo : ~Present(Compile(s)) /\ objs[s] = "never"
  BY <1>1 DEF TodoInv
<1>5. SetupTask \in CompHeld /\ comp > 0
  <2>1. SetupTask \in CompHeld
    BY <1>1, <1>2 DEF CompHeld, HoldsComp
  <2> QED
    BY <2>1, NoHandles DEF TypeOK
<1>6. archive = "never" /\ \A u \in Threads : pc[u] \notin Archiving
  BY <1>5 DEF ArchiveInv
<1>7. CASE \E s \in todo : /\ queue' = Append(queue, Compile(s)) /\ comp' = comp + 1
                           /\ todo' = todo \ {s} /\ pc' = pc
  <2>1. PICK s \in todo : /\ queue' = Append(queue, Compile(s)) /\ comp' = comp + 1
                          /\ todo' = todo \ {s} /\ pc' = pc
    BY <1>7
  <2>2. PICK y \in Tasks : y = Compile(s) /\ y.job = "compile" /\ y.file = s
    BY <1>4, TaskFacts
  <2>3. Posted(y) /\ UniqInv' /\ queue' \in Seq(Tasks)
    BY <1>1, <1>4, <2>1, <2>2, Post
  <2>4. /\ \A x : InQueue(x)' <=> InQueue(x) \/ x = y
        /\ \A x : Present(x)' <=> Present(x) \/ x = y
        /\ \A x, L : At(x, L)' <=> At(x, L)
    BY <2>3 DEF Posted
  <2>5. /\ y # SetupTask /\ y # FinishTask /\ \A c \in Crt : y # BuildCrt(c)
        /\ \A u \in Srcs : u # s => y # Compile(u)
    BY <2>2, TaskFacts
  <2>6. ~Unstarted' /\ ~Early'
    BY <1>1, <1>2, <1>3, <2>4, <2>5 DEF Early, Unstarted
  <2>7. JobInv'
    BY <1>1, <2>1 DEF JobInv
  <2>8. StartInv'
    BY <1>1, <1>2, <2>1, <2>4, <2>5 DEF StartInv, Unstarted
  <2>9. EarlyInv'
    BY <2>6 DEF EarlyInv
  <2>10. TodoInv'
    <3>1. \A u \in todo' : u \in Srcs /\ ~Present(Compile(u))' /\ objs'[u] = "never"
      BY <1>1, <1>4, <2>1, <2>4, <2>5
    <3>2. \A u \in Threads : pc'[u] # "postcrt" /\ pc'[u] # "layout"
      BY <1>1, <1>2, <2>1 DEF SetupSteps
    <3> QED
      BY <3>1, <3>2 DEF TodoInv
  <2>11. StoredInv'
    <3>1. objs[s] = "never"
      BY <1>4
    <3> QED
      BY <1>1, <2>2, <2>4, <2>5, <3>1 DEF StoredInv
  <2>12. CountInv'
    <3>1. CompHeld' = CompHeld \cup {y}
      BY <2>2, <2>4 DEF CompHeld
    <3>2. ClosureAlive' /\ ClosureAlive
      BY <1>5, <3>1 DEF ClosureAlive
    <3>3. \A x \in Tasks : HoldsStep(x)' <=> HoldsStep(x)
      BY <2>2, <2>4, <2>5 DEF HoldsStep
    <3>4. StepHeld' = StepHeld
      BY <3>2, <3>3 DEF StepHeld
    <3>5. y \notin CompHeld
      <4>1. ~InQueue(y) /\ \A L : ~At(y, L)
        BY <1>4, <2>2 DEF Present, At
      <4> QED
        BY <4>1 DEF CompHeld
    <3>6. Cardinality(CompHeld') = comp + 1 /\ IsFiniteSet(CompHeld')
      BY <3>1, <3>5, FS_AddElement DEF CountInv
    <3> QED
      BY <1>1, <2>1, <3>4, <3>6 DEF CountInv
  <2>13. ArchiveInv'
    <3>1. \A u \in Threads : pc'[u] \notin Archiving /\ pc'[u] \notin {"rmdirs", "write"}
      BY <1>6, <2>1 DEF Archiving, ArchiveSteps
    <3> QED
      BY <1>1, <1>6, <3>1 DEF ArchiveInv
  <2>14. ResultInv'
    <3>1. \A u \in Srcs : objs[u] = "never" =>
            \/ InQueue(Compile(u))' \/ At(Compile(u), CompileSteps)'
            \/ At(SetupTask, {"postcomp"})' /\ u \in todo'
      BY <1>2, <1>3, <2>1, <2>2, <2>4 DEF ResultInv
    <3>2. comp' > 0
      BY <1>5, <2>1 DEF TypeOK
    <3>3. \A d \in crts : crtResult[d] = "never" =>
            \/ InQueue(BuildCrt(d))' \/ At(BuildCrt(d), {"start"})'
      <4>1. ~At(SetupTask, {"postcrt"})
        BY <1>1, <1>2
      <4> QED
        BY <1>2, <2>4, <4>1 DEF ResultInv
    <3> QED
      BY <1>1, <3>1, <3>2, <3>3 DEF ResultInv
  <2>15. FinishInv'
    BY <1>2, <2>4, <2>5 DEF FinishInv
  <2>16. DoneInv'
    BY <1>1, <1>2 DEF DoneInv
  <2>17. CleanInv'
    BY <1>1, <1>2, <2>1, <2>4 DEF CleanInv
  <2>18. TypeOK'
    <3>1. comp' \in Nat /\ todo' \subseteq Srcs \cup Crt
      BY <2>1 DEF TypeOK
    <3> QED
      BY <1>1, <2>1, <2>3, <3>1 DEF TypeOK
  <2> QED
    BY <2>3, <2>7, <2>8, <2>9, <2>10, <2>11, <2>12, <2>13, <2>14, <2>15, <2>16, <2>17, <2>18
<1>8. CASE todo = {} /\ pc' = [pc EXCEPT ![t] = "dropcomp"] /\ UNCHANGED <<queue, comp, todo>>
  <2>1. PICK l : l = "dropcomp" /\ pc' = [pc EXCEPT ![t] = l]
    BY <1>8
  <2>2. PICK k \in Tasks : k = SetupTask /\ task[t] = k /\ k.job = "setup"
    BY <1>2
  <2>3. /\ \A x : InQueue(x)' <=> InQueue(x)
        /\ \A x : Present(x)' <=> Present(x)
        /\ \A x, L : x # k => (At(x, L)' <=> At(x, L))
        /\ \A L : At(k, L) <=> pc[t] \in L
        /\ \A L : At(k, L)' <=> l \in L
        /\ \A u \in Threads : pc'[u] = IF u = t THEN l ELSE pc[u]
    <3>1. TypeOK /\ UniqInv /\ UNCHANGED <<queue, task>>
      BY <1>1, <1>8
    <3>2. Moved(t, k, l)
      BY <2>1, <2>2, <3>1, Move
    <3> QED
      BY <3>2 DEF Moved
  <2>4. ~Unstarted' /\ ~Early'
    BY <1>1, <1>2, <2>1, <2>2, <2>3 DEF Early, Unstarted
  <2>5. \A x \in Tasks : x # SetupTask => \A L : At(x, L)' <=> At(x, L)
    BY <2>2, <2>3
  <2>6. \A s \in Srcs : \A L : At(Compile(s), L)' <=> At(Compile(s), L)
    BY <2>5, TaskFacts
  <2>7. JobInv'
    BY <1>1, <2>1, <2>2, <2>3 DEF JobInv, SetupSteps, CompileSteps, Archiving, ArchiveSteps
  <2>8. UniqInv'
    BY <1>1, <1>8 DEF UniqInv
  <2>9. \A u \in Threads : /\ pc'[u] \notin {"layout", "postcrt", "postcomp", "rmdirs", "write"}
                           /\ pc'[u] \notin Archiving
    BY <1>2, <1>6, <2>1, <2>3 DEF SetupSteps, Archiving, ArchiveSteps
  <2>10. StartInv'
    BY <1>1, <1>2, <2>3, <2>9 DEF StartInv, Unstarted
  <2>11. EarlyInv'
    BY <2>4 DEF EarlyInv
  <2>12. TodoInv'
    BY <2>9 DEF TodoInv
  <2>13. StoredInv'
    BY <1>1, <2>3, <2>6 DEF StoredInv
  <2>14. CountInv'
    <3>1. CompHeld' = CompHeld
      <4>1. \A x \in Tasks : At(x, HoldsComp)' <=> At(x, HoldsComp)
        BY <1>1, <2>1, <2>3 DEF HoldsComp
      <4> QED
        BY <2>3, <4>1 DEF CompHeld
    <3>2. ClosureAlive' /\ ClosureAlive
      BY <1>5, <3>1 DEF ClosureAlive
    <3>3. \A x \in Tasks : HoldsStep(x)' <=> HoldsStep(x)
      <4> SUFFICES ASSUME NEW x \in Tasks
                   PROVE  HoldsStep(x)' <=> HoldsStep(x)
        OBVIOUS
      <4>1. CASE x = k
        BY <1>1, <2>1, <2>2, <2>3, <4>1 DEF HoldsStep, SetupHolds
      <4>2. CASE x # k
        BY <2>3, <4>2 DEF HoldsStep
      <4> QED
        BY <4>1, <4>2
    <3>4. StepHeld' = StepHeld
      BY <3>2, <3>3 DEF StepHeld
    <3> QED
      BY <1>1, <1>8, <3>1, <3>4 DEF CountInv
  <2>15. ArchiveInv'
    BY <1>1, <1>6, <2>9 DEF ArchiveInv
  <2>16. ResultInv'
    <3>1. \A u \in Srcs : objs[u] = "never" =>
            \/ InQueue(Compile(u))' \/ At(Compile(u), CompileSteps)'
      BY <1>2, <1>3, <1>8, <2>3, <2>6 DEF ResultInv
    <3>2. \A d \in crts : crtResult[d] = "never" =>
            InQueue(BuildCrt(d))' \/ At(BuildCrt(d), {"start"})'
      <4>1. \A d \in crts : BuildCrt(d) \in Tasks /\ BuildCrt(d) # SetupTask
        BY TaskFacts DEF TypeOK
      <4>2. ~At(SetupTask, {"postcrt"})
        BY <1>1, <1>2
      <4> QED
        BY <1>2, <2>3, <2>5, <4>1, <4>2 DEF ResultInv
    <3> QED
      BY <1>1, <1>5, <1>8, <3>1, <3>2 DEF ResultInv
  <2>17. FinishInv'
    BY <1>2, <2>3 DEF FinishInv
  <2>18. DoneInv'
    BY <1>1, <1>2 DEF DoneInv
  <2>19. CleanInv'
    <3>1. objFiles \subseteq Srcs
      BY DEF TypeOK
    <3> QED
      BY <1>1, <1>2, <2>6, <2>9, <3>1 DEF CleanInv
  <2>20. TypeOK'
    <3>1. pc' \in [Threads -> PCs]
      BY <2>1 DEF TypeOK, PCs
    <3> QED
      BY <1>1, <1>8, <3>1 DEF TypeOK
  <2> QED
    BY <2>7, <2>8, <2>10, <2>11, <2>12, <2>13, <2>14, <2>15, <2>16, <2>17, <2>18, <2>19, <2>20
<1> QED
  BY <1>7, <1>8 DEF PostCompile, Goto

----------------------------------------------------------------------------
(* Latch::Dec                                                               *)

\* The last handle of a latch is that of the only holder.
LEMMA LastHandle ==
  ASSUME NEW S, IsFiniteSet(S), NEW h \in S
  PROVE  /\ IsFiniteSet(S \ {h}) /\ Cardinality(S \ {h}) = Cardinality(S) - 1
         /\ Cardinality(S) \in Nat /\ Cardinality(S) > 0
         /\ Cardinality(S) = 1 => S = {h}
<1>1. IsFiniteSet(S \ {h}) /\ Cardinality(S \ {h}) = Cardinality(S) - 1
  BY FS_RemoveElement
<1>2. Cardinality(S) \in Nat /\ Cardinality(S \ {h}) \in Nat
  BY <1>1, FS_CardinalityType
<1>3. Cardinality(S) = 1 => S \ {h} = {}
  BY <1>1, FS_EmptySet
<1> QED
  BY <1>1, <1>2, <1>3

\* The compile that is through last, or Setup, finishes the archive.
LEMMA DropCompInv ==
  ASSUME IInv, NEW t \in Threads, DropComp(t)
  PROVE  IInv'
<1> USE DEF IInv
<1>1. /\ pc[t] = "dropcomp" /\ comp' = comp - 1
      /\ UNCHANGED <<resource, crts, main, result, queue, task, todo, step, objs, crtResult,
                     archive, mu, objDirs, left, made, objFiles, alive, ignored>>
  BY DEF DropComp, results, files
<1>2. PICK k \in Tasks : task[t] = k /\ k.job \in {"compile", "setup"}
  BY <1>1 DEF JobInv, TypeOK
<1>3. PICK l : /\ pc' = [pc EXCEPT ![t] = l]
               /\ l = IF comp = 1 THEN "members" ELSE IF k = SetupTask THEN "dropstep" ELSE "ret"
  BY <1>2 DEF DropComp, Goto
<1>4. /\ \A x : InQueue(x)' <=> InQueue(x)
      /\ \A x : Present(x)' <=> Present(x)
      /\ \A x, L : x # k => (At(x, L)' <=> At(x, L))
      /\ \A L : At(k, L) <=> pc[t] \in L
      /\ \A L : At(k, L)' <=> l \in L
      /\ \A u \in Threads : pc'[u] = IF u = t THEN l ELSE pc[u]
  <2>1. TypeOK /\ UniqInv /\ UNCHANGED <<queue, task>>
    BY <1>1
  <2>2. Moved(t, k, l)
    BY <1>2, <1>3, <2>1, Move
  <2> QED
    BY <2>2 DEF Moved
<1>5. /\ result = "unfinished" /\ main # "construct" /\ main # "done" /\ ~NoBuild
      /\ ~InQueue(SetupTask)
      /\ \A u \in Threads : u # t => pc[u] # "layout"
  <2>1. Busy(t)
    BY <1>1, <1>2, TaskFacts DEF Busy
  <2> QED
    BY <2>1, BusyFacts
<1>6. k \in CompHeld
  BY <1>1, <1>4 DEF CompHeld, HoldsComp
<1>7. /\ IsFiniteSet(CompHeld \ {k}) /\ Cardinality(CompHeld \ {k}) = comp - 1
      /\ comp \in Nat /\ comp > 0 /\ (comp = 1 => CompHeld = {k})
  BY <1>6, LastHandle DEF CountInv
<1>8. archive = "never" /\ \A u \in Threads : pc[u] \notin Archiving
  BY <1>7 DEF ArchiveInv
<1>9. \A x, L : L \in SUBSET {"layout", "postcrt", "initcomp", "postcomp", "start", "read", "unlink"}
          => (At(x, L)' <=> At(x, L))
  <2> SUFFICES ASSUME NEW x,
                      NEW L \in SUBSET {"layout", "postcrt", "initcomp", "postcomp", "start",
                                        "read", "unlink"}
               PROVE  At(x, L)' <=> At(x, L)
    OBVIOUS
  <2>1. l \notin L /\ pc[t] \notin L
    BY <1>1, <1>3
  <2> QED
    BY <1>4, <2>1
<1>10. \A x : At(x, CompileSteps)' <=> At(x, CompileSteps)
  <2>1. l \notin CompileSteps /\ pc[t] \notin CompileSteps
    BY <1>1, <1>3 DEF CompileSteps
  <2> QED
    BY <1>4, <2>1
<1>11. /\ ~Unstarted /\ ~Unstarted' /\ (Early' <=> Early)
  <2>1. ~At(SetupTask, {"layout"})
    BY <1>1, <1>5 DEF At
  <2> QED
    BY <1>1, <1>4, <1>5, <1>9, <2>1 DEF Early, Unstarted
<1>12. JobInv'
  <2>1. k # None /\ (k = SetupTask => k.job = "setup")
    BY TaskFacts
  <2> QED
    BY <1>1, <1>2, <1>3, <1>4, <2>1
       DEF JobInv, SetupSteps, CompileSteps, Archiving, ArchiveSteps
<1>13. UniqInv'
  BY <1>1 DEF UniqInv
<1>14. \A u \in Threads : pc'[u] \in {"layout", "postcrt", "postcomp", "rmdirs", "write"} =>
         pc'[u] = pc[u]
  BY <1>3, <1>4
<1>15. StartInv'
  BY <1>1, <1>4, <1>5, <1>14 DEF StartInv
<1>16. EarlyInv'
  BY <1>1, <1>4, <1>11 DEF EarlyInv
<1>17. TodoInv'
  BY <1>1, <1>4, <1>14 DEF TodoInv
<1>18. StoredInv'
  BY <1>1, <1>4, <1>10 DEF StoredInv
<1>19. CountInv'
  <2>1. CompHeld' = CompHeld \ {k}
    <3>1. l \notin HoldsComp
      BY <1>3 DEF HoldsComp, CompileSteps
    <3>2. ~InQueue(k)
      BY <1>2, AtThread
    <3>3. \A x \in Tasks : x # k => (At(x, HoldsComp)' <=> At(x, HoldsComp))
      BY <1>4
    <3>4. ~At(k, HoldsComp)' /\ ~InQueue(k)'
      BY <1>4, <3>1, <3>2
    <3>5. \A x \in Tasks : x # k => (x \in CompHeld' <=> x \in CompHeld)
      BY <1>4, <3>3 DEF CompHeld
    <3>6. k \notin CompHeld'
      BY <3>4 DEF CompHeld
    <3>7. CompHeld' \subseteq Tasks /\ CompHeld \subseteq Tasks
      BY DEF CompHeld
    <3> QED
      BY <3>5, <3>6, <3>7
  <2>2. ClosureAlive' /\ ClosureAlive
    <3>1. ClosureAlive
      BY <1>6 DEF ClosureAlive
    <3>2. CASE comp = 1
      <4>1. pc'[t] \in Archiving
        BY <1>3, <1>4, <3>2 DEF Archiving, ArchiveSteps
      <4> QED
        BY <3>1, <4>1 DEF ClosureAlive
    <3>3. CASE comp # 1
      <4>1. CompHeld' # {}
        <5>1. Cardinality(CompHeld') # 0
          BY <1>7, <2>1, <3>3
        <5> QED
          BY <5>1, FS_EmptySet
      <4> QED
        BY <3>1, <4>1 DEF ClosureAlive
    <3> QED
      BY <3>2, <3>3
  <2>3. \A x \in Tasks : HoldsStep(x)' <=> HoldsStep(x)
    <3> SUFFICES ASSUME NEW x \in Tasks
                 PROVE  HoldsStep(x)' <=> HoldsStep(x)
      OBVIOUS
    <3>1. CASE x = k
      <4>1. pc[t] \in SetupHolds /\ (k = SetupTask => l \in SetupHolds)
        BY <1>1, <1>3 DEF SetupHolds, Archiving, ArchiveSteps
      <4>2. k.job # "crt"
        BY <1>2
      <4> QED
        BY <1>4, <3>1, <4>1, <4>2 DEF HoldsStep
    <3>2. CASE x # k
      BY <1>4, <3>2 DEF HoldsStep
    <3> QED
      BY <3>1, <3>2
  <2>4. StepHeld' = StepHeld
    BY <2>2, <2>3 DEF StepHeld
  <2> QED
    BY <1>1, <1>7, <2>1, <2>4 DEF CountInv
<1>20. ArchiveInv'
  <2>1. \A u \in Threads : pc'[u] \in Archiving => u = t /\ comp' = 0
    <3> SUFFICES ASSUME NEW u \in Threads, pc'[u] \in Archiving
                 PROVE  u = t /\ comp' = 0
      OBVIOUS
    <3>1. u = t
      BY <1>4, <1>8
    <3>2. l \in Archiving
      BY <1>4, <3>1
    <3>3. comp = 1
      BY <1>3, <3>2 DEF Archiving, ArchiveSteps
    <3> QED
      BY <1>1, <3>1, <3>3
  <2>2. \A u \in Threads : pc'[u] \notin {"rmdirs", "write"}
    BY <1>8, <1>14 DEF Archiving, ArchiveSteps
  <2> QED
    BY <1>1, <1>8, <2>1, <2>2 DEF ArchiveInv
<1>21. ResultInv'
  <2>1. \A s \in Srcs : objs'[s] = "never" =>
          \/ Early' \/ InQueue(Compile(s))' \/ At(Compile(s), CompileSteps)'
          \/ At(SetupTask, {"postcomp"})' /\ s \in todo'
    BY <1>1, <1>4, <1>5, <1>9, <1>10, <1>11 DEF ResultInv
  <2>2. comp' > 0 \/ \E u \in Threads : pc'[u] \in ArchiveSteps
    <3>1. CASE comp = 1
      BY <1>3, <1>4, <3>1 DEF ArchiveSteps
    <3>2. CASE comp # 1
      BY <1>1, <1>7, <3>2
    <3> QED
      BY <3>1, <3>2
  <2>3. \A c \in crts : crtResult[c] = "never" =>
          \/ InQueue(BuildCrt(c))' \/ At(BuildCrt(c), {"start"})'
          \/ At(SetupTask, {"postcrt"})' /\ c \in todo'
    BY <1>1, <1>4, <1>5, <1>9, <1>11 DEF ResultInv
  <2> QED
    BY <1>1, <2>1, <2>2, <2>3 DEF ResultInv
<1>22. FinishInv'
  BY <1>1, <1>4, <1>11 DEF FinishInv
<1>23. DoneInv'
  BY <1>1, <1>4, <1>5, <1>9, <1>11 DEF DoneInv
<1>24. CleanInv'
  BY <1>1, <1>5, <1>9, <1>14 DEF CleanInv
<1>25. TypeOK'
  <2>1. pc' \in [Threads -> PCs]
    BY <1>3 DEF TypeOK, PCs, ArchiveSteps
  <2>2. comp' \in Nat
    BY <1>1, <1>7
  <2> QED
    BY <1>1, <2>1, <2>2 DEF TypeOK
<1> QED
  BY <1>12, <1>13, <1>15, <1>16, <1>17, <1>18, <1>19, <1>20, <1>21, <1>22, <1>23, <1>24, <1>25

\* Whoever drops the last step handle posts the builder's Finish.
LEMMA DropStepInv ==
  ASSUME IInv, NEW t \in Threads, DropStep(t)
  PROVE  IInv'
<1> USE DEF IInv
<1>1. /\ pc[t] \in {"dropclosure", "dropstep"} /\ step' = step - 1
      /\ UNCHANGED <<resource, crts, main, result, task, todo, comp, objs, crtResult,
                     archive, mu, objDirs, left, made, objFiles, alive, ignored>>
  BY DEF DropStep, results, files
<1>2. PICK k \in Tasks : /\ task[t] = k /\ k.job \in {"compile", "setup", "crt"}
                         /\ pc[t] = "dropstep" => k.job \in {"crt", "setup"}
                         /\ pc[t] = "dropclosure" => k.job \in {"compile", "setup"}
  BY <1>1 DEF JobInv, TypeOK, Archiving
<1>3. PICK l : /\ pc' = [pc EXCEPT ![t] = l] /\ l \in {"ret", "dropstep"}
               /\ l = "dropstep" <=> pc[t] = "dropclosure" /\ k = SetupTask
  <2>1. PICK l : /\ pc' = [pc EXCEPT ![t] = l]
                 /\ l = IF pc[t] = "dropclosure" /\ k = SetupTask THEN "dropstep" ELSE "ret"
    BY <1>2 DEF DropStep, Goto
  <2>2. /\ l \in {"ret", "dropstep"}
        /\ l = "dropstep" <=> pc[t] = "dropclosure" /\ k = SetupTask
    BY <2>1
  <2> QED
    BY <2>1, <2>2
<1>4. /\ \A x, L : x # k => (At(x, L)' <=> At(x, L))
      /\ \A L : At(k, L) <=> pc[t] \in L
      /\ \A L : At(k, L)' <=> l \in L
      /\ \A u \in Threads : pc'[u] = IF u = t THEN l ELSE pc[u]
  <2>1. \A u \in Threads : pc'[u] = IF u = t THEN l ELSE pc[u]
    BY <1>3 DEF TypeOK
  <2>2. \A u \in Threads : task[u] = k => u = t
    BY <1>2, TaskFacts DEF UniqInv
  <2> QED
    BY <1>1, <1>2, <2>1, <2>2 DEF At
<1>5. /\ result = "unfinished" /\ main # "construct" /\ main # "done" /\ ~NoBuild
      /\ ~InQueue(SetupTask) /\ \A u \in Threads : pc[u] # "layout"
  <2>1. Busy(t) /\ pc[t] # "layout"
    BY <1>1, <1>2, TaskFacts DEF Busy
  <2> QED
    BY <2>1, BusyFacts
<1>6. ~Unstarted
  BY <1>5 DEF Unstarted, At
\* The handle, and who else has one.
<1>7. PICK h \in StepHeld :
        /\ pc[t] = "dropstep" => h = k
        /\ pc[t] = "dropclosure" => h = Closure /\ comp = 0
  <2>1. CASE pc[t] = "dropstep"
    <3>1. HoldsStep(k)
      <4>1. At(k, {"start", "dropstep"}) /\ At(k, SetupHolds)
        BY <1>4, <2>1 DEF SetupHolds
      <4> QED
        BY <1>2, <2>1, <4>1, TaskFacts DEF HoldsStep
    <3> QED
      BY <2>1, <3>1 DEF StepHeld
  <2>2. CASE pc[t] = "dropclosure"
    <3>1. ClosureAlive /\ comp = 0
      BY <2>2 DEF ClosureAlive, Archiving, ArchiveInv
    <3> QED
      BY <2>2, <3>1 DEF StepHeld
  <2> QED
    BY <1>1, <2>1, <2>2
<1>8. /\ IsFiniteSet(StepHeld \ {h}) /\ Cardinality(StepHeld \ {h}) = step - 1
      /\ step \in Nat /\ step > 0 /\ (step = 1 => StepHeld = {h})
  BY LastHandle DEF CountInv
<1>9. ~Present(FinishTask)
  BY <1>8 DEF FinishInv
<1>10. /\ UniqInv' /\ queue' \in Seq(Tasks)
       /\ \A x : InQueue(x)' <=> InQueue(x) \/ (step = 1 /\ x = FinishTask)
       /\ \A x : Present(x)' <=> Present(x) \/ (step = 1 /\ x = FinishTask)
  <2>1. CASE step = 1
    <3>1. queue' = Append(queue, FinishTask) /\ task' = task /\ FinishTask \in Tasks
      BY <1>1, <2>1, TaskFacts DEF DropStep
    <3>2. PICK y \in Tasks : y = FinishTask
      BY <3>1
    <3> QED
      BY <1>9, <2>1, <3>1, <3>2, PostUniq
  <2>2. CASE step # 1
    <3>1. queue' = queue /\ task' = task
      BY <1>1, <2>2 DEF DropStep
    <3> QED
      BY <2>2, <3>1 DEF UniqInv, TypeOK, InQueue, Present
  <2> QED
    BY <2>1, <2>2
<1>11. FinishTask # SetupTask /\ FinishTask.job = "finish" /\ FinishTask # None
       /\ (\A s \in Srcs : FinishTask # Compile(s)) /\ \A c \in Crt : FinishTask # BuildCrt(c)
  BY TaskFacts
<1>12. \A x, L : L \in SUBSET {"layout", "postcrt", "initcomp", "postcomp", "start", "read", "unlink"}
          => (At(x, L)' <=> At(x, L))
  <2> SUFFICES ASSUME NEW x,
                      NEW L \in SUBSET {"layout", "postcrt", "initcomp", "postcomp", "start",
                                        "read", "unlink"}
               PROVE  At(x, L)' <=> At(x, L)
    OBVIOUS
  <2>1. l \notin L /\ pc[t] \notin L
    BY <1>1, <1>3
  <2> QED
    BY <1>4, <2>1
<1>13. \A x : /\ At(x, CompileSteps)' <=> At(x, CompileSteps)
              /\ At(x, HoldsComp)' <=> At(x, HoldsComp)
  <2>1. /\ l \notin CompileSteps /\ pc[t] \notin CompileSteps
        /\ l \notin HoldsComp /\ pc[t] \notin HoldsComp
    BY <1>1, <1>3 DEF CompileSteps, HoldsComp
  <2> QED
    BY <1>4, <2>1
<1>14. ~Unstarted' /\ (Early' <=> Early)
  BY <1>1, <1>5, <1>6, <1>10, <1>11, <1>12 DEF Early, Unstarted
<1>15. JobInv'
  <2>1. k # None /\ (k = SetupTask => k.job = "setup")
    BY TaskFacts
  <2> QED
    BY <1>1, <1>2, <1>3, <1>4, <2>1
       DEF JobInv, SetupSteps, CompileSteps, Archiving, ArchiveSteps
<1>16. \A u \in Threads : pc'[u] \in {"layout", "postcrt", "postcomp", "rmdirs", "write"} =>
         pc'[u] = pc[u]
  BY <1>3, <1>4
<1>17. StartInv'
  <2>1. \A u \in Threads : pc'[u] # "layout"
    BY <1>5, <1>16
  <2>2. ~InQueue(SetupTask)'
    BY <1>5, <1>10, <1>11
  <2> QED
    BY <1>1, <1>5, <2>1, <2>2 DEF StartInv
<1>18. EarlyInv'
  BY <1>1, <1>10, <1>11, <1>14 DEF EarlyInv
<1>19. TodoInv'
  <2>1. crts \subseteq Crt
    BY DEF TypeOK
  <2> QED
    BY <1>1, <1>10, <1>11, <1>16, <2>1 DEF TodoInv
<1>20. StoredInv'
  BY <1>1, <1>10, <1>11, <1>13 DEF StoredInv
<1>21. CountInv'
  <2>1. CompHeld' = CompHeld
    BY <1>10, <1>11, <1>13 DEF CompHeld
  <2>2. \A x \in Tasks : HoldsStep(x)' <=> HoldsStep(x) /\ x # h
    <3> SUFFICES ASSUME NEW x \in Tasks
                 PROVE  HoldsStep(x)' <=> HoldsStep(x) /\ x # h
      OBVIOUS
    <3>1. x = h => x = k /\ pc[t] = "dropstep"
      BY <1>1, <1>7, TaskFacts
    <3>2. CASE x # k
      BY <1>4, <1>10, <1>11, <3>1, <3>2 DEF HoldsStep
    <3>3. CASE x = k /\ pc[t] = "dropstep"
      <4>1. l = "ret" /\ x = h /\ ~InQueue(x)
        BY <1>2, <1>3, <1>7, <3>3, AtThread
      <4>2. l \notin SetupHolds /\ l \notin {"start", "dropstep"}
        BY <4>1 DEF SetupHolds, Archiving, ArchiveSteps
      <4>3. ~At(x, SetupHolds)' /\ ~At(x, {"start", "dropstep"})' /\ ~InQueue(x)'
        <5>1. x # FinishTask
          BY <1>2, <1>11, <3>3
        <5> QED
          BY <1>4, <1>10, <3>3, <4>1, <4>2, <5>1
      <4> QED
        BY <4>1, <4>3 DEF HoldsStep
    <3>4. CASE x = k /\ pc[t] = "dropclosure"
      <4>1. x # h /\ x.job # "crt"
        BY <1>2, <3>1, <3>4
      <4>2. x = SetupTask => At(x, SetupHolds) /\ At(x, SetupHolds)'
        <5>1. pc[t] \in SetupHolds /\ (x = SetupTask => l \in SetupHolds)
          BY <1>3, <3>4 DEF SetupHolds, Archiving
        <5> QED
          BY <1>4, <3>4, <5>1
      <4> QED
        BY <4>1, <4>2 DEF HoldsStep
    <3> QED
      BY <1>1, <3>2, <3>3, <3>4
  <2>3. ClosureAlive' <=> ClosureAlive /\ Closure # h
    <3>1. CASE pc[t] = "dropstep"
      <4>1. Closure # h
        BY <1>7, <3>1, TaskFacts
      <4>2. \A u \in Threads : pc'[u] \in Archiving <=> pc[u] \in Archiving
        BY <1>3, <1>4, <3>1 DEF Archiving, ArchiveSteps
      <4> QED
        BY <2>1, <4>1, <4>2 DEF ClosureAlive
    <3>2. CASE pc[t] = "dropclosure"
      <4>1. Closure = h /\ CompHeld = {}
        BY <1>7, <3>2, NoHandles
      <4>2. \A u \in Threads : pc'[u] \notin Archiving
        <5>1. pc[t] \in Archiving /\ l \notin Archiving
          BY <1>3, <3>2 DEF Archiving, ArchiveSteps
        <5> QED
          BY <1>4, <5>1 DEF ArchiveInv
      <4> QED
        BY <2>1, <4>1, <4>2 DEF ClosureAlive
    <3> QED
      BY <1>1, <3>1, <3>2
  <2>4. StepHeld' = StepHeld \ {h}
    BY <2>2, <2>3 DEF StepHeld
  <2> QED
    BY <1>1, <1>8, <2>1, <2>4 DEF CountInv
<1>22. ArchiveInv'
  <2>1. \A u \in Threads : pc'[u] \in Archiving => pc'[u] = pc[u]
    BY <1>3, <1>4 DEF Archiving, ArchiveSteps
  <2> QED
    BY <1>1, <1>16, <2>1 DEF ArchiveInv
<1>23. ResultInv'
  <2>1. \A s \in Srcs : objs'[s] = "never" =>
          \/ Early' \/ InQueue(Compile(s))' \/ At(Compile(s), CompileSteps)'
          \/ At(SetupTask, {"postcomp"})' /\ s \in todo'
    BY <1>1, <1>5, <1>10, <1>12, <1>13, <1>14 DEF ResultInv
  <2>2. archive' = "never" => Early' \/ comp' > 0 \/ \E u \in Threads : pc'[u] \in ArchiveSteps
    <3>1. \A u \in Threads : pc[u] \in ArchiveSteps => pc'[u] = pc[u]
      BY <1>1, <1>4 DEF ArchiveSteps
    <3> QED
      BY <1>1, <1>5, <1>14, <3>1 DEF ResultInv
  <2>3. \A c \in crts : crtResult[c] = "never" =>
          \/ InQueue(BuildCrt(c))' \/ At(BuildCrt(c), {"start"})'
          \/ At(SetupTask, {"postcrt"})' /\ c \in todo'
    BY <1>1, <1>5, <1>6, <1>10, <1>12 DEF ResultInv
  <2> QED
    BY <1>1, <2>1, <2>2, <2>3 DEF ResultInv
<1>24. FinishInv'
  <2> SUFFICES ASSUME Present(FinishTask)'
               PROVE  /\ step' = 0 /\ ~Unstarted' /\ archive' # "never"
                      /\ \A c \in crts' : crtResult'[c] # "never"
    BY DEF FinishInv
  <2>1. step = 1 /\ StepHeld = {h}
    BY <1>8, <1>9, <1>10
  <2>2. ~At(SetupTask, {"postcrt", "initcomp"}) /\ ~At(SetupTask, {"postcrt"})
    <3> SUFFICES ASSUME At(SetupTask, {"postcrt", "initcomp"})
                 PROVE  FALSE
      BY DEF At
    <3>1. SetupTask \in StepHeld
      BY TaskFacts DEF StepHeld, HoldsStep, SetupHolds, At
    <3>2. h = SetupTask /\ k = SetupTask
      BY <1>1, <1>7, <2>1, <3>1, TaskFacts
    <3> QED
      BY <1>1, <1>4, <3>2
  <2>3. ~Early
    BY <1>6, <2>2 DEF Early
  <2>4. comp = 0 /\ \A u \in Threads : pc[u] \notin ArchiveSteps
    <3>1. CASE pc[t] = "dropclosure"
      <4>1. pc[t] \in Archiving /\ pc[t] \notin ArchiveSteps
        BY <3>1 DEF Archiving, ArchiveSteps
      <4> QED
        BY <1>7, <3>1, <4>1 DEF ArchiveInv, Archiving
    <3>2. CASE pc[t] = "dropstep"
      <4>1. Closure \notin StepHeld
        BY <1>7, <2>1, <3>2, TaskFacts
      <4>2. ~ClosureAlive
        BY <4>1 DEF StepHeld
      <4> QED
        BY <4>2, NoHandles DEF ClosureAlive, Archiving
    <3> QED
      BY <1>1, <3>1, <3>2
  <2>5. archive # "never"
    BY <1>5, <2>3, <2>4 DEF ResultInv
  <2>6. ASSUME NEW c \in crts, crtResult[c] = "never"
        PROVE  FALSE
    <3>1. PICK y \in Tasks : y = BuildCrt(c) /\ y.job = "crt"
      BY TaskFacts DEF TypeOK
    <3>2. InQueue(y) \/ At(y, {"start"})
      BY <1>5, <1>6, <2>2, <2>6, <3>1 DEF ResultInv
    <3>3. y \in StepHeld
      BY <3>1, <3>2 DEF StepHeld, HoldsStep, At
    <3>4. h = y /\ h # Closure
      BY <2>1, <3>1, <3>3, TaskFacts
    <3>5. y = k /\ pc[t] = "dropstep"
      BY <1>1, <1>7, <3>4
    <3>6. ~InQueue(y)
      BY <1>2, <3>5, AtThread
    <3> QED
      BY <1>4, <3>2, <3>5, <3>6
  <2> QED
    BY <1>1, <1>14, <2>1, <2>5, <2>6
<1>25. DoneInv'
  <2>1. step' > 0 \/ InQueue(FinishTask)'
    BY <1>1, <1>8, <1>10
  <2> QED
    BY <1>1, <1>5, <2>1 DEF DoneInv
<1>26. CleanInv'
  BY <1>1, <1>5, <1>12, <1>16 DEF CleanInv
<1>27. TypeOK'
  <2>1. pc' \in [Threads -> PCs]
    BY <1>3 DEF TypeOK, PCs
  <2>2. step' \in Nat
    BY <1>1, <1>8
  <2> QED
    BY <1>1, <1>10, <2>1, <2>2 DEF TypeOK
<1> QED
  BY <1>10, <1>15, <1>17, <1>18, <1>19, <1>20, <1>21, <1>22, <1>23, <1>24, <1>25, <1>26, <1>27

----------------------------------------------------------------------------
(* The pool and the constructing thread                                     *)

\* What thread t, which was free, starts is the task h that was in the queue.
Taken(t, h, l) ==
  /\ \A x \in Tasks : x # h => (InQueue(x)' <=> InQueue(x))
  /\ \A x \in Tasks : Present(x)' <=> Present(x)
  /\ \A x \in Tasks : x # h => \A L : At(x, L)' <=> At(x, L)
  /\ InQueue(h) /\ ~InQueue(h)' /\ (\A L : ~At(h, L)) /\ (\A L : At(h, L)' <=> l \in L)
  /\ \A u \in Threads : pc'[u] = IF u = t THEN l ELSE pc[u]
  /\ \A u \in Threads : task'[u] = IF u = t THEN h ELSE task[u]

\* That is what a free thread of the pool does.
LEMMA Take ==
  ASSUME TypeOK, UniqInv, NEW t \in Threads, task[t] = None, queue # <<>>,
         NEW h, h = Head(queue), NEW l, queue' = Tail(queue),
         task' = [task EXCEPT ![t] = h], pc' = [pc EXCEPT ![t] = l]
  PROVE  h \in Tasks /\ Taken(t, h, l) /\ UniqInv' /\ queue' \in Seq(Tasks)
<1>1. /\ h \in Tasks /\ InQueue(h) /\ ~InQueue(h)'
      /\ \A x : x # h => (InQueue(x)' <=> InQueue(x))
      /\ \A m, n \in 1..Len(queue') : queue'[m] = queue'[n] => m = n
  BY QueueTail
<1>2. /\ \A u \in Threads : pc'[u] = IF u = t THEN l ELSE pc[u]
      /\ \A u \in Threads : task'[u] = IF u = t THEN h ELSE task[u]
  BY DEF TypeOK
<1>3. \A u \in Threads : task[u] # h
  BY <1>1 DEF UniqInv, InQueue
<1>4. \A x \in Tasks : x # None
  BY TaskFacts
<1>5. \A x \in Tasks : x # h => \A L : At(x, L)' <=> At(x, L)
  BY <1>2, <1>4 DEF At
<1>6. \A L : ~At(h, L) /\ (At(h, L)' <=> l \in L)
  BY <1>2, <1>3 DEF At
<1>7. \A x \in Tasks : Present(x)' <=> Present(x)
  BY <1>1, <1>2, <1>4 DEF Present
<1>8. \A u, v \in Threads : task'[u] = task'[v] /\ task'[u] # None => u = v
  BY <1>2, <1>3 DEF UniqInv
<1>9. queue' \in Seq(Tasks)
  BY DEF TypeOK
<1>10. \A m \in 1..Len(queue'), u \in Threads : queue'[m] # task'[u]
  <2> SUFFICES ASSUME NEW m \in 1..Len(queue'), NEW u \in Threads, queue'[m] = task'[u]
               PROVE  FALSE
    OBVIOUS
  <2>1. PICK x : x = queue'[m]
    OBVIOUS
  <2>2. InQueue(x)'
    BY <2>1 DEF InQueue
  <2>3. InQueue(x) /\ x # h
    BY <1>1, <2>2
  <2> QED
    BY <1>2, <2>1, <2>3 DEF UniqInv, InQueue
<1> QED
  BY <1>1, <1>2, <1>5, <1>6, <1>7, <1>8, <1>9, <1>10 DEF Taken, UniqInv

\* Setup starts, and is then the only task.
LEMMA TakeSetup ==
  ASSUME IInv, NEW t \in Threads, TakeTask(t), Head(queue) = SetupTask
  PROVE  IInv'
<1> USE DEF IInv
<1>1. /\ task[t] = None /\ queue # <<>> /\ todo' = crts
      /\ step' = IF resource THEN step ELSE 1
      /\ UNCHANGED <<resource, crts, main, result, comp, objs, crtResult, archive, mu,
                     objDirs, left, made, objFiles, alive, ignored>>
  BY TaskFacts DEF TakeTask, results, files
<1>2. PICK h : h = SetupTask /\ h = Head(queue) /\ h \in Tasks
  BY TaskFacts
<1>3. PICK l : /\ queue' = Tail(queue) /\ task' = [task EXCEPT ![t] = h]
               /\ pc' = [pc EXCEPT ![t] = l] /\ l = IF resource THEN "layout" ELSE "postcrt"
  BY <1>2, TaskFacts DEF TakeTask, FirstStep, Goto
<1>4. h \in Tasks /\ Taken(t, h, l) /\ UniqInv' /\ queue' \in Seq(Tasks)
  BY <1>1, <1>2, <1>3, Take
<1>5. /\ \A x \in Tasks : x # h => (InQueue(x)' <=> InQueue(x))
      /\ \A x \in Tasks : Present(x)' <=> Present(x)
      /\ \A x \in Tasks : x # h => \A L : At(x, L)' <=> At(x, L)
      /\ InQueue(h) /\ ~InQueue(h)' /\ (\A L : ~At(h, L)) /\ (\A L : At(h, L)' <=> l \in L)
      /\ \A u \in Threads : pc'[u] = IF u = t THEN l ELSE pc[u]
      /\ \A u \in Threads : task'[u] = IF u = t THEN h ELSE task[u]
  BY <1>4 DEF Taken
<1>6. main # "construct" /\ Len(queue) = 1 /\ \A u \in Threads : task[u] = None
  BY <1>2, <1>5 DEF StartInv
<1>7. queue' = <<>>
  BY <1>1, <1>3, <1>6 DEF TypeOK
<1>8. (\A x : ~InQueue(x)') /\ \A x : InQueue(x) => x = h
  <2>1. \A x : ~InQueue(x)'
    BY <1>7 DEF InQueue
  <2>2. \A x : InQueue(x) => x \in Tasks
    BY DEF InQueue, TypeOK
  <2> QED
    BY <1>5, <2>1, <2>2
<1>9. /\ \A u \in Threads : pc[u] = "free"
      /\ \A x \in Tasks : \A L : ~At(x, L)
  <2>1. \A x \in Tasks : x # None
    BY TaskFacts
  <2> QED
    BY <1>6, <2>1 DEF JobInv, At
<1>10. \A x \in Tasks : x # h => ~Present(x) /\ ~Present(x)' /\ \A L : ~At(x, L)'
  <2>1. \A x \in Tasks : x # None
    BY TaskFacts
  <2> QED
    BY <1>5, <1>6, <1>8, <1>9, <2>1 DEF Present
<1>11. Early /\ Early' /\ main # "construct" /\ main # "done" /\ result = "unfinished"
  <2>1. Early
    BY <1>2, <1>5 DEF Early, Unstarted
  <2>2. Early'
    BY <1>2, <1>3, <1>5 DEF Early, Unstarted
  <2>3. result = "unfinished"
    BY <1>1 DEF DoneInv
  <2>4. main # "done"
    BY <2>3 DEF DoneInv
  <2> QED
    BY <1>6, <2>1, <2>2, <2>3, <2>4
<1>12. (\A s \in Srcs : objs[s] = "never") /\ archive = "never"
  BY <1>11 DEF EarlyInv
<1>13. /\ \A u \in Threads : u # t => pc'[u] = "free"
       /\ pc'[t] = l /\ l \in {"layout", "postcrt"}
  BY <1>3, <1>5, <1>9
<1>14. \A u \in Threads : /\ pc'[u] \notin Archiving
                          /\ pc'[u] \notin {"postcomp", "rmdirs", "write"}
  BY <1>13 DEF Archiving, ArchiveSteps
<1>15. JobInv'
  BY <1>2, <1>5, <1>6, <1>13, TaskFacts
     DEF JobInv, SetupSteps, CompileSteps, Archiving, ArchiveSteps
<1>16. StartInv'
  <2>1. \A u \in Threads \ {t} : task'[u] = None
    BY <1>5, <1>6
  <2> QED
    BY <1>1, <1>7, <1>8, <1>11, <1>13, <2>1 DEF StartInv
<1>17. EarlyInv'
  BY <1>1, <1>2, <1>10, <1>12, TaskFacts DEF EarlyInv
<1>18. TodoInv'
  <2>1. \A c \in crts : ~Present(BuildCrt(c))'
    BY <1>2, <1>10, TaskFacts DEF TypeOK
  <2> QED
    BY <1>1, <1>14, <2>1 DEF TodoInv
<1>19. StoredInv'
  BY <1>1, <1>12 DEF StoredInv
<1>20. CountInv' /\ (l = "postcrt" => step' = 1)
  <2>1. CompHeld = {} /\ CompHeld' = {}
    <3>1. l \notin HoldsComp
      BY <1>13 DEF HoldsComp, CompileSteps
    <3>2. \A x \in Tasks : ~At(x, HoldsComp)'
      BY <1>5, <1>10, <3>1
    <3>3. \A x \in Tasks : x.job = "compile" => ~InQueue(x)
      BY <1>2, <1>8, TaskFacts
    <3> QED
      BY <1>8, <1>9, <3>2, <3>3 DEF CompHeld
  <2>2. ~ClosureAlive /\ ~ClosureAlive'
    BY <1>9, <1>14, <2>1 DEF ClosureAlive, Archiving, ArchiveSteps
  <2>3. \A x \in Tasks : ~HoldsStep(x) /\ (x # h => ~HoldsStep(x)')
    BY <1>2, <1>8, <1>9, <1>10, TaskFacts DEF HoldsStep
  <2>4. HoldsStep(h)' <=> l \in SetupHolds
    BY <1>2, <1>5, TaskFacts DEF HoldsStep
  <2>5. StepHeld = {}
    BY <2>2, <2>3 DEF StepHeld
  <2>6. CASE resource
    <3>1. l = "layout" /\ step' = step
      BY <1>1, <1>3, <2>6
    <3>2. l \notin SetupHolds
      BY <3>1 DEF SetupHolds, Archiving, ArchiveSteps
    <3>3. StepHeld' = {}
      BY <1>2, <2>2, <2>3, <2>4, <3>2 DEF StepHeld
    <3> QED
      BY <1>1, <2>1, <2>5, <3>1, <3>3 DEF CountInv
  <2>7. CASE ~resource
    <3>1. l = "postcrt" /\ step' = 1
      BY <1>1, <1>3, <2>7
    <3>2. l \in SetupHolds
      BY <3>1 DEF SetupHolds
    <3>3. StepHeld' = {h}
      BY <1>2, <2>2, <2>3, <2>4, <3>2 DEF StepHeld
    <3>4. Cardinality(StepHeld') = 1 /\ IsFiniteSet(StepHeld')
      BY <3>3, FS_Singleton
    <3> QED
      BY <1>1, <2>1, <3>1, <3>4 DEF CountInv
  <2> QED
    BY <2>6, <2>7
<1>21. ArchiveInv'
  BY <1>1, <1>12, <1>14 DEF ArchiveInv
<1>22. ResultInv'
  <2>1. CASE l = "layout"
    <3>1. Unstarted'
      BY <1>2, <1>5, <2>1 DEF Unstarted
    <3> QED
      BY <1>11, <3>1 DEF ResultInv
  <2>2. CASE l = "postcrt"
    <3>1. At(SetupTask, {"postcrt"})'
      BY <1>2, <1>5, <2>2
    <3> QED
      BY <1>1, <1>11, <3>1 DEF ResultInv
  <2> QED
    BY <1>13, <2>1, <2>2
<1>23. FinishInv'
  BY <1>2, <1>10, TaskFacts DEF FinishInv
<1>24. DoneInv'
  <2>1. Unstarted' \/ step' > 0
    BY <1>2, <1>5, <1>13, <1>20 DEF Unstarted
  <2> QED
    BY <1>1, <1>11, <2>1 DEF DoneInv
<1>25. CleanInv'
  <2>1. \A s \in objFiles : ~At(Compile(s), {"read", "unlink"})
    BY <1>9, TaskFacts DEF TypeOK
  <2> QED
    BY <1>1, <1>11, <1>12, <1>14, <2>1 DEF CleanInv
<1>26. TypeOK'
  <2>1. pc' \in [Threads -> PCs]
    BY <1>3, <1>13 DEF TypeOK, PCs, SetupSteps
  <2>2. task' \in [Threads -> Tasks \cup {None}]
    BY <1>3, <1>4 DEF TypeOK
  <2>3. step' \in Nat /\ todo' \subseteq Srcs \cup Crt
    BY <1>1 DEF TypeOK
  <2> QED
    BY <1>1, <1>4, <2>1, <2>2, <2>3 DEF TypeOK
<1> QED
  BY <1>4, <1>15, <1>16, <1>17, <1>18, <1>19, <1>20, <1>21, <1>22, <1>23, <1>24, <1>25, <1>26

\* Another task starts after Setup did.
LEMMA TakeOther ==
  ASSUME IInv, NEW t \in Threads, TakeTask(t), Head(queue) # SetupTask
  PROVE  IInv'
<1> USE DEF IInv
<1>1. PICK h : h = Head(queue) /\ h \in Tasks /\ h.job \in {"compile", "crt", "finish"}
  <2>1. Head(queue) \in Tasks
    BY DEF TakeTask, TypeOK
  <2> QED
    BY <2>1, TaskFacts
<1>2. /\ task[t] = None /\ queue # <<>> /\ queue' = Tail(queue)
      /\ task' = [task EXCEPT ![t] = h]
      /\ UNCHANGED <<resource, crts, main, result, todo, step, comp, objs, crtResult,
                     archive, mu, objDirs, left, made, objFiles, alive, ignored>>
  BY <1>1 DEF TakeTask, results, files
<1>3. PICK l : /\ pc' = [pc EXCEPT ![t] = l]
               /\ l = IF h.job = "compile" THEN "lockmu" ELSE "start"
  BY <1>1 DEF TakeTask, FirstStep, Goto
<1>4. h \in Tasks /\ Taken(t, h, l) /\ UniqInv' /\ queue' \in Seq(Tasks)
  BY <1>1, <1>2, <1>3, Take
<1>5. /\ \A x \in Tasks : x # h => (InQueue(x)' <=> InQueue(x))
      /\ \A x \in Tasks : Present(x)' <=> Present(x)
      /\ \A x \in Tasks : x # h => \A L : At(x, L)' <=> At(x, L)
      /\ InQueue(h) /\ ~InQueue(h)' /\ (\A L : ~At(h, L)) /\ (\A L : At(h, L)' <=> l \in L)
      /\ \A u \in Threads : pc'[u] = IF u = t THEN l ELSE pc[u]
      /\ \A u \in Threads : task'[u] = IF u = t THEN h ELSE task[u]
  BY <1>4 DEF Taken
<1>6. /\ SetupTask \in Tasks /\ h # SetupTask
      /\ \A L : At(SetupTask, L)' <=> At(SetupTask, L)
  <2>1. SetupTask \in Tasks /\ h # SetupTask
    BY <1>1, TaskFacts
  <2> QED
    BY <1>5, <2>1
<1>7. ~InQueue(SetupTask) /\ ~InQueue(SetupTask)'
  <2>1. ~InQueue(SetupTask)
    <3> SUFFICES ASSUME InQueue(SetupTask)
                 PROVE  FALSE
      OBVIOUS
    <3>1. Len(queue) = 1
      BY DEF StartInv
    <3>2. \A x : InQueue(x) => x = queue[1]
      BY <3>1 DEF InQueue
    <3> QED
      BY <1>5, <1>6, <3>2
  <2> QED
    BY <1>5, <1>6, <2>1
<1>8. /\ main # "construct" /\ main # "done" /\ result = "unfinished" /\ ~NoBuild
      /\ \A u \in Threads : pc[u] # "layout"
  <2>1. result = "unfinished" /\ ~NoBuild /\ main # "construct" /\ \A u \in Threads : pc[u] # "layout"
    BY <1>2 DEF DoneInv, NoBuild, StartInv
  <2> QED
    BY <2>1 DEF DoneInv
<1>9. ~Unstarted /\ ~Unstarted' /\ (Early' <=> Early)
  <2>1. ~At(SetupTask, {"layout"})
    BY <1>8 DEF At
  <2> QED
    BY <1>2, <1>6, <1>7, <1>8, <2>1 DEF Unstarted, Early
<1>10. pc[t] = "free" /\ h # None
  BY <1>1, <1>2, TaskFacts DEF JobInv
<1>11. JobInv'
  BY <1>1, <1>3, <1>5, <1>10 DEF JobInv, SetupSteps, CompileSteps, Archiving, ArchiveSteps
<1>12. \A u \in Threads : pc'[u] \in {"layout", "postcrt", "postcomp", "rmdirs", "write"} =>
         pc'[u] = pc[u]
  BY <1>3, <1>5
<1>13. StartInv'
  BY <1>2, <1>7, <1>8, <1>12 DEF StartInv
<1>14. EarlyInv'
  BY <1>2, <1>5, <1>9, TaskFacts DEF EarlyInv
<1>15. TodoInv'
  <2>1. crts \subseteq Crt
    BY DEF TypeOK
  <2>2. \A c \in Crt : Present(BuildCrt(c))' <=> Present(BuildCrt(c))
    BY <1>5, TaskFacts
  <2>3. \A s \in Srcs : Present(Compile(s))' <=> Present(Compile(s))
    BY <1>5, TaskFacts
  <2> QED
    BY <1>2, <1>12, <2>1, <2>2, <2>3 DEF TodoInv
<1>16. \A s \in Srcs : InQueue(Compile(s))' \/ At(Compile(s), CompileSteps)' <=>
                       InQueue(Compile(s)) \/ At(Compile(s), CompileSteps)
  <2> SUFFICES ASSUME NEW s \in Srcs
               PROVE  InQueue(Compile(s))' \/ At(Compile(s), CompileSteps)' <=>
                      InQueue(Compile(s)) \/ At(Compile(s), CompileSteps)
    OBVIOUS
  <2>1. PICK x \in Tasks : x = Compile(s) /\ x.job = "compile"
    BY TaskFacts
  <2>2. CASE x = h
    <3>1. l \in CompileSteps
      BY <1>3, <2>1, <2>2 DEF CompileSteps
    <3>2. At(x, CompileSteps)' /\ InQueue(x)
      BY <1>5, <2>2, <3>1
    <3> QED
      BY <2>1, <3>2
  <2>3. CASE x # h
    <3>1. (At(x, CompileSteps)' <=> At(x, CompileSteps)) /\ (InQueue(x)' <=> InQueue(x))
      BY <1>5, <2>3
    <3> QED
      BY <2>1, <3>1
  <2> QED
    BY <2>2, <2>3
<1>17. StoredInv'
  BY <1>2, <1>16 DEF StoredInv
<1>18. CountInv'
  <2>1. CompHeld' = CompHeld
    <3>1. ASSUME NEW x \in Tasks
          PROVE  x \in CompHeld' <=> x \in CompHeld
      <4>1. CASE x = h
        <5>1. l \in HoldsComp <=> h.job = "compile"
          BY <1>3 DEF HoldsComp, CompileSteps
        <5> QED
          BY <1>5, <4>1, <5>1 DEF CompHeld
      <4>2. CASE x # h
        BY <1>5, <4>2 DEF CompHeld
      <4> QED
        BY <4>1, <4>2
    <3>2. CompHeld' \subseteq Tasks /\ CompHeld \subseteq Tasks
      BY DEF CompHeld
    <3> QED
      BY <3>1, <3>2
  <2>2. ClosureAlive' <=> ClosureAlive
    <3>1. \A u \in Threads : pc'[u] \in Archiving <=> pc[u] \in Archiving
      BY <1>3, <1>5, <1>10 DEF Archiving, ArchiveSteps
    <3> QED
      BY <2>1, <3>1 DEF ClosureAlive
  <2>3. \A x \in Tasks : HoldsStep(x)' <=> HoldsStep(x)
    <3> SUFFICES ASSUME NEW x \in Tasks
                 PROVE  HoldsStep(x)' <=> HoldsStep(x)
      OBVIOUS
    <3>1. CASE x = h
      <4>1. h.job = "crt" => l \in {"start", "dropstep"}
        BY <1>3
      <4> QED
        BY <1>5, <1>6, <3>1, <4>1 DEF HoldsStep
    <3>2. CASE x # h
      BY <1>5, <3>2 DEF HoldsStep
    <3> QED
      BY <3>1, <3>2
  <2>4. StepHeld' = StepHeld
    BY <2>2, <2>3 DEF StepHeld
  <2> QED
    BY <1>2, <2>1, <2>4 DEF CountInv
<1>19. ArchiveInv'
  <2>1. \A u \in Threads : pc'[u] \in Archiving => pc'[u] = pc[u]
    BY <1>3, <1>5 DEF Archiving, ArchiveSteps
  <2> QED
    BY <1>2, <1>12, <2>1 DEF ArchiveInv
<1>20. ResultInv'
  <2>1. \A s \in Srcs : objs'[s] = "never" =>
          \/ Early' \/ InQueue(Compile(s))' \/ At(Compile(s), CompileSteps)'
          \/ At(SetupTask, {"postcomp"})' /\ s \in todo'
    BY <1>2, <1>6, <1>8, <1>9, <1>16 DEF ResultInv
  <2>2. archive' = "never" => Early' \/ comp' > 0 \/ \E u \in Threads : pc'[u] \in ArchiveSteps
    <3>1. \A u \in Threads : pc[u] \in ArchiveSteps => pc'[u] = pc[u]
      BY <1>5, <1>10 DEF ArchiveSteps
    <3> QED
      BY <1>2, <1>8, <1>9, <3>1 DEF ResultInv
  <2>3. ASSUME NEW c \in crts, crtResult[c] = "never"
        PROVE  \/ InQueue(BuildCrt(c))' \/ At(BuildCrt(c), {"start"})'
               \/ At(SetupTask, {"postcrt"})' /\ c \in todo'
    <3>1. PICK x \in Tasks : x = BuildCrt(c) /\ x.job = "crt"
      BY TaskFacts DEF TypeOK
    <3>2. \/ InQueue(x) \/ At(x, {"start"})
          \/ At(SetupTask, {"postcrt"}) /\ c \in todo
      BY <1>8, <1>9, <2>3, <3>1 DEF ResultInv
    <3>3. CASE x = h
      <4>1. l = "start"
        BY <1>3, <3>1, <3>3
      <4>2. At(x, {"start"})'
        BY <1>5, <3>3, <4>1
      <4> QED
        BY <3>1, <4>2
    <3>4. CASE x # h
      <4>1. (InQueue(x)' <=> InQueue(x)) /\ (At(x, {"start"})' <=> At(x, {"start"}))
        BY <1>5, <3>4
      <4> QED
        BY <1>2, <1>6, <3>1, <3>2, <4>1
    <3> QED
      BY <3>3, <3>4
  <2> QED
    BY <1>2, <2>1, <2>2, <2>3 DEF ResultInv
<1>21. FinishInv'
  BY <1>2, <1>5, <1>9, TaskFacts DEF FinishInv
<1>22. DoneInv'
  <2>1. step > 0 \/ InQueue(FinishTask) \/ At(FinishTask, {"start"})
    BY <1>8, <1>9 DEF DoneInv
  <2>2. PICK x \in Tasks : x = FinishTask /\ x.job = "finish"
    BY TaskFacts
  <2>3. InQueue(x) \/ At(x, {"start"}) => InQueue(x)' \/ At(x, {"start"})'
    <3>1. x = h => l = "start"
      BY <1>3, <2>2
    <3> QED
      BY <1>5, <3>1
  <2> QED
    BY <1>2, <1>8, <2>1, <2>2, <2>3 DEF DoneInv
<1>23. CleanInv'
  <2>1. \A s \in objFiles : At(Compile(s), {"read", "unlink"}) => At(Compile(s), {"read", "unlink"})'
    <3> SUFFICES ASSUME NEW s \in objFiles, At(Compile(s), {"read", "unlink"})
                 PROVE  At(Compile(s), {"read", "unlink"})'
      OBVIOUS
    <3>1. PICK x \in Tasks : x = Compile(s)
      BY TaskFacts DEF TypeOK
    <3>2. x # h
      BY <1>5, <3>1
    <3> QED
      BY <1>5, <3>1, <3>2
  <2> QED
    BY <1>2, <1>8, <1>12, <2>1 DEF CleanInv
<1>24. TypeOK'
  <2>1. pc' \in [Threads -> PCs]
    BY <1>3 DEF TypeOK, PCs, CompileSteps
  <2>2. task' \in [Threads -> Tasks \cup {None}]
    BY <1>2, <1>4 DEF TypeOK
  <2> QED
    BY <1>2, <1>4, <2>1, <2>2 DEF TypeOK
<1> QED
  BY <1>4, <1>11, <1>13, <1>14, <1>15, <1>17, <1>18, <1>19, <1>20, <1>21, <1>22, <1>23, <1>24

\* A task that returns has nothing left to do.
LEMMA ReturnTaskInv ==
  ASSUME IInv, NEW t \in Threads, ReturnTask(t)
  PROVE  IInv'
<1> USE DEF IInv
<1>1. /\ pc[t] = "ret" /\ task' = [task EXCEPT ![t] = None]
      /\ pc' = [pc EXCEPT ![t] = "free"]
      /\ UNCHANGED <<resource, crts, main, result, queue, todo, step, comp, objs, crtResult,
                     archive, mu, objDirs, left, made, objFiles, alive, ignored>>
  BY DEF ReturnTask, Goto, latches, results, files
<1>2. /\ \A u \in Threads : pc'[u] = IF u = t THEN "free" ELSE pc[u]
      /\ \A u \in Threads : task'[u] = IF u = t THEN None ELSE task[u]
  BY <1>1 DEF TypeOK
<1>3. /\ \A x : InQueue(x)' <=> InQueue(x)
      /\ \A x \in Tasks : Present(x)' => Present(x)
      /\ \A x \in Tasks : \A L : At(x, L \ {"ret"})' <=> At(x, L \ {"ret"})
  <2>1. \A x \in Tasks : x # None
    BY TaskFacts
  <2> QED
    BY <1>1, <1>2, <2>1 DEF InQueue, Present, At
<1>4. \A x \in Tasks : \A L : "ret" \notin L => (At(x, L)' <=> At(x, L))
  <2>1. \A L : "ret" \notin L => L \ {"ret"} = L
    OBVIOUS
  <2>2. ASSUME NEW x \in Tasks, NEW L, "ret" \notin L
        PROVE  At(x, L)' <=> At(x, L)
    <3>1. PICK M : M = L \ {"ret"} /\ M = L
      BY <2>1, <2>2
    <3> QED
      BY <1>3, <3>1
  <2> QED
    BY <2>2
<1>5. /\ "ret" \notin {"layout"} /\ "ret" \notin {"postcrt", "initcomp"} /\ "ret" \notin {"postcrt"}
      /\ "ret" \notin {"postcomp"} /\ "ret" \notin CompileSteps /\ "ret" \notin HoldsComp
      /\ "ret" \notin SetupHolds /\ "ret" \notin {"start"} /\ "ret" \notin {"start", "dropstep"}
      /\ "ret" \notin {"read", "unlink"}
  BY DEF CompileSteps, HoldsComp, SetupHolds, Archiving, ArchiveSteps
<1>6. (Unstarted' <=> Unstarted) /\ (Early' <=> Early)
  BY <1>1, <1>3, <1>4, <1>5, TaskFacts DEF Unstarted, Early
<1>7. NoBuild => NoBuild'
  BY <1>1, <1>2, TaskFacts DEF NoBuild, Busy
<1>8. \A u \in Threads : pc'[u] \in {"layout", "postcrt", "postcomp", "rmdirs", "write"} =>
         pc'[u] = pc[u]
  BY <1>2
<1>9. \A u \in Threads : pc'[u] \in Archiving <=> pc[u] \in Archiving
  BY <1>1, <1>2 DEF Archiving, ArchiveSteps
<1>10. JobInv'
  <2>1. \A u \in Threads : u # t => pc'[u] = pc[u] /\ task'[u] = task[u]
    BY <1>2
  <2>2. pc'[t] = "free" /\ task'[t] = None
    BY <1>2
  <2> QED
    BY <2>1, <2>2 DEF JobInv, SetupSteps, CompileSteps, Archiving, ArchiveSteps
<1>11. UniqInv'
  <2>1. \A m \in 1..Len(queue) : queue[m] # None
    BY TaskFacts DEF TypeOK
  <2> QED
    BY <1>1, <1>2, <2>1 DEF UniqInv
<1>12. StartInv'
  BY <1>1, <1>2, <1>3, <1>8 DEF StartInv
<1>13. EarlyInv'
  BY <1>1, <1>3, <1>6, TaskFacts DEF EarlyInv
<1>14. TodoInv'
  <2>1. crts \subseteq Crt
    BY DEF TypeOK
  <2>2. \A c \in Crt : Present(BuildCrt(c))' => Present(BuildCrt(c))
    BY <1>3, TaskFacts
  <2>3. \A s \in Srcs : Present(Compile(s))' => Present(Compile(s))
    BY <1>3, TaskFacts
  <2> QED
    BY <1>1, <1>8, <2>1, <2>2, <2>3 DEF TodoInv
<1>15. StoredInv'
  BY <1>1, <1>3, <1>4, <1>5, TaskFacts DEF StoredInv
<1>16. CountInv'
  <2>1. CompHeld' = CompHeld
    BY <1>3, <1>4, <1>5 DEF CompHeld
  <2>2. ClosureAlive' <=> ClosureAlive
    BY <1>9, <2>1 DEF ClosureAlive
  <2>3. \A x \in Tasks : HoldsStep(x)' <=> HoldsStep(x)
    BY <1>3, <1>4, <1>5 DEF HoldsStep
  <2>4. StepHeld' = StepHeld
    BY <2>2, <2>3 DEF StepHeld
  <2> QED
    BY <1>1, <2>1, <2>4 DEF CountInv
<1>17. ArchiveInv'
  BY <1>1, <1>8, <1>9 DEF ArchiveInv
<1>18. ResultInv'
  <2>1. \A s \in Srcs : objs'[s] = "never" =>
          \/ Early' \/ NoBuild' \/ InQueue(Compile(s))' \/ At(Compile(s), CompileSteps)'
          \/ At(SetupTask, {"postcomp"})' /\ s \in todo'
    BY <1>1, <1>3, <1>4, <1>5, <1>6, <1>7, TaskFacts DEF ResultInv
  <2>2. archive' = "never" =>
          Early' \/ NoBuild' \/ comp' > 0 \/ \E u \in Threads : pc'[u] \in ArchiveSteps
    <3>1. \A u \in Threads : pc[u] \in ArchiveSteps => pc'[u] = pc[u]
      BY <1>1, <1>2 DEF ArchiveSteps
    <3> QED
      BY <1>1, <1>6, <1>7, <3>1 DEF ResultInv
  <2>3. \A c \in crts : crtResult[c] = "never" =>
          \/ Unstarted' \/ NoBuild' \/ InQueue(BuildCrt(c))' \/ At(BuildCrt(c), {"start"})'
          \/ At(SetupTask, {"postcrt"})' /\ c \in todo'
    <3>1. \A c \in crts : BuildCrt(c) \in Tasks /\ SetupTask \in Tasks
      BY TaskFacts DEF TypeOK
    <3> QED
      BY <1>1, <1>3, <1>4, <1>5, <1>6, <1>7, <3>1 DEF ResultInv
  <2> QED
    BY <1>1, <2>1, <2>2, <2>3 DEF ResultInv
<1>19. FinishInv'
  BY <1>1, <1>3, <1>6, TaskFacts DEF FinishInv
<1>20. DoneInv'
  <2>1. (\A u \in Threads : ~Busy(u)) => \A u \in Threads : ~Busy(u)'
    BY <1>2 DEF Busy
  <2>2. GroupDone => GroupDone'
    BY <1>1, <1>2 DEF GroupDone
  <2>3. InQueue(FinishTask) \/ At(FinishTask, {"start"}) =>
          InQueue(FinishTask)' \/ At(FinishTask, {"start"})'
    BY <1>3, <1>4, <1>5, TaskFacts
  <2> QED
    BY <1>1, <1>6, <2>1, <2>2, <2>3 DEF DoneInv
<1>21. CleanInv'
  <2>1. \A s \in objFiles : At(Compile(s), {"read", "unlink"}) => At(Compile(s), {"read", "unlink"})'
    BY <1>4, <1>5, TaskFacts DEF TypeOK
  <2> QED
    BY <1>1, <1>8, <2>1 DEF CleanInv
<1>22. TypeOK'
  <2>1. pc' \in [Threads -> PCs]
    BY <1>1 DEF TypeOK, PCs
  <2>2. task' \in [Threads -> Tasks \cup {None}]
    BY <1>1 DEF TypeOK
  <2> QED
    BY <1>1, <2>1, <2>2 DEF TypeOK
<1> QED
  BY <1>10, <1>11, <1>12, <1>13, <1>14, <1>15, <1>16, <1>17, <1>18, <1>19, <1>20, <1>21, <1>22

\* The pool has no task and no thread runs one: no latch has a handle.
LEMMA IdleFacts ==
  ASSUME IInv, queue = <<>>, \A t \in Threads : task[t] = None
  PROVE  /\ \A x : ~InQueue(x)
         /\ \A x \in Tasks : ~Present(x) /\ \A L : ~At(x, L)
         /\ CompHeld = {} /\ StepHeld = {}
         /\ \A t \in Threads : pc[t] = "free" /\ pc[t] \notin Archiving
<1> USE DEF IInv
<1>1. \A x : ~InQueue(x)
  BY DEF InQueue
<1>2. \A x \in Tasks : ~Present(x) /\ \A L : ~At(x, L)
  BY <1>1, TaskFacts DEF Present, At
<1>3. \A t \in Threads : pc[t] = "free" /\ pc[t] \notin Archiving
  BY DEF JobInv, Archiving, ArchiveSteps
<1>4. CompHeld = {}
  BY <1>1, <1>2 DEF CompHeld
<1>5. StepHeld = {}
  BY <1>1, <1>2, <1>3, <1>4, TaskFacts DEF StepHeld, HoldsStep, ClosureAlive
<1> QED
  BY <1>1, <1>2, <1>3, <1>4, <1>5

\* The constructor leaves a result, or Setup in the queue.
LEMMA ConstructInv ==
  ASSUME IInv, Construct
  PROVE  IInv'
<1> USE DEF IInv
<1>1. /\ main = "construct" /\ main' = "wait"
      /\ UNCHANGED <<resource, crts, task, pc, todo, step, comp, objs, crtResult, archive,
                     mu, objDirs, left, made, objFiles, alive, ignored>>
  BY DEF Construct, latches, results, files
<1>2. /\ queue = <<>> /\ (\A t \in Threads : task[t] = None)
      /\ result = "unfinished" /\ made = {} /\ objFiles = {}
  BY <1>1 DEF StartInv
<1>3. /\ \A x : ~InQueue(x)
      /\ \A x \in Tasks : ~Present(x) /\ \A L : ~At(x, L)
      /\ CompHeld = {} /\ StepHeld = {}
      /\ \A t \in Threads : pc[t] = "free" /\ pc[t] \notin Archiving
  BY <1>2, IdleFacts
<1>4. (\A s \in Srcs : objs[s] = "never") /\ archive = "never"
  BY <1>1 DEF EarlyInv, Early, Unstarted
<1>5. \A x, L : At(x, L)' <=> At(x, L)
  BY <1>1 DEF At
<1>6. JobInv' /\ TodoInv' /\ ArchiveInv' /\ StoredInv'
  <2>1. JobInv'
    BY <1>1 DEF JobInv
  <2>2. TodoInv'
    BY <1>1, <1>3 DEF TodoInv
  <2>3. ArchiveInv'
    BY <1>1, <1>3, <1>4 DEF ArchiveInv
  <2>4. StoredInv'
    BY <1>1, <1>4 DEF StoredInv
  <2> QED
    BY <2>1, <2>2, <2>3, <2>4
<1>7. CASE result' \in {"path", "error"} /\ queue' = queue
  <2>1. \A x : InQueue(x)' <=> InQueue(x)
    BY <1>7 DEF InQueue
  <2>2. \A x : Present(x)' <=> Present(x)
    BY <1>1, <2>1 DEF Present
  <2>3. UniqInv'
    BY <1>1, <1>7 DEF UniqInv
  <2>4. StartInv'
    BY <1>1, <1>3, <2>1 DEF StartInv
  <2>5. ~Unstarted' /\ ~Early'
    BY <1>1, <1>3, <1>5, <2>1, TaskFacts DEF Early, Unstarted
  <2>6. EarlyInv'
    BY <2>5 DEF EarlyInv
  <2>7. NoBuild'
    BY <1>1, <1>2, <1>7, TaskFacts DEF NoBuild, Busy
  <2>8. ResultInv'
    BY <2>7 DEF ResultInv
  <2>9. FinishInv'
    BY <1>3, <2>2, TaskFacts DEF FinishInv
  <2>10. DoneInv'
    BY <1>1, <1>2, <1>7 DEF DoneInv, Busy
  <2>11. CleanInv'
    BY <1>1, <1>2, <1>3, <1>4 DEF CleanInv
  <2>12. CountInv'
    <3>1. CompHeld' = CompHeld
      BY <1>5, <2>1 DEF CompHeld
    <3>2. ClosureAlive' <=> ClosureAlive
      BY <1>1, <3>1 DEF ClosureAlive
    <3>3. \A x \in Tasks : HoldsStep(x)' <=> HoldsStep(x)
      BY <1>5, <2>1 DEF HoldsStep
    <3>4. StepHeld' = StepHeld
      BY <3>2, <3>3 DEF StepHeld
    <3> QED
      BY <1>1, <3>1, <3>4 DEF CountInv
  <2>13. TypeOK'
    BY <1>1, <1>7 DEF TypeOK
  <2> QED
    BY <1>6, <2>3, <2>4, <2>6, <2>8, <2>9, <2>10, <2>11, <2>12, <2>13
<1>8. CASE queue' = <<SetupTask>> /\ result' = result
  <2>1. PICK y \in Tasks : y = SetupTask /\ y.job = "setup"
    BY TaskFacts
  <2>2. /\ UniqInv' /\ queue' \in Seq(Tasks)
        /\ \A x : InQueue(x)' <=> InQueue(x) \/ x = y
        /\ \A x : Present(x)' <=> Present(x) \/ x = y
    <3>1. queue' = Append(queue, y) /\ task' = task
      BY <1>1, <1>2, <1>8, <2>1
    <3>2. ~Present(y)
      BY <1>3
    <3> QED
      BY <3>1, <3>2, PostUniq
  <2>3. Unstarted' /\ Early'
    BY <2>1, <2>2 DEF Unstarted, Early
  <2>4. StartInv'
    BY <1>1, <1>2, <1>3, <1>8 DEF StartInv
  <2>5. EarlyInv'
    BY <1>1, <1>3, <1>4, <2>1, <2>2, TaskFacts DEF EarlyInv
  <2>6. ResultInv'
    BY <2>3 DEF ResultInv
  <2>7. FinishInv'
    BY <1>3, <2>1, <2>2, TaskFacts DEF FinishInv
  <2>8. DoneInv'
    BY <1>1, <1>2, <1>8, <2>3 DEF DoneInv
  <2>9. CleanInv'
    BY <1>1, <1>2, <1>3, <1>4, <1>8 DEF CleanInv
  <2>10. CountInv'
    <3>1. CompHeld' = CompHeld
      BY <1>5, <2>1, <2>2 DEF CompHeld
    <3>2. ClosureAlive' <=> ClosureAlive
      BY <1>1, <3>1 DEF ClosureAlive
    <3>3. \A x \in Tasks : HoldsStep(x)' <=> HoldsStep(x)
      BY <1>5, <2>1, <2>2 DEF HoldsStep
    <3>4. StepHeld' = StepHeld
      BY <3>2, <3>3 DEF StepHeld
    <3> QED
      BY <1>1, <3>1, <3>4 DEF CountInv
  <2>11. TypeOK'
    BY <1>1, <1>8, <2>2 DEF TypeOK
  <2> QED
    BY <1>6, <2>2, <2>4, <2>5, <2>6, <2>7, <2>8, <2>9, <2>10, <2>11
<1> QED
  BY <1>7, <1>8 DEF Construct

\* When the group is done so is the build.
LEMMA WaitInv ==
  ASSUME IInv, Wait
  PROVE  IInv'
<1> USE DEF IInv
<1>1. /\ main = "wait" /\ main' = "done" /\ queue = <<>> /\ (\A t \in Threads : task[t] = None)
      /\ UNCHANGED <<resource, crts, result, queue, task, pc, todo, step, comp, objs,
                     crtResult, archive, mu, objDirs, left, made, objFiles, alive, ignored>>
  BY DEF Wait, GroupDone, pool, latches, results, files
<1>2. /\ \A x : ~InQueue(x)
      /\ \A x \in Tasks : ~Present(x) /\ \A L : ~At(x, L)
      /\ CompHeld = {} /\ StepHeld = {}
      /\ \A t \in Threads : pc[t] = "free" /\ pc[t] \notin Archiving
  BY <1>1, IdleFacts
<1>3. /\ \A x : InQueue(x)' <=> InQueue(x)
      /\ \A x : Present(x)' <=> Present(x)
      /\ \A x, L : At(x, L)' <=> At(x, L)
  BY <1>1 DEF InQueue, Present, At
<1>4. (Unstarted' <=> Unstarted) /\ (Early' <=> Early)
  BY <1>1, <1>3 DEF Unstarted, Early
<1>5. NoBuild'
  BY <1>1, TaskFacts DEF NoBuild, Busy
<1>6. result # "unfinished"
  <2>1. ~Unstarted
    BY <1>1, <1>2, TaskFacts DEF Unstarted
  <2>2. step = 0
    BY <1>2, NoHandles
  <2> QED
    BY <1>1, <1>2, <2>1, <2>2, TaskFacts DEF DoneInv
<1>7. CountInv'
  <2>1. CompHeld' = CompHeld
    BY <1>3 DEF CompHeld
  <2>2. ClosureAlive' <=> ClosureAlive
    BY <1>1, <2>1 DEF ClosureAlive
  <2>3. \A x \in Tasks : HoldsStep(x)' <=> HoldsStep(x)
    BY <1>3 DEF HoldsStep
  <2>4. StepHeld' = StepHeld
    BY <2>2, <2>3 DEF StepHeld
  <2> QED
    BY <1>1, <2>1, <2>4 DEF CountInv
<1>8. JobInv' /\ UniqInv' /\ StartInv' /\ TodoInv' /\ ArchiveInv'
  <2>1. JobInv' /\ UniqInv'
    BY <1>1 DEF JobInv, UniqInv
  <2>2. StartInv'
    BY <1>1, <1>2, <1>3 DEF StartInv
  <2>3. TodoInv'
    BY <1>1, <1>2 DEF TodoInv
  <2>4. ArchiveInv'
    BY <1>1 DEF ArchiveInv
  <2> QED
    BY <2>1, <2>2, <2>3, <2>4
<1>9. EarlyInv' /\ StoredInv'
  BY <1>1, <1>3, <1>4 DEF EarlyInv, StoredInv
<1>10. ResultInv'
  BY <1>5 DEF ResultInv
<1>11. FinishInv'
  BY <1>2, <1>3, TaskFacts DEF FinishInv
<1>12. DoneInv'
  BY <1>1, <1>6 DEF DoneInv, Busy, GroupDone
<1>13. CleanInv'
  BY <1>1, <1>3 DEF CleanInv
<1>14. TypeOK'
  BY <1>1 DEF TypeOK
<1> QED
  BY <1>7, <1>8, <1>9, <1>10, <1>11, <1>12, <1>13, <1>14

----------------------------------------------------------------------------
(* The theorems                                                             *)

\* Every build starts in the invariant.
LEMMA InitIInv ==
  ASSUME Init
  PROVE  IInv
<1>1. /\ main = "construct" /\ result = "unfinished" /\ queue = <<>>
      /\ task = [t \in Threads |-> None] /\ pc = [t \in Threads |-> "free"]
      /\ todo = {} /\ step = 0 /\ comp = 0 /\ objs = [s \in Srcs |-> "never"]
      /\ crtResult = [c \in Crt |-> "never"] /\ archive = "never"
      /\ objDirs = {} /\ left = {} /\ made = {} /\ objFiles = {}
  BY DEF Init
<1>2. (\A t \in Threads : task[t] = None /\ pc[t] = "free") /\ \A s \in Srcs : objs[s] = "never"
  BY <1>1
<1>3. /\ \A x : ~InQueue(x)
      /\ \A x \in Tasks : ~Present(x) /\ \A L : ~At(x, L)
  BY <1>1, <1>2, TaskFacts DEF InQueue, Present, At
<1>4. \A t \in Threads : /\ pc[t] \notin Archiving /\ pc[t] \notin SetupSteps
                         /\ pc[t] \notin CompileSteps
                         /\ pc[t] \notin {"dropcomp", "start", "dropstep", "layout", "postcrt",
                                          "postcomp", "rmdirs", "write"}
  BY <1>2 DEF Archiving, ArchiveSteps, SetupSteps, CompileSteps
<1>5. TypeOK
  <2>1. resource \in BOOLEAN /\ crts \in {{}, Crt} /\ alive \in BOOLEAN /\ ignored \in BOOLEAN
    BY DEF Init
  <2>2. pc \in [Threads -> PCs] /\ task \in [Threads -> Tasks \cup {None}]
    BY <1>1 DEF PCs
  <2>3. objs \in [Srcs -> Outcomes] /\ crtResult \in [Crt -> Outcomes] /\ archive \in Outcomes
    BY <1>1 DEF Outcomes
  <2>4. mu \in Threads \cup {None}
    BY DEF Init
  <2>5. queue \in Seq(Tasks)
    BY <1>1
  <2> QED
    BY <1>1, <2>1, <2>2, <2>3, <2>4, <2>5 DEF TypeOK
<1>6. JobInv
  BY <1>2, <1>4 DEF JobInv
<1>7. UniqInv
  BY <1>1, <1>2 DEF UniqInv
<1>8. StartInv
  BY <1>1, <1>2, <1>3, <1>4 DEF StartInv
<1>9. EarlyInv /\ StoredInv
  BY <1>1, <1>2, <1>3, TaskFacts DEF EarlyInv, StoredInv
<1>10. TodoInv
  BY <1>4 DEF TodoInv
<1>11. CountInv
  <2>1. CompHeld = {}
    BY <1>3 DEF CompHeld
  <2>2. StepHeld = {}
    BY <1>3, <1>4, <2>1, TaskFacts DEF StepHeld, HoldsStep, ClosureAlive
  <2> QED
    BY <1>1, <2>1, <2>2, FS_EmptySet DEF CountInv
<1>12. ArchiveInv
  BY <1>1, <1>4 DEF ArchiveInv
<1>13. ResultInv
  BY <1>1 DEF ResultInv, Early, Unstarted
<1>14. FinishInv
  BY <1>3, TaskFacts DEF FinishInv
<1>15. DoneInv
  BY <1>1 DEF DoneInv
<1>16. CleanInv
  BY <1>1, <1>4 DEF CleanInv
<1> QED
  BY <1>5, <1>6, <1>7, <1>8, <1>9, <1>10, <1>11, <1>12, <1>13, <1>14, <1>15, <1>16 DEF IInv

\* Every step keeps the invariant, whichever thread takes it.
LEMMA NextIInv ==
  ASSUME IInv, [Next]_vars
  PROVE  IInv'
<1>1. CASE Construct
  BY <1>1, ConstructInv
<1>2. CASE Wait
  BY <1>2, WaitInv
<1>3. ASSUME NEW t \in Threads, ThreadStep(t)
      PROVE  IInv'
  <2>1. CASE TakeTask(t)
    BY <2>1, TakeSetup, TakeOther
  <2>2. CASE ReturnTask(t) \/ SetupLayout(t) \/ PostCrt(t) \/ InitComp(t) \/ PostCompile(t)
    BY <2>2, ReturnTaskInv, SetupLayoutInv, PostCrtInv, InitCompInv, PostCompileInv
  <2>3. CASE DropComp(t) \/ DropStep(t)
    BY <2>3, DropCompInv, DropStepInv
  <2>4. CASE \/ LockObjDirs(t) \/ CreateObjDir(t) \/ RunClang(t) \/ ReadObject(t)
             \/ UnlinkObject(t)
    BY <2>4, LockObjDirsInv, CreateObjDirInv, RunClangInv, ReadObjectInv, UnlinkObjectInv
  <2>5. CASE BuildCrtFile(t) \/ Finish(t)
    BY <2>5, BuildCrtFileInv, FinishStepInv
  <2>6. CASE CollectMembers(t) \/ RemoveObjDirs(t) \/ WriteArchive(t)
    BY <2>6, CollectMembersInv, RemoveObjDirsInv, WriteArchiveInv
  <2> QED
    BY <1>3, <2>1, <2>2, <2>3, <2>4, <2>5, <2>6 DEF ThreadStep
<1>4. CASE UNCHANGED vars
  <2> USE DEF IInv
  <2>1. UNCHANGED <<resource, crts, main, result, queue, task, pc, todo, step, comp, objs,
                    crtResult, archive, mu, objDirs, left, made, objFiles, alive, ignored>>
    BY <1>4 DEF vars, pool, latches, results, files
  <2>2. /\ \A x : InQueue(x)' <=> InQueue(x)
        /\ \A x : Present(x)' <=> Present(x)
        /\ \A x, L : At(x, L)' <=> At(x, L)
    BY <2>1 DEF InQueue, Present, At
  <2>3. (Unstarted' <=> Unstarted) /\ (Early' <=> Early) /\ (NoBuild' <=> NoBuild)
    BY <2>1, <2>2 DEF Unstarted, Early, NoBuild, Busy
  <2>4. CompHeld' = CompHeld /\ StepHeld' = StepHeld
    <3>1. CompHeld' = CompHeld
      BY <2>2 DEF CompHeld
    <3> QED
      BY <2>1, <2>2, <3>1 DEF StepHeld, HoldsStep, ClosureAlive
  <2>5. TypeOK' /\ JobInv' /\ UniqInv'
    BY <2>1 DEF TypeOK, JobInv, UniqInv
  <2>6. StartInv' /\ EarlyInv' /\ TodoInv' /\ StoredInv'
    BY <2>1, <2>2, <2>3 DEF StartInv, EarlyInv, TodoInv, StoredInv
  <2>7. CountInv' /\ ArchiveInv' /\ FinishInv'
    BY <2>1, <2>2, <2>3, <2>4 DEF CountInv, ArchiveInv, FinishInv
  <2>8. ResultInv'
    BY <2>1, <2>2, <2>3 DEF ResultInv
  <2>9. DoneInv' /\ CleanInv'
    BY <2>1, <2>2, <2>3 DEF DoneInv, CleanInv, Busy, GroupDone
  <2> QED
    BY <2>5, <2>6, <2>7, <2>8, <2>9
<1> QED
  BY <1>1, <1>2, <1>3, <1>4 DEF Next, MainStep

\* The invariant holds throughout every build, with any number of threads,
\* sources, CRT files and directories.
THEOREM Inductive == Spec => []IInv
<1>1. Init => IInv
  BY InitIInv
<1>2. IInv /\ [Next]_vars => IInv'
  BY NextIInv
<1> QED
  BY <1>1, <1>2, PTL DEF Spec

\* Every variable keeps its type: counts of latches never go below zero, and
\* the archive's Finish only reaches directories that obj_dirs_ has.
THEOREM TypesHold == Spec => []TypeOK
<1>1. IInv => TypeOK
  BY DEF IInv
<1> QED
  BY <1>1, Inductive, PTL

\* The two latches order the tasks: the archive is finished once, by one
\* thread, after every compile has stored its result, and the builder's Finish
\* runs alone and finds every result in place.
THEOREM LatchesOrder == Spec => []LatchesOrderTasks
<1>1. ASSUME IInv
      PROVE  LatchesOrderTasks
  <2> USE <1>1 DEF IInv
  <2> SUFFICES ASSUME NEW t \in Threads
               PROVE  /\ pc[t] \in ArchiveSteps \cup {"dropclosure"} =>
                           /\ \A s \in Srcs : objs[s] # "never"
                           /\ \A u \in Threads \ {t} :
                                pc[u] \notin ArchiveSteps \cup CompileSteps \cup {"dropclosure"}
                      /\ task[t] = FinishTask =>
                           /\ queue = <<>>
                           /\ \A u \in Threads \ {t} : ~Busy(u)
                           /\ archive # "never" /\ \A c \in crts : crtResult[c] # "never"
    BY DEF LatchesOrderTasks
  <2>1. ASSUME pc[t] \in Archiving
        PROVE  /\ \A s \in Srcs : objs[s] # "never"
               /\ \A u \in Threads \ {t} :
                    pc[u] \notin ArchiveSteps \cup CompileSteps \cup {"dropclosure"}
    <3>1. /\ \A u \in Threads : pc[u] \in Archiving => u = t
          /\ \A x \in Tasks : ~At(x, HoldsComp) /\ (x.job = "compile" => ~InQueue(x))
          /\ ~Early /\ Busy(t)
      BY <2>1, ArchivingFacts
    <3>2. ASSUME NEW s \in Srcs, objs[s] = "never"
          PROVE  FALSE
      <4>1. Compile(s) \in Tasks /\ Compile(s).job = "compile" /\ SetupTask \in Tasks
        BY TaskFacts
      <4>2. ~InQueue(Compile(s)) /\ ~At(Compile(s), HoldsComp) /\ ~At(SetupTask, HoldsComp)
        BY <3>1, <4>1
      <4>3. ~At(Compile(s), CompileSteps) /\ ~At(SetupTask, {"postcomp"})
        BY <4>2 DEF At, HoldsComp
      <4>4. ~NoBuild
        BY <3>1 DEF NoBuild
      <4> QED
        BY <3>1, <3>2, <4>2, <4>3, <4>4 DEF ResultInv
    <3>3. ASSUME NEW u \in Threads, pc[u] \in CompileSteps
          PROVE  FALSE
      <4>1. task[u] \in Tasks
        BY <3>3 DEF JobInv, CompileSteps, TypeOK
      <4>2. PICK x \in Tasks : x = task[u]
        BY <4>1
      <4> QED
        BY <3>1, <3>3, <4>2 DEF At, HoldsComp
    <3> QED
      BY <3>1, <3>2, <3>3 DEF Archiving
  <2>2. ASSUME task[t] = FinishTask
        PROVE  /\ queue = <<>>
               /\ \A u \in Threads \ {t} : ~Busy(u)
               /\ archive # "never" /\ \A c \in crts : crtResult[c] # "never"
    BY <2>2, FinishAlone
  <2> QED
    BY <2>1, <2>2 DEF Archiving
<1> QED
  BY <1>1, Inductive, PTL

\* What is committed is complete: no failed compile, CRT file or archive, and
\* no object file or directory unless an error of removing one was ignored.
THEOREM CommitComplete == Spec => []CommitIsComplete
<1>1. ASSUME IInv
      PROVE  CommitIsComplete
  <2> USE <1>1 DEF IInv
  <2> SUFFICES ASSUME result = "path"
               PROVE  /\ archive # "never" =>
                           /\ archive = "ok"
                           /\ \A s \in Srcs : objs[s] = "ok"
                           /\ \A c \in crts : crtResult[c] = "ok"
                      /\ ~ignored => made = {} /\ objFiles = {}
    BY DEF CommitIsComplete
  <2>1. \/ archive = "ok" /\ \A c \in crts : crtResult[c] = "ok"
        \/ archive = "never" /\ made = {} /\ objFiles = {}
    BY DEF CleanInv
  <2>2. archive = "ok" => \A s \in Srcs : objs[s] = "ok"
    BY DEF ArchiveInv
  <2>3. archive = "ok" /\ ~ignored => made = {} /\ objFiles = {}
    BY DEF CleanInv
  <2> QED
    BY <2>1, <2>2, <2>3
<1> QED
  BY <1>1, Inductive, PTL

\* Wait returns the result of a finished build, never the placeholder.
THEOREM WaitReturnsResult == Spec => []WaitSeesResult
<1>1. IInv => WaitSeesResult
  BY DEF IInv, DoneInv, WaitSeesResult
<1> QED
  BY <1>1, Inductive, PTL
=============================================================================
