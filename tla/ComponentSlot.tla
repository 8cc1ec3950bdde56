---------------------------- MODULE ComponentSlot ----------------------------
(***************************************************************************)
(* What Runtimes::Build promises its callers until somebody removes the    *)
(* component by force: a cell that is written at most once, in one step,   *)
(* and whose path is handed out only after it was written.  How often the  *)
(* component is built, who waits and who holds a lock is not observable.   *)
(***************************************************************************)
CONSTANT Procs

VARIABLES
  slot,     \* whether the component is published
  answer,   \* the last answer each caller got
  broken    \* whether a removal was called, which ends the promise

vars == <<slot, answer, broken>>

Answers == {"none", "path", "error"}

Init ==
  /\ slot = FALSE
  /\ answer = [p \in Procs |-> "none"]
  /\ broken = FALSE

\* A builder publishes its component and will be told its path.
Publish(p) ==
  /\ slot = FALSE
  /\ slot' = TRUE
  /\ answer' = [answer EXCEPT ![p] = "path"]
  /\ UNCHANGED broken

\* Everybody else gets the path of the published component.
Find(p) ==
  /\ slot = TRUE
  /\ answer' = [answer EXCEPT ![p] = "path"]
  /\ UNCHANGED <<slot, broken>>

\* A caller asks again, fails, or dies.
Forget(p) ==
  /\ \E r \in Answers \ {"path"} : answer' = [answer EXCEPT ![p] = r]
  /\ UNCHANGED <<slot, broken>>

\* From the first forced removal on nothing is promised, and never again.
Remove ==
  /\ broken' = TRUE
  /\ slot' \in BOOLEAN
  /\ answer' \in [Procs -> Answers]

Next == Remove \/ \E p \in Procs : Publish(p) \/ Find(p) \/ Forget(p)

Spec == Init /\ [][Next]_vars

=============================================================================
