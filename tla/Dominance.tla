------------------------------ MODULE Dominance ------------------------------
(***************************************************************************)
(* VerifyDominance: every use of a value in a function body comes after an *)
(* evaluation of it, whichever way control takes.                          *)
(*                                                                         *)
(* DominatorTreeBuilder orders the blocks by a depth-first search, sweeps  *)
(* over them until the immediate dominators stop changing (the algorithm   *)
(* of Cooper, Harvey and Kennedy) and makes them a tree. DominanceVerifier *)
(* walks that tree with the set of instructions evaluated so far. A body   *)
(* is verified as such and then once for each specific of the function,    *)
(* with one set shared by all, those of other functions included. A file   *)
(* that has errors is not verified. The body of a pack expansion runs once *)
(* per element; if it has control flow it is a region with its own tree.   *)
(*                                                                         *)
(* A graph is the function from its blocks 0..n-1 to their branch targets, *)
(* n standing for a block outside. Block 0 is the entry.                   *)
(***************************************************************************)
EXTENDS Integers, SequencesExt, FiniteSets

CONSTANTS
  Bodies,      \* graphs of function bodies
  Files,       \* for each file, the bodies of its functions, in order
  Codes(_),    \* for a graph, what its blocks can hold besides branches:
               \* [code, region, regionCode], code and regionCode from blocks
               \* to sequences of instructions, region the graph of a pack body
  Insts,       \* instructions
  Kind,        \* "plain", "spliceBlock", "packStatement", "packExpr",
               \* "packInit" or "splice"
  Operands,    \* the operands verified when an instruction starts
  Block,       \* the block of a SpliceBlock, of a pack expansion, else <<>>
  Result,      \* result_id of a SpliceBlock
  Params,      \* the instructions of the function's declaration
  Constants,   \* instructions with a constant value
  DeclInsts,   \* evaluated at file or class scope, see CollectDeclInsts
  ImportRefs,  \* imported instructions
  Specifics,   \* the specifics of a function, in order
  SplicedIn(_, _),  \* the instructions, at most one, that a SpliceInst
                    \* evaluates in a specific
  NoSpecific   \* SpecificId::None

\* What a graph and the contents of a body are.
IsGraph(g) ==
  /\ IsFiniteSet(DOMAIN g) /\ DOMAIN g # {} /\ DOMAIN g = 0..Cardinality(DOMAIN g) - 1
  /\ g \in [DOMAIN g -> Seq(Nat)]
IsText(t, g) ==
  /\ t.code \in [DOMAIN g -> Seq(Insts)]
  /\ IsGraph(t.region) /\ t.regionCode \in [DOMAIN t.region -> Seq(Insts)]
AllSpecifics == {NoSpecific} \cup ToSet(Specifics)

\* What a function that is only declared has for a body.
NoBody == <<>>

ASSUME BodiesAssumption ==
  \A g \in Bodies : IsGraph(g) /\ \A t \in Codes(g) : IsText(t, g)
ASSUME FilesAssumption == Files \subseteq Seq(Bodies \cup {NoBody})
ASSUME InstsAssumption ==
  /\ Params \in Seq(Insts) /\ Block \in [Insts -> Seq(Insts)]
  /\ Specifics \in Seq(AllSpecifics)
  /\ \A x \in Insts, s \in AllSpecifics : SplicedIn(x, s) \in Seq(Insts)

None == -1

VARIABLES
  pc,         \* "file", "cfg", "dfs", "sweep", "meet", "tree", "next", "params",
              \* "walk", "insts", "done"
  result,     \* "running", "ok" or "error"
  hasErrors,  \* of the file
  functions,  \* the bodies of its functions that are still to come
  body,       \* the control flow graph of the current one
  text,       \* its instructions and the region of its pack expansion
  graph,      \* successors_ of the tree being built
  inRegion,   \* whether that is the region's tree
  visited, stack, postOrder,   \* the depth-first search
  order, idom,                 \* of Build, by block
  changed, at, met, newIdom,   \* the sweep: position, branches to it that it
                               \* has been through, candidate
  lhs, rhs,                    \* of intersect
  children,                    \* dom_children
  domTree, regionTree,         \* children of each block
  specifics,                   \* those left to verify, the current one first
  evaluated, evaluatedOrder,   \* the instructions that dominate this point
  work,                        \* worklist of VerifyBlocks
  rest,                        \* the instructions left in the current block
  current,                     \* the block being verified
  steps                        \* worklist of VerifyAndRecordInst

search == <<visited, stack, postOrder>>
sweep == <<order, idom, changed, at, met, newIdom, lhs, rhs, children>>
builder == <<graph, inRegion, search, sweep>>
input == <<hasErrors, functions, body, text>>
trees == <<domTree, regionTree>>
verifier == <<specifics, evaluated, evaluatedOrder, work, rest, current, steps>>
vars == <<pc, result, input, builder, trees, verifier>>

SearchFrame == UNCHANGED <<result, input, graph, inRegion, sweep, trees, verifier>>
SweepFrame == UNCHANGED <<result, input, graph, inRegion, search, trees, verifier>>
WalkFrame == UNCHANGED <<result, input, builder, trees, specifics>>
seen == <<evaluated, evaluatedOrder>>

Blocks == DOMAIN graph
NumBlocks == Cardinality(Blocks)

----------------------------------------------------------------------------
(* DominatorTreeBuilder.                                                   *)

\* The branches, each by its block and its place among the branches there, and
\* those to b. predecessors_ lists them in this order.
Edges == UNION {{b} \X DOMAIN graph[b] : b \in Blocks}
Predecessors(b) == {e \in Edges : graph[e[1]][e[2]] = b}
First(edges) ==
  CHOOSE e \in edges : \A f \in edges : e[1] < f[1] \/ (e[1] = f[1] /\ e[2] <= f[2])

BuildControlFlowGraph ==
  /\ pc = "cfg"
  /\ \A b \in Blocks : ToSet(graph[b]) \subseteq Blocks
  /\ visited' = {0} /\ stack' = <<[block |-> 0, numVisited |-> 0]>> /\ postOrder' = <<>>
  /\ pc' = "dfs"
  /\ SearchFrame

Fail == pc' = "next" /\ result' = "error"

\* No error of a region: its blocks are those its entry reaches.
BranchOutsideBody ==
  /\ pc = "cfg" /\ ~inRegion
  /\ \E b \in Blocks : ~(ToSet(graph[b]) \subseteq Blocks)
  /\ Fail
  /\ UNCHANGED <<input, builder, trees, verifier>>

Top == Last(stack)

SuccessorsVisited ==
  /\ pc = "dfs" /\ stack # <<>> /\ Top.numVisited = Len(graph[Top.block])
  /\ postOrder' = Append(postOrder, Top.block)
  /\ stack' = Front(stack)
  /\ SearchFrame /\ UNCHANGED <<pc, visited>>

VisitSuccessor ==
  /\ pc = "dfs" /\ stack # <<>> /\ Top.numVisited < Len(graph[Top.block])
  /\ LET successor == graph[Top.block][Top.numVisited + 1]
         counted == [stack EXCEPT ![Len(stack)].numVisited = @ + 1]
     IN /\ visited' = visited \cup {successor}
        /\ stack' = IF successor \in visited THEN counted
                    ELSE Append(counted, [block |-> successor, numVisited |-> 0])
  /\ SearchFrame /\ UNCHANGED <<pc, postOrder>>

UnreachableBlock ==
  /\ pc = "dfs" /\ stack = <<>> /\ visited # Blocks /\ ~inRegion
  /\ Fail
  /\ UNCHANGED <<input, builder, trees, verifier>>

ReversePostOrder == Reverse(postOrder)

StartSweepAtEntry == at' = 1 /\ met' = {} /\ newIdom' = None /\ changed' = FALSE
StartSweepUnreset == at' = 2 /\ met' = {} /\ newIdom' = None /\ UNCHANGED changed
StartSweep == at' = 2 /\ met' = {} /\ newIdom' = None /\ changed' = FALSE

AllReachable ==
  /\ pc = "dfs" /\ stack = <<>> /\ visited = Blocks
  /\ order' = [b \in Blocks |-> CHOOSE i \in 1..NumBlocks : ReversePostOrder[i] = b]
  /\ idom' = [b \in Blocks |-> IF b = 0 THEN 0 ELSE None]
  /\ StartSweep
  /\ pc' = "sweep"
  /\ SweepFrame /\ UNCHANGED <<lhs, rhs, children>>

\* The block whose dominator is being computed, and one of its predecessors.
Sweeping == ReversePostOrder[at]
Left == Predecessors(Sweeping) \ met
Predecessor == First(Left)[1]
InSweep == pc = "sweep" /\ at <= NumBlocks
AtPredecessor == InSweep /\ Left # {}

SkipPredecessor ==
  /\ AtPredecessor /\ idom[Predecessor] = None
  /\ met' = met \cup {First(Left)}
  /\ SweepFrame /\ UNCHANGED <<pc, order, idom, changed, at, newIdom, lhs, rhs, children>>

FirstPredecessorUnchecked ==
  /\ AtPredecessor /\ newIdom = None
  /\ newIdom' = Predecessor /\ met' = met \cup {First(Left)}
  /\ SweepFrame /\ UNCHANGED <<pc, order, idom, changed, at, lhs, rhs, children>>

FirstPredecessor ==
  /\ AtPredecessor /\ idom[Predecessor] # None /\ newIdom = None
  /\ newIdom' = Predecessor /\ met' = met \cup {First(Left)}
  /\ SweepFrame /\ UNCHANGED <<pc, order, idom, changed, at, lhs, rhs, children>>

StartIntersect ==
  /\ AtPredecessor /\ idom[Predecessor] # None /\ newIdom # None
  /\ lhs' = Predecessor /\ rhs' = newIdom
  /\ pc' = "meet"
  /\ SweepFrame /\ UNCHANGED <<order, idom, changed, at, met, newIdom, children>>

\* One step up the tree built so far, from the block that is later in order.
IntersectStep ==
  /\ pc = "meet" /\ lhs # rhs
  /\ IF order[lhs] > order[rhs] THEN lhs' = idom[lhs] /\ UNCHANGED rhs
                                ELSE rhs' = idom[rhs] /\ UNCHANGED lhs
  /\ SweepFrame /\ UNCHANGED <<pc, order, idom, changed, at, met, newIdom, children>>

FinishIntersect ==
  /\ pc = "meet" /\ lhs = rhs
  /\ newIdom' = lhs /\ met' = met \cup {First(Left)}
  /\ pc' = "sweep"
  /\ SweepFrame /\ UNCHANGED <<order, idom, changed, at, lhs, rhs, children>>

SetDominator ==
  /\ InSweep /\ Left = {}
  /\ LET changes == newIdom # None /\ idom[Sweeping] # newIdom
     IN IF changes THEN idom' = [idom EXCEPT ![Sweeping] = newIdom] /\ changed' = TRUE
                   ELSE UNCHANGED <<idom, changed>>
  /\ at' = at + 1 /\ met' = {} /\ newIdom' = None
  /\ SweepFrame /\ UNCHANGED <<pc, order, lhs, rhs, children>>

OneSweep == FALSE
SweepAgain == changed

NextSweep ==
  /\ pc = "sweep" /\ at > NumBlocks /\ SweepAgain
  /\ StartSweep
  /\ SweepFrame /\ UNCHANGED <<pc, order, idom, lhs, rhs, children>>

\* The blocks are put below their dominators.
StartTree ==
  /\ pc = "sweep" /\ at > NumBlocks /\ ~SweepAgain
  /\ children' = [b \in Blocks |-> <<>>] /\ at' = 2
  /\ pc' = "tree"
  /\ SweepFrame /\ UNCHANGED <<order, idom, changed, met, newIdom, lhs, rhs>>

AddChild ==
  /\ pc = "tree" /\ at <= NumBlocks /\ idom[Sweeping] # None
  /\ children' = [children EXCEPT ![idom[Sweeping]] = Append(@, Sweeping)]
  /\ at' = at + 1
  /\ SweepFrame /\ UNCHANGED <<pc, order, idom, changed, met, newIdom, lhs, rhs>>

\* Build returns the tree of the function's body.
BodyTree ==
  /\ pc = "tree" /\ at > NumBlocks /\ ~inRegion
  /\ domTree' = children
  /\ text' \in Codes(body)
  /\ pc' = "next"
  /\ UNCHANGED <<result, hasErrors, functions, body, builder, regionTree, verifier>>

----------------------------------------------------------------------------
(* DominanceVerifier. The instructions evaluated are a set and the order   *)
(* in which they were added to it.                                         *)

Seen == [set |-> evaluated, order |-> evaluatedOrder]

RecordTwice(ev, x) == [set |-> ev.set \cup {x}, order |-> Append(ev.order, x)]

RecordEvaluated(ev, x) ==
  IF x \in ev.set THEN ev
  ELSE [set |-> ev.set \cup {x}, order |-> Append(ev.order, x)]

\* Leave a scope that was entered with so many instructions evaluated.
LeaveScope(ev, scopeStart) ==
  [set |-> ev.set \ ToSet(SubSeq(ev.order, scopeStart + 1, Len(ev.order))),
   order |-> SubSeq(ev.order, 1, scopeStart)]

SetSeen(ev) == evaluated' = ev.set /\ evaluatedOrder' = ev.order

EnterBlock(b) == [block |-> b, scopeStart |-> 0]
LeaveBlock == [block |-> None, scopeStart |-> Len(evaluatedOrder)]

\* A verification of the body is over, or none has begun.
NextVerify ==
  /\ pc = "next" /\ result = "running" /\ specifics # <<>>
  /\ rest' = Params
  /\ pc' = "params"
  /\ WalkFrame /\ UNCHANGED <<seen, work, current, steps>>

RecordEvaluatedBlock ==
  /\ pc = "params" /\ rest # <<>>
  /\ SetSeen(RecordEvaluated(Seen, Head(rest)))
  /\ rest' = Tail(rest)
  /\ WalkFrame /\ UNCHANGED <<pc, work, current, steps>>

VerifyBlocks ==
  /\ pc = "params" /\ rest = <<>>
  /\ work' = <<EnterBlock(0)>>
  /\ pc' = "walk"
  /\ WalkFrame /\ UNCHANGED <<seen, rest, current, steps>>

VerifyBlock ==
  /\ pc = "walk" /\ work # <<>> /\ Last(work).block # None
  /\ work' = Append(Front(work), LeaveBlock)
  /\ current' = Last(work).block
  /\ rest' = text.code[current']
  /\ pc' = "insts"
  /\ WalkFrame /\ UNCHANGED <<seen, steps>>

LeaveVerifiedBlock ==
  /\ pc = "walk" /\ work # <<>> /\ Last(work).block = None
  /\ work' = Front(work)
  /\ SetSeen(LeaveScope(Seen, Last(work).scopeStart))
  /\ WalkFrame /\ UNCHANGED <<pc, rest, current, steps>>

QueueChildren ==
  /\ pc = "insts" /\ steps = <<>> /\ rest = <<>>
  /\ work' = work \o [i \in DOMAIN domTree[current] |-> EnterBlock(domTree[current][i])]
  /\ pc' = "walk"
  /\ WalkFrame /\ UNCHANGED <<seen, rest, current, steps>>

\* The end of Verify, after its walk or an error, and the next specific.
EndVerify ==
  /\ SetSeen(LeaveScope(Seen, 0))
  /\ specifics' = Tail(specifics)
  /\ work' = <<>> /\ rest' = <<>> /\ steps' = <<>>
  /\ UNCHANGED <<input, builder, trees, current>>

FinishVerify ==
  /\ pc = "walk" /\ work = <<>>
  /\ EndVerify
  /\ pc' = "next" /\ UNCHANGED result

----------------------------------------------------------------------------
(* VerifyAndRecordInst.                                                    *)

Step(kind, x, block, scope) == [kind |-> kind, inst |-> x, block |-> block, scope |-> scope]
InstStep(x) == Step("inst", x, None, 0)
\* The steps that evaluate these instructions, first one on top.
InstSteps(insts) == [i \in DOMAIN insts |-> InstStep(Reverse(insts)[i])]

VerifyInst ==
  /\ pc = "insts" /\ steps = <<>> /\ rest # <<>>
  /\ steps' = <<InstStep(Head(rest))>>
  /\ rest' = Tail(rest)
  /\ WalkFrame /\ UNCHANGED <<pc, seen, work, current>>

This == Last(steps)
Size == Len(evaluatedOrder)

\* VerifyOperand succeeds.
IsDominated(x) ==
  x \in Constants \cup evaluated \cup DeclInsts \cup ImportRefs

\* The operands that the step on top of the worklist verifies.
StepOperands ==
  CASE This.kind = "inst" -> Operands[This.inst]
    [] This.kind = "finishSplice" -> {Result[This.inst]}
    [] OTHER -> {}

Perform(kind) ==
  /\ pc = "insts" /\ steps # <<>> /\ This.kind = kind
  /\ \A x \in StepOperands : IsDominated(x)

OperandError ==
  /\ pc = "insts" /\ steps # <<>>
  /\ \E x \in StepOperands : ~IsDominated(x)
  /\ EndVerify
  /\ Fail

\* Evaluate a plain instruction, or a SpliceInst and what it splices in.
EvaluateInst ==
  /\ Perform("inst") /\ Kind[This.inst] \in {"plain", "splice"}
  /\ SetSeen(RecordEvaluated(Seen, This.inst))
  /\ steps' = IF Kind[This.inst] = "plain" THEN Front(steps)
              ELSE Front(steps) \o InstSteps(SplicedIn(This.inst, Head(specifics)))
  /\ WalkFrame /\ UNCHANGED <<pc, work, rest, current>>

StartSpliceBlock ==
  /\ Perform("inst") /\ Kind[This.inst] = "spliceBlock"
  /\ steps' = Append(Front(steps), Step("finishSplice", This.inst, None, 0))
              \o InstSteps(Block[This.inst])
  /\ WalkFrame /\ UNCHANGED <<pc, seen, work, rest, current>>

FinishSpliceBlock ==
  /\ Perform("finishSplice")
  /\ SetSeen(RecordEvaluated(Seen, This.inst))
  /\ steps' = Front(steps)
  /\ WalkFrame /\ UNCHANGED <<pc, work, rest, current>>

HasRegion(x) == Kind[x] = "packStatement" /\ Cardinality(DOMAIN text.region) > 1

FinishPack(x) == Step("finishPack", x, None, Size)

\* A pack expansion whose body is one block.
StartPackExpansion ==
  /\ Perform("inst") /\ Kind[This.inst] \in {"packStatement", "packExpr", "packInit"}
  /\ ~HasRegion(This.inst)
  /\ steps' = Append(Front(steps), FinishPack(This.inst))
              \o InstSteps(IF Kind[This.inst] = "packStatement" THEN text.regionCode[0]
                           ELSE Block[This.inst])
  /\ WalkFrame /\ UNCHANGED <<pc, seen, work, rest, current>>

\* A pack expansion whose body has control flow: build the tree of its region
\* first.
StartRegion ==
  /\ Perform("inst") /\ HasRegion(This.inst)
  /\ graph' = text.region /\ inRegion' = TRUE
  /\ pc' = "cfg"
  /\ UNCHANGED <<result, input, search, sweep, trees, verifier>>

RegionTree ==
  /\ pc = "tree" /\ at > NumBlocks /\ inRegion
  /\ regionTree' = children
  /\ steps' = Append(Front(steps), FinishPack(This.inst))
              \o <<Step("enterRegion", This.inst, 0, 0)>>
  /\ graph' = body /\ inRegion' = FALSE
  /\ pc' = "insts"
  /\ UNCHANGED <<result, input, search, sweep, domTree, specifics, evaluated,
                 evaluatedOrder, work, rest, current>>

EnterRegionBlock ==
  /\ Perform("enterRegion")
  /\ LET below == regionTree[This.block]
     IN steps' = Append(Front(steps), Step("leaveRegion", This.inst, None, Size))
                 \o [i \in DOMAIN below |-> Step("enterRegion", This.inst, below[i], 0)]
                 \o InstSteps(text.regionCode[This.block])
  /\ WalkFrame /\ UNCHANGED <<pc, seen, work, rest, current>>

LeaveRegionBlock ==
  /\ Perform("leaveRegion")
  /\ SetSeen(LeaveScope(Seen, This.scope))
  /\ steps' = Front(steps)
  /\ WalkFrame /\ UNCHANGED <<pc, work, rest, current>>

BodyStaysEvaluated(x, scope) == RecordEvaluated(Seen, x)

\* Nothing the body of a pack expansion evaluates dominates what follows it.
AfterPack(x, scope) == RecordEvaluated(LeaveScope(Seen, scope), x)

FinishPackExpansion ==
  /\ Perform("finishPack")
  /\ SetSeen(AfterPack(This.inst, This.scope))
  /\ steps' = Front(steps)
  /\ WalkFrame /\ UNCHANGED <<pc, work, rest, current>>

----------------------------------------------------------------------------
(* VerifyDominance: the loop over the functions of a file.                 *)

NextFunction == pc = "file" /\ ~hasErrors /\ functions # <<>>

SkipFunction ==
  /\ NextFunction /\ Head(functions) = NoBody
  /\ functions' = Tail(functions)
  /\ UNCHANGED <<pc, result, hasErrors, body, text, builder, trees, verifier>>

\* A builder and then a verifier are made for the function. The set of the
\* instructions evaluated is the one the last function used.
StartFunction ==
  /\ NextFunction /\ Head(functions) # NoBody
  /\ functions' = Tail(functions)
  /\ body' = Head(functions) /\ text' = <<>>
  /\ graph' = body'
  /\ specifics' = <<NoSpecific>> \o Specifics /\ current' = 0
  /\ pc' = "cfg"
  /\ UNCHANGED <<result, hasErrors, inRegion, search, sweep, trees, seen, work, rest, steps>>

FinishFunction ==
  /\ pc = "next" /\ result = "running" /\ specifics = <<>>
  /\ pc' = "file"
  /\ UNCHANGED <<result, input, builder, trees, verifier>>

Return(verdict) ==
  /\ pc' = "done" /\ result' = verdict
  /\ UNCHANGED <<input, builder, trees, verifier>>

ErroneousFile == pc = "file" /\ hasErrors /\ Return("ok")
ReturnError == pc = "next" /\ result = "error" /\ Return("error")
ReturnSuccess == pc = "file" /\ ~hasErrors /\ functions = <<>> /\ Return("ok")

\* Before the first function there is no body; the one here is never looked at.
NoFunctionYet == [b \in {0} |-> <<>>]

Init ==
  /\ pc = "file" /\ result = "running"
  /\ hasErrors \in BOOLEAN /\ functions \in Files
  /\ body = NoFunctionYet /\ text = <<>>
  /\ graph = body /\ inRegion = FALSE
  /\ visited = {} /\ stack = <<>> /\ postOrder = <<>>
  /\ order = <<>> /\ idom = <<>> /\ changed = FALSE
  /\ at = 0 /\ met = {} /\ newIdom = None /\ lhs = 0 /\ rhs = 0 /\ children = <<>>
  /\ domTree = <<>> /\ regionTree = <<>>
  /\ specifics = <<>>
  /\ evaluated = {} /\ evaluatedOrder = <<>>
  /\ work = <<>> /\ rest = <<>> /\ current = 0 /\ steps = <<>>

Build ==
  \/ BuildControlFlowGraph \/ BranchOutsideBody
  \/ SuccessorsVisited \/ VisitSuccessor \/ UnreachableBlock \/ AllReachable
  \/ SkipPredecessor \/ FirstPredecessor
  \/ StartIntersect \/ IntersectStep \/ FinishIntersect
  \/ SetDominator \/ NextSweep
  \/ StartTree \/ AddChild \/ BodyTree \/ RegionTree

Verify ==
  \/ NextVerify \/ RecordEvaluatedBlock \/ VerifyBlocks
  \/ VerifyBlock \/ LeaveVerifiedBlock \/ QueueChildren \/ FinishVerify
  \/ VerifyInst \/ OperandError
  \/ EvaluateInst \/ StartSpliceBlock \/ FinishSpliceBlock
  \/ StartPackExpansion \/ StartRegion \/ EnterRegionBlock \/ LeaveRegionBlock
  \/ FinishPackExpansion

VerifyDominance ==
  \/ ErroneousFile \/ SkipFunction \/ StartFunction \/ FinishFunction
  \/ ReturnError \/ ReturnSuccess

Next == Build \/ Verify \/ VerifyDominance

Spec == Init /\ [][Next]_vars

\* The verification is one call that runs until it returns.
FairSpec == Spec /\ WF_vars(Next)

----------------------------------------------------------------------------
(* What dominance means, by the paths of the graph.                        *)

\* The blocks that control can reach without passing through `avoid`: those in
\* every set that holds the entry and that no other branch leaves.
IsClosed(blocks, g, avoid) ==
  /\ {0} \ avoid \subseteq blocks
  /\ \A b \in blocks : (ToSet(g[b]) \cap DOMAIN g) \ avoid \subseteq blocks
ReachedWithout(g, avoid) ==
  {b \in DOMAIN g \ avoid :
     \A blocks \in SUBSET (DOMAIN g \ avoid) : IsClosed(blocks, g, avoid) => b \in blocks}

Dominates(g, a, b) == b \notin ReachedWithout(g, {a})

IsFlowGraph(g) ==
  /\ \A b \in DOMAIN g : ToSet(g[b]) \subseteq DOMAIN g
  /\ ReachedWithout(g, {}) = DOMAIN g

\* The uses and evaluations that running instruction x amounts to. "part" is
\* 0 before the body of a pack expansion, 1 in it and 2 after it, "in" is the
\* block of the region. Spliced and pack bodies hold no blocks themselves.
Event(part, b, k, what, x) == [part |-> part, in |-> b, k |-> k, what |-> what, inst |-> x]
Plain(x) ==
  LET uses == SetToSeq(Operands[x])
  IN [i \in DOMAIN uses |-> <<"use", uses[i]>>] \o <<<<"eval", x>>>>
Straight(x, specific) ==
  CASE Kind[x] = "spliceBlock" ->
         FlattenSeq([i \in DOMAIN Block[x] |-> Plain(Block[x][i])])
         \o <<<<"use", Result[x]>>, <<"eval", x>>>>
    [] Kind[x] = "splice" ->
         LET spliced == SplicedIn(x, specific)
         IN Plain(x) \o FlattenSeq([i \in DOMAIN spliced |-> Plain(spliced[i])])
    [] OTHER -> Plain(x)
StraightEvents(part, b, insts, specific) ==
  LET all == FlattenSeq([i \in DOMAIN insts |-> Straight(insts[i], specific)])
  IN {Event(part, b, k, all[k][1], all[k][2]) : k \in DOMAIN all}
Events(x, specific) ==
  IF Kind[x] \in {"plain", "splice", "spliceBlock"}
  THEN StraightEvents(0, 0, <<x>>, specific)
  ELSE {Event(0, 0, 0, "use", o) : o \in Operands[x]}
       \cup {Event(2, 0, 0, "eval", x)}
       \cup (IF Kind[x] = "packStatement"
             THEN UNION {StraightEvents(1, b, text.regionCode[b], specific) :
                           b \in DOMAIN text.region}
             ELSE StraightEvents(1, 0, Block[x], specific))

\* Whether event e of the i-th instruction of block b precedes event f of the
\* j-th instruction of block c on every path to the latter.
Precedes(b, i, e, c, j, f) ==
  \/ e.part # 1 /\ b # c /\ Dominates(body, b, c)
  \/ e.part # 1 /\ b = c /\ i < j
  \/ /\ b = c /\ i = j
     /\ \/ e.part = 0 /\ f.part > 0
        \/ /\ e.part = f.part
           /\ IF e.in = f.in THEN e.k < f.k ELSE Dominates(text.region, e.in, f.in)

\* Every use in the body, in this specific, is of a parameter, of something
\* that needs no evaluation, or preceded by an evaluation.
UsesAreDominated(specific) ==
  \A c \in DOMAIN body : \A j \in DOMAIN text.code[c] :
    \A f \in Events(text.code[c][j], specific) :
      f.what = "use" =>
        \/ f.inst \in Constants \cup DeclInsts \cup ImportRefs \cup ToSet(Params)
        \/ \E b \in DOMAIN body : \E i \in DOMAIN text.code[b] :
             \E e \in Events(text.code[b][i], specific) :
               e.what = "eval" /\ e.inst = f.inst /\ Precedes(b, i, e, c, j, f)

----------------------------------------------------------------------------
(* Properties.                                                             *)

\* The variables hold blocks of the graph, positions in it and instructions.
TypeOK ==
  /\ pc \in {"file", "cfg", "dfs", "sweep", "meet", "tree", "next", "params", "walk", "insts",
             "done"}
  /\ result \in {"running", "ok", "error"}
  /\ pc = "dfs" => visited \subseteq Blocks /\ ToSet(postOrder) \subseteq visited
  /\ pc \in {"sweep", "meet", "tree"} =>
       /\ ToSet(postOrder) = Blocks /\ Len(postOrder) = NumBlocks
       /\ order \in [Blocks -> 1..NumBlocks] /\ idom \in [Blocks -> Blocks \cup {None}]
       /\ at \in 2..NumBlocks + 1 /\ newIdom \in Blocks \cup {None}
  /\ evaluated \subseteq Insts /\ ToSet(evaluatedOrder) \subseteq Insts
  /\ \A i \in DOMAIN work : work[i].scopeStart \in 0..Len(evaluatedOrder)
  /\ \A i \in DOMAIN steps : steps[i].scope \in 0..Len(evaluatedOrder)

\* While intersect walks up a tree that is not finished, both its ends are
\* blocks that have a dominator already, and each step goes to a block that is
\* earlier in the order: it neither leaves the tree nor walks for ever.
IntersectClimbs ==
  pc = "meet" =>
    /\ lhs \in Blocks /\ rhs \in Blocks
    /\ \A b \in {lhs, rhs} \ {0} : idom[b] # None /\ order[idom[b]] < order[b]

IsDominatorTree(tree, g) ==
  /\ tree \in [DOMAIN g -> Seq(DOMAIN g \ {0})]
  /\ \A c \in DOMAIN g \ {0} : \E p \in DOMAIN g : c \in ToSet(tree[p])
  /\ \A p, q \in DOMAIN g : \A i \in DOMAIN tree[p], j \in DOMAIN tree[q] :
       tree[p][i] = tree[q][j] => p = q /\ i = j
  /\ \A p \in DOMAIN g : \A c \in ToSet(tree[p]) :
       /\ p # c /\ Dominates(g, p, c)
       /\ \A d \in DOMAIN g \ {c} : Dominates(g, d, c) => Dominates(g, d, p)

\* The tree Build returns, for a body and for a region, has every block but
\* the entry below its immediate dominator, also in loops and in graphs that
\* no structured statement makes.
TreeIsDominance ==
  /\ pc = "next" /\ text # <<>> => IsDominatorTree(domTree, body)
  /\ pc = "insts" /\ steps # <<>> /\ This.kind = "enterRegion" =>
       IsDominatorTree(regionTree, text.region)

\* The body is a flow graph in which every use is dominated, in general and in
\* each specific.
IsSound ==
  /\ IsFlowGraph(body)
  /\ \A s \in AllSpecifics : UsesAreDominated(s)

\* Each function of a file without errors is found wrong exactly if its body is
\* not sound, whatever the functions before it evaluated. VerifyDominance fails
\* for such a function only; it succeeds if it has been through all functions,
\* and always for a file with errors, of which it looks at none.
VerdictIsExact ==
  /\ pc = "next" /\ (result = "error" \/ specifics = <<>>) =>
       (result = "running" <=> IsSound)
  /\ pc = "done" =>
       CASE result = "error" -> ~hasErrors /\ ~IsSound
         [] result = "ok" -> hasErrors \/ functions = <<>>
         [] OTHER -> FALSE
  /\ hasErrors => pc \in {"file", "done"}

\* The instructions evaluated and the order that undoes them agree, and the
\* set that all verifications and functions share is empty between them, also
\* after errors.
EvaluatedIsUndone ==
  /\ evaluated = ToSet(evaluatedOrder) /\ Len(evaluatedOrder) = Cardinality(evaluated)
  /\ pc \in {"file", "next", "done"} => evaluated = {}

\* The search, the sweeps and the walk come to an end.
VerificationEnds == <>(pc = "done")

=============================================================================
