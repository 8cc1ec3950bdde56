--------------------------- MODULE DominanceProofs ---------------------------
(***************************************************************************)
(* For every graph, Build returns the dominator tree, and for every body,  *)
(* Verify leaves nothing evaluated behind.                                 *)
(***************************************************************************)
EXTENDS Dominance, FiniteSetTheorems, WellFoundedInduction, TLAPS

----------------------------------------------------------------------------
(* Graphs, orders of their blocks and unfinished dominator trees            *)

Edge(g, p, b) == b \in ToSet(g[p])

Inside(g) == \A p \in DOMAIN g : ToSet(g[p]) \subseteq DOMAIN g

\* Every block but the entry has a predecessor that comes before it.
Ordering(g, ord) ==
  /\ ord \in [DOMAIN g -> 1..Cardinality(DOMAIN g)]
  /\ \A a, b \in DOMAIN g : ord[a] = ord[b] => a = b
  /\ ord[0] = 1
  /\ \A b \in DOMAIN g \ {0} : \E p \in DOMAIN g : Edge(g, p, b) /\ ord[p] < ord[b]

\* a is x or above it in the tree.
Rises(blocks, dom) == \A b \in blocks : dom[b] # None => dom[b] \in blocks
Above(g, dom, a, x) ==
  \A blocks \in SUBSET DOMAIN g : x \in blocks /\ Rises(blocks, dom) => a \in blocks

\* The tree so far leads to the entry, through blocks that come earlier.
Climbs(g, ord, dom) ==
  /\ dom \in [DOMAIN g -> DOMAIN g \cup {None}] /\ dom[0] = 0
  /\ \A b \in DOMAIN g : dom[b] # None => dom[dom[b]] # None
  /\ \A b \in DOMAIN g \ {0} : dom[b] # None => ord[dom[b]] < ord[b]

\* It skips no dominator.
Over(g, b, x) == \A d \in DOMAIN g \ {b} : Dominates(g, d, b) => Dominates(g, d, x)
SkipsNone(g, dom) ==
  \A b \in DOMAIN g \ {0} : dom[b] # None => Over(g, b, dom[b])

\* The blocks are numbers, the entry one of them.
LEMMA Graphs ==
  ASSUME NEW g, IsGraph(g)
  PROVE  /\ Cardinality(DOMAIN g) \in Nat /\ Cardinality(DOMAIN g) > 0
         /\ 0 \in DOMAIN g /\ DOMAIN g \subseteq Nat /\ None \notin DOMAIN g
         /\ \A b \in DOMAIN g : b < Cardinality(DOMAIN g)
<1>1. Cardinality(DOMAIN g) \in Nat
  BY FS_CardinalityType DEF IsGraph
<1>2. DOMAIN g # {} /\ DOMAIN g = 0..Cardinality(DOMAIN g) - 1
  BY DEF IsGraph
<1> QED
  BY <1>1, <1>2 DEF None

\* A branch to b from where control gets to without passing d brings it to b.
LEMMA DominatesPredecessor ==
  ASSUME NEW g, NEW d \in DOMAIN g, NEW b \in DOMAIN g \ {d}, NEW p \in DOMAIN g,
         Edge(g, p, b), Dominates(g, d, b)
  PROVE  Dominates(g, d, p)
<1>1. CASE p = d
  BY <1>1 DEF Dominates, ReachedWithout
<1>2. CASE p # d
  <2>1. PICK blocks \in SUBSET (DOMAIN g \ {d}) : IsClosed(blocks, g, {d}) /\ b \notin blocks
    BY DEF Dominates, ReachedWithout
  <2>2. p \notin blocks
    BY <2>1 DEF IsClosed, Edge
  <2> QED
    BY <1>2, <2>1, <2>2 DEF Dominates, ReachedWithout
<1> QED
  BY <1>1, <1>2

\* A block comes after its dominators: the predecessors that come before it
\* lead to it without any later block.
LEMMA DominatorsComeFirst ==
  ASSUME NEW g, IsGraph(g), NEW ord, Ordering(g, ord),
         NEW d \in DOMAIN g, NEW x \in DOMAIN g, Dominates(g, d, x)
  PROVE  ord[d] <= ord[x]
<1> SUFFICES ASSUME ord[x] < ord[d] PROVE FALSE
  BY Graphs DEF Ordering
<1>1. PICK blocks \in SUBSET (DOMAIN g \ {d}) : IsClosed(blocks, g, {d}) /\ x \notin blocks
  <2>1. x # d
    BY Graphs DEF Ordering
  <2> QED
    BY <2>1 DEF Dominates, ReachedWithout
<1> DEFINE Missing == {k \in Nat : \E y \in DOMAIN g \ blocks : ord[y] = k /\ k < ord[d]}
<1>2. Missing # {} /\ Missing \subseteq Nat
  BY <1>1, Graphs DEF Ordering
<1>3. PICK k \in Missing : \A j \in Missing : <<j, k>> \notin OpToRel(<, Nat)
  BY <1>2, WFMin, NatLessThanWellFounded
<1> HIDE DEF Missing
<1>4. PICK y \in DOMAIN g \ blocks : ord[y] = k /\ k < ord[d] /\ k \in Nat
  BY <1>3 DEF Missing
<1>5. 0 \in blocks
  BY <1>1, Graphs DEF IsClosed, Ordering
<1>6. PICK p \in DOMAIN g : Edge(g, p, y) /\ ord[p] < ord[y]
  BY <1>4, <1>5 DEF Ordering
<1>7. ord[p] \in Nat
  BY Graphs DEF Ordering
<1>8. p \in blocks
  <2>1. SUFFICES ASSUME p \notin blocks PROVE FALSE
    OBVIOUS
  <2>2. ord[p] \in Missing
    BY <1>4, <1>6, <1>7, <2>1, Graphs DEF Missing, Ordering
  <2> QED
    BY <1>3, <1>4, <1>6, <1>7, <2>2 DEF OpToRel
<1>9. y \in blocks
  BY <1>1, <1>4, <1>6, <1>8 DEF IsClosed, Edge
<1> QED
  BY <1>4, <1>9

\* What is above a block is above what it is above of.
LEMMA AboveTransitive ==
  ASSUME NEW g, NEW dom, NEW a, NEW b, NEW c, Above(g, dom, a, b), Above(g, dom, b, c)
  PROVE  Above(g, dom, a, c)
  BY DEF Above

\* The dominator of what is above a block is above the block.
LEMMA AboveFirst ==
  ASSUME NEW g, NEW dom, NEW a, NEW x, Above(g, dom, a, x),
         dom[a] # None
  PROVE  Above(g, dom, dom[a], x)
  BY DEF Above, Rises

\* A block is above itself.
LEMMA AboveSelf == ASSUME NEW g, NEW dom, NEW x PROVE Above(g, dom, x, x)
  BY DEF Above

\* What is above a block is the block or above its dominator.
LEMMA AboveNext ==
  ASSUME NEW g, NEW dom, NEW a, NEW x \in DOMAIN g, Above(g, dom, a, x), a # x,
         dom[x] \in DOMAIN g
  PROVE  Above(g, dom, a, dom[x])
<1> SUFFICES ASSUME NEW blocks \in SUBSET DOMAIN g, dom[x] \in blocks, Rises(blocks, dom)
             PROVE  a \in blocks
  BY DEF Above
<1>1. Rises(blocks \cup {x}, dom)
  BY DEF Rises
<1> QED
  BY <1>1 DEF Above

\* If the dominator of every block is above all its predecessors, then what is
\* above a block dominates it: no branch enters a subtree but at its root.
LEMMA FixedPointDominates ==
  ASSUME NEW g, IsGraph(g), NEW dom \in [DOMAIN g -> DOMAIN g], dom[0] = 0,
         \A b \in DOMAIN g \ {0}, p \in DOMAIN g : Edge(g, p, b) => Above(g, dom, dom[b], p),
         NEW a \in DOMAIN g, NEW x \in DOMAIN g, Above(g, dom, a, x)
  PROVE  Dominates(g, a, x)
<1> DEFINE Outside == {y \in DOMAIN g : ~Above(g, dom, a, y)}
<1>1. Outside \subseteq DOMAIN g \ {a}
  BY AboveSelf
<1>2. x \notin Outside
  OBVIOUS
<1>3. ASSUME a # 0 PROVE 0 \in Outside
  <2>1. Rises({0}, dom) /\ 0 \in DOMAIN g
    BY Graphs DEF Rises
  <2> QED
    BY <1>3, <2>1 DEF Above
<1>4. ASSUME NEW p \in Outside, NEW b \in DOMAIN g \ {a}, Edge(g, p, b)
      PROVE  b \in Outside
  <2> SUFFICES ASSUME Above(g, dom, a, b) PROVE FALSE
    OBVIOUS
  <2>1. b # 0
    <3>1. CASE a = 0
      BY <3>1
    <3>2. CASE a # 0
      BY <1>3, <3>2
    <3> QED
      BY <3>1, <3>2
  <2>2. Above(g, dom, a, dom[b])
    BY AboveNext
  <2>3. Above(g, dom, dom[b], p)
    BY <1>4, <2>1
  <2> QED
    BY <1>4, <2>2, <2>3, AboveTransitive
<1> HIDE DEF Outside
<1>5. IsClosed(Outside, g, {a})
  BY <1>3, <1>4 DEF IsClosed, Edge
<1> QED
  BY <1>1, <1>2, <1>5 DEF Dominates, ReachedWithout
----------------------------------------------------------------------------
(* The inductive invariant of Build                                         *)

Sorted == {"sweep", "meet", "tree"}
Building == {"dfs"} \cup Sorted
Walking == {"params", "walk", "insts"}
PCs == {"file", "cfg", "next", "done"} \cup Building \cup Walking

\* What is built is the tree of the body or of the region. There is a body
\* once the first function has started.
GraphInv ==
  /\ pc \in PCs /\ result \in {"running", "ok", "error"}
  /\ body \in Bodies \cup {NoFunctionYet} /\ (pc \notin {"file", "done"} => body \in Bodies)
  /\ IsGraph(graph) /\ inRegion \in BOOLEAN
  /\ ~inRegion => graph = body
  /\ inRegion => graph = text.region /\ pc \in {"cfg"} \cup Building
  /\ pc \in Building => Inside(graph)

\* The search. Blocks whose successors it has visited are in post, those it
\* is at are on the stack, with a branch from each to the next. Blocks were
\* reached from one that is on the stack or later in post.
OnStack(stk, b) == \E i \in 1..Len(stk) : stk[i].block = b
Search(g, vis, stk, post) ==
  /\ stk \in Seq([block : DOMAIN g, numVisited : Nat]) /\ post \in Seq(DOMAIN g)
  /\ vis = {b \in DOMAIN g : OnStack(stk, b) \/ \E j \in 1..Len(post) : post[j] = b}
  /\ \A i, j \in 1..Len(stk) : stk[i].block = stk[j].block => i = j
  /\ \A i, j \in 1..Len(post) : post[i] = post[j] => i = j
  /\ \A j \in 1..Len(post) : ~OnStack(stk, post[j])
  /\ IF stk = <<>> THEN post # <<>> /\ post[Len(post)] = 0 ELSE stk[1].block = 0
  /\ \A i \in 1..Len(stk) : i > 1 => Edge(g, stk[i - 1].block, stk[i].block)
  /\ \A j \in 1..Len(post) : post[j] # 0 =>
       \E p \in DOMAIN g :
         Edge(g, p, post[j]) /\ (OnStack(stk, p) \/ \E k \in 1..Len(post) : k > j /\ post[k] = p)
SearchInv == pc = "dfs" => Search(graph, visited, stack, postOrder)

Reversed(g, ord, post) ==
  /\ post \in Seq(DOMAIN g) /\ Len(post) = Cardinality(DOMAIN g)
  /\ \A i \in 1..Cardinality(DOMAIN g) : ord[post[(Len(post) - i) + 1]] = i
OrderInv == pc \in Sorted => Ordering(graph, order) /\ Reversed(graph, order, postOrder)

\* If nothing changes, the blocks of this sweep have dominators above all
\* their predecessors.
Settled(g, ord, dom, k) ==
  \A b \in DOMAIN g \ {0} : ord[b] < k =>
    \A p \in DOMAIN g : Edge(g, p, b) /\ dom[p] # None => Above(g, dom, dom[b], p)

\* A candidate is above the predecessors it comes from, and skips no dominator.
Meets(g, ord, dom, a, x) == ord[a] <= ord[x] /\ Above(g, dom, a, x)
Candidate(g, ord, dom, b, branches, new) ==
  /\ new # None => dom[new] # None /\ Over(g, b, new)
  /\ \A e \in branches : dom[e[1]] # None => new # None /\ Meets(g, ord, dom, new, e[1])
Given(g, ord, dom, k) == \A b \in DOMAIN g : ord[b] < k => dom[b] # None
PlaceInv ==
  pc \in Sorted => at \in 2..NumBlocks + 1 /\ newIdom \in Blocks \cup {None} /\ changed \in BOOLEAN
IdomInv ==
  pc \in Sorted =>
    /\ Climbs(graph, order, idom) /\ SkipsNone(graph, idom)
    /\ pc # "tree" => Given(graph, order, idom, at) /\ (~changed => Settled(graph, order, idom, at))
CandidateInv ==
  pc \in {"sweep", "meet"} /\ at <= NumBlocks =>
    met \subseteq Edges /\ Candidate(graph, order, idom, Sweeping, met, newIdom)

\* Both ends of intersect are candidates.
MeetInv ==
  pc = "meet" =>
    /\ at <= NumBlocks /\ Left # {} /\ idom[Predecessor] # None /\ newIdom # None
    /\ lhs \in Blocks /\ rhs \in Blocks /\ idom[lhs] # None /\ idom[rhs] # None
    /\ Over(graph, Sweeping, lhs) /\ Over(graph, Sweeping, rhs)
    /\ Meets(graph, order, idom, lhs, Predecessor) /\ Meets(graph, order, idom, rhs, newIdom)

\* The tree holds each of the blocks before `at` once, below its dominator.
Children(g, ord, dom, tree, k) ==
  /\ tree \in [DOMAIN g -> Seq(DOMAIN g \ {0})]
  /\ \A p \in DOMAIN g : \A i \in 1..Len(tree[p]) : dom[tree[p][i]] = p /\ ord[tree[p][i]] < k
  /\ \A b \in DOMAIN g \ {0} : ord[b] < k => \E i \in 1..Len(tree[dom[b]]) : tree[dom[b]][i] = b
  /\ \A p \in DOMAIN g : \A i, j \in 1..Len(tree[p]) : tree[p][i] = tree[p][j] => i = j
ChildInv ==
  pc = "tree" =>
    /\ \A b \in Blocks : idom[b] # None
    /\ \A b \in Blocks \ {0} : Dominates(graph, idom[b], b)
    /\ Children(graph, order, idom, children, at)

----------------------------------------------------------------------------
(* The inductive invariant of Verify                                        *)

\* A verification under way has a tree.
Ready == pc \in Walking \/ inRegion \/ (pc = "next" /\ result = "running")
ReadyInv == Ready => IsText(text, body) /\ IsDominatorTree(domTree, body)
TreeInv == text # <<>> => IsDominatorTree(domTree, body)

\* The instructions evaluated are listed once each.
Listed(ev) ==
  /\ ev.order \in Seq(Insts) /\ ev.set = ToSet(ev.order)
  /\ \A i, j \in 1..Len(ev.order) : ev.order[i] = ev.order[j] => i = j
SeenInv == Listed(Seen)

\* A scope that is left holds the scopes that are left after it. n are
\* evaluated.
WalkStep == [block : DOMAIN body \cup {None}, scopeStart : Nat]
InnerLast(list, n) ==
  /\ \A i \in 1..Len(list) : list[i].scopeStart <= n
  /\ \A i, j \in 1..Len(list) :
       i < j /\ list[j].block = None => list[i].scopeStart <= list[j].scopeStart
WorkInv == work \in Seq(WalkStep) /\ InnerLast(work, Len(evaluatedOrder))

Scoped == {"finishPack", "leaveRegion"}
StepSet ==
  [kind : {"inst", "finishSplice", "enterRegion"} \cup Scoped,
   inst : Insts, block : Int, scope : Nat]
Nested(list, blocks, n) ==
  /\ \A i \in 1..Len(list) : list[i].scope <= n
  /\ \A i, j \in 1..Len(list) : i < j /\ list[j].kind \in Scoped => list[i].scope <= list[j].scope
  /\ \A i \in 1..Len(blocks), j \in 1..Len(list) :
       list[j].kind \in Scoped => blocks[i].scopeStart <= list[j].scope

\* The blocks of a region can be entered once it has its tree.
Region == {b \in DOMAIN text.region : IsDominatorTree(regionTree, text.region)}
Enters(list, blocks) ==
  \A i \in 1..Len(list) : list[i].kind = "enterRegion" => list[i].block \in blocks
StepsInv ==
  /\ steps \in Seq(StepSet) /\ Enters(steps, Region)
  /\ Nested(steps, work, Len(evaluatedOrder))
RestInv ==
  /\ rest \in Seq(Insts) /\ current \in DOMAIN body
  /\ specifics \in Seq(AllSpecifics) /\ (pc \in Walking \/ inRegion => specifics # <<>>)
  /\ pc # "insts" /\ ~inRegion => steps = <<>>
  /\ inRegion => steps # <<>>
  /\ pc \notin Walking /\ ~inRegion => evaluatedOrder = <<>> /\ work = <<>>

BuildInv ==
  GraphInv /\ SearchInv /\ OrderInv /\ PlaceInv /\ IdomInv /\ CandidateInv /\ MeetInv /\ ChildInv
VerifyInv ==
  ReadyInv /\ TreeInv /\ SeenInv /\ WorkInv /\ StepsInv /\ RestInv
IInv == BuildInv /\ VerifyInv

\* The functions to come have bodies or are only declared.
FileInv == functions \in Seq(Bodies \cup {NoBody})

----------------------------------------------------------------------------
(* Branches                                                                 *)

\* A nonempty set of natural numbers has a least one.
LEMMA Least ==
  ASSUME NEW S \in SUBSET Nat, S # {}
  PROVE  \E k \in S : \A j \in S : k <= j
<1>1. PICK k \in S : \A j \in S : <<j, k>> \notin OpToRel(<, Nat)
  BY WFMin, NatLessThanWellFounded
<1>2. ASSUME NEW j \in S PROVE k <= j
  <2>1. ~(j < k)
    BY <1>1 DEF OpToRel
  <2> QED
    BY <2>1
<1> QED
  BY <1>2

\* The branches of a graph, by their blocks.
LEMMA EdgesAreBranches ==
  ASSUME IsGraph(graph)
  PROVE  /\ \A e \in Edges : /\ e = <<e[1], e[2]>> /\ e[1] \in Blocks /\ e[2] \in Nat
                             /\ Edge(graph, e[1], graph[e[1]][e[2]])
         /\ \A b : \A p \in Blocks : Edge(graph, p, b) =>
              \E e \in Edges : e[1] = p /\ graph[e[1]][e[2]] = b
<1>1. \A p \in Blocks : graph[p] \in Seq(Nat)
  BY DEF IsGraph, Blocks
<1>2. ASSUME NEW e \in Edges
      PROVE  /\ e = <<e[1], e[2]>> /\ e[1] \in Blocks /\ e[2] \in Nat
             /\ Edge(graph, e[1], graph[e[1]][e[2]])
  <2>1. PICK p \in Blocks : e \in {p} \X DOMAIN graph[p]
    BY DEF Edges
  <2>2. DOMAIN graph[p] = 1..Len(graph[p]) /\ Len(graph[p]) \in Nat
    BY <1>1
  <2> QED
    BY <2>1, <2>2 DEF Edge, ToSet
<1>3. ASSUME NEW p \in Blocks, NEW b, Edge(graph, p, b)
      PROVE  \E e \in Edges : e[1] = p /\ graph[e[1]][e[2]] = b
  <2>1. PICK k \in DOMAIN graph[p] : graph[p][k] = b
    BY <1>3 DEF Edge, ToSet
  <2>2. <<p, k>> \in Edges
    BY DEF Edges
  <2> QED
    BY <2>1, <2>2
<1> QED
  BY <1>2, <1>3

\* First picks a branch.
LEMMA FirstBranch ==
  ASSUME IsGraph(graph), NEW S \in SUBSET Edges, S # {}
  PROVE  First(S) \in S
<1>1. \A e \in S : e[1] \in Nat /\ e[2] \in Nat
  BY EdgesAreBranches, Graphs DEF Blocks
<1> DEFINE Froms == {e[1] : e \in S}
<1>2. Froms \in SUBSET Nat /\ Froms # {}
  BY <1>1
<1>3. PICK p \in Froms : \A q \in Froms : p <= q
  BY <1>2, Least
<1> DEFINE Places == {e[2] : e \in {f \in S : f[1] = p}}
<1>4. Places \in SUBSET Nat /\ Places # {}
  BY <1>1, <1>3
<1>5. PICK k \in Places : \A l \in Places : k <= l
  BY <1>4, Least
<1>6. PICK e \in S : e[1] = p /\ e[2] = k
  BY <1>5
<1>7. ASSUME NEW f \in S PROVE e[1] < f[1] \/ (e[1] = f[1] /\ e[2] <= f[2])
  <2>1. e[1] <= f[1]
    BY <1>3, <1>6
  <2>2. f[1] = p => e[2] <= f[2]
    BY <1>5, <1>6
  <2> QED
    BY <1>1, <1>6, <2>1, <2>2
<1> QED
  BY <1>7 DEF First
----------------------------------------------------------------------------
(* The search                                                               *)

\* The last element of a sequence and those before it.
LEMMA FrontAndLast ==
  ASSUME NEW S, NEW s \in Seq(S), s # <<>>
  PROVE  /\ Front(s) \in Seq(S) /\ Len(Front(s)) = Len(s) - 1 /\ Len(s) \in Nat /\ Len(s) > 0
         /\ \A i \in 1..Len(s) - 1 : Front(s)[i] = s[i]
         /\ Last(s) \in S /\ Last(s) = s[Len(s)]
<1>1. Len(s) \in Nat /\ Len(s) > 0 /\ \A i \in 1..Len(s) : s[i] \in S
  OBVIOUS
<1>2. Last(s) = s[Len(s)] /\ Len(s) \in 1..Len(s)
  BY <1>1 DEF Last
<1>3. Front(s) = SubSeq(s, 1, Len(s) - 1)
  BY DEF Front
<1>4. /\ SubSeq(s, 1, Len(s) - 1) \in Seq(S) /\ Len(SubSeq(s, 1, Len(s) - 1)) = Len(s) - 1
      /\ \A i \in 1..Len(s) - 1 : SubSeq(s, 1, Len(s) - 1)[i] = s[i]
  <2> DEFINE n == Len(s) - 1
  <2>1. n \in Nat /\ n <= Len(s)
    BY <1>1
  <2> HIDE DEF n
  <2>2. Len(SubSeq(s, 1, n)) = n /\ \A i \in 1..n : SubSeq(s, 1, n)[i] = s[i]
    BY <2>1
  <2>3. SubSeq(s, 1, n) \in Seq(S)
    BY <2>1
  <2> QED
    BY <2>2, <2>3 DEF n
<1> QED
  BY <1>1, <1>2, <1>3, <1>4

Entries(g) == [block : DOMAIN g, numVisited : Nat]
Stack(g) == Seq(Entries(g))

\* It starts at the entry.
LEMMA SearchStarts ==
  ASSUME NEW g, IsGraph(g)
  PROVE  Search(g, {0}, <<[block |-> 0, numVisited |-> 0]>>, <<>>)
<1> DEFINE stk == <<[block |-> 0, numVisited |-> 0]>>
<1>1. stk \in Stack(g) /\ Len(stk) = 1 /\ stk[1].block = 0 /\ stk # <<>>
  BY Graphs DEF Stack, Entries
<1>2. \A i \in 1..Len(stk) : i = 1
  BY <1>1
<1>3. \A b : OnStack(stk, b) <=> b = 0
  BY <1>1, <1>2 DEF OnStack
<1>4. <<>> \in Seq(DOMAIN g) /\ 1..Len(<<>>) = {}
  OBVIOUS
<1> HIDE DEF stk
<1>5. {0} = {b \in DOMAIN g : OnStack(stk, b)}
  BY <1>3, Graphs
<1> QED
  BY <1>1, <1>2, <1>4, <1>5 DEF Search, Stack, Entries, stk

\* A block all of whose successors are visited leaves the stack.
LEMMA SearchPops ==
  ASSUME NEW g, IsGraph(g), NEW vis, NEW stk, NEW post, Search(g, vis, stk, post), stk # <<>>
  PROVE  Search(g, vis, Front(stk), Append(post, Last(stk).block))
<1> DEFINE n == Len(stk)
           front == Front(stk)
           b == Last(stk).block
           post1 == Append(post, b)
<1>1. stk \in Stack(g) /\ post \in Seq(DOMAIN g) /\ n \in Nat /\ n > 0 /\ Len(post) \in Nat
  BY DEF Search, Stack, Entries
<1>2. /\ front \in Stack(g) /\ Len(front) = n - 1
      /\ \A i \in 1..n - 1 : front[i] = stk[i]
  BY <1>1, FrontAndLast DEF Stack
<1>3. b \in DOMAIN g /\ b = stk[n].block
  <2>1. Last(stk) \in Entries(g) /\ Last(stk) = stk[n]
    BY <1>1, FrontAndLast DEF Stack
  <2> QED
    BY <2>1 DEF Entries
<1>4. /\ post1 \in Seq(DOMAIN g) /\ Len(post1) = Len(post) + 1 /\ post1[Len(post) + 1] = b
      /\ \A j \in 1..Len(post) : post1[j] = post[j]
  BY <1>1, <1>3
<1> HIDE DEF front, post1, b
<1>5. \A c : OnStack(stk, c) <=> OnStack(front, c) \/ c = b
  BY <1>1, <1>2, <1>3 DEF OnStack
<1>6. \A c : (\E j \in 1..Len(post1) : post1[j] = c)
               <=> (\E j \in 1..Len(post) : post[j] = c) \/ c = b
  BY <1>1, <1>4
<1>7. \A i, j \in 1..n : stk[i].block = stk[j].block => i = j
  BY DEF Search
<1>8. ~OnStack(front, b)
  BY <1>1, <1>2, <1>3, <1>7 DEF OnStack
<1>9. vis = {c \in DOMAIN g : OnStack(front, c) \/ \E j \in 1..Len(post1) : post1[j] = c}
  <2>1. vis = {c \in DOMAIN g : OnStack(stk, c) \/ \E j \in 1..Len(post) : post[j] = c}
    BY DEF Search
  <2> QED
    BY <1>5, <1>6, <2>1
<1>10. \A i, j \in 1..Len(front) : front[i].block = front[j].block => i = j
  BY <1>1, <1>2, <1>7
<1>11. \A j \in 1..Len(post) : ~OnStack(stk, post[j]) /\ post[j] # b
  BY <1>5 DEF Search
<1>12. \A i, j \in 1..Len(post1) : post1[i] = post1[j] => i = j
  <2>1. \A i, j \in 1..Len(post) : post[i] = post[j] => i = j
    BY DEF Search
  <2> QED
    BY <1>1, <1>4, <1>11, <2>1
<1>13. \A j \in 1..Len(post1) : ~OnStack(front, post1[j])
  BY <1>1, <1>4, <1>5, <1>8, <1>11
<1>14. stk[1].block = 0
  BY DEF Search
<1>15. IF front = <<>> THEN post1 # <<>> /\ post1[Len(post1)] = 0 ELSE front[1].block = 0
  <2>1. CASE n = 1
    <3>1. front = <<>>
      BY <1>2, <2>1 DEF Stack
    <3> QED
      BY <1>1, <1>3, <1>4, <1>14, <2>1, <3>1
  <2>2. CASE n # 1
    BY <1>1, <1>2, <1>14, <2>2
  <2> QED
    BY <2>1, <2>2
<1>16. \A i \in 1..Len(front) : i > 1 => Edge(g, front[i - 1].block, front[i].block)
  <2>1. \A i \in 1..n : i > 1 => Edge(g, stk[i - 1].block, stk[i].block)
    BY DEF Search
  <2> QED
    BY <1>1, <1>2, <2>1
<1>17. ASSUME NEW j \in 1..Len(post1), post1[j] # 0
       PROVE  \E p \in DOMAIN g :
                /\ Edge(g, p, post1[j])
                /\ OnStack(front, p) \/ \E k \in 1..Len(post1) : k > j /\ post1[k] = p
  <2>1. CASE j = Len(post) + 1
    <3>1. n > 1
      BY <1>1, <1>3, <1>4, <1>14, <1>17, <2>1
    <3>2. Edge(g, stk[n - 1].block, b)
      BY <1>1, <1>3, <3>1 DEF Search
    <3>3. stk[n - 1].block \in DOMAIN g /\ OnStack(front, stk[n - 1].block)
      <4>1. n - 1 \in 1..n - 1 /\ n - 1 \in 1..n /\ front[n - 1] = stk[n - 1]
        BY <1>1, <1>2, <3>1
      <4>2. stk[n - 1] \in Entries(g)
        BY <1>1, <4>1 DEF Stack
      <4> QED
        BY <1>2, <4>1, <4>2 DEF OnStack, Entries
    <3> QED
      BY <1>4, <2>1, <3>2, <3>3
  <2>2. CASE j \in 1..Len(post)
    <3>1. post1[j] = post[j]
      BY <1>4, <2>2
    <3>2. PICK p \in DOMAIN g :
            /\ Edge(g, p, post[j])
            /\ OnStack(stk, p) \/ \E k \in 1..Len(post) : k > j /\ post[k] = p
      BY <1>17, <2>2, <3>1 DEF Search
    <3>3. CASE \E k \in 1..Len(post) : k > j /\ post[k] = p
      BY <1>1, <1>4, <3>1, <3>2, <3>3
    <3>4. CASE OnStack(front, p)
      BY <3>1, <3>2, <3>4
    <3>5. CASE p = b
      <4>1. Len(post) + 1 \in 1..Len(post1) /\ Len(post) + 1 > j
        BY <1>1, <1>4, <2>2
      <4> QED
        BY <1>4, <3>1, <3>2, <3>5, <4>1
    <3> QED
      BY <1>5, <3>2, <3>3, <3>4, <3>5
  <2> QED
    BY <1>1, <1>4, <2>1, <2>2
<1> QED
  BY <1>2, <1>4, <1>9, <1>10, <1>12, <1>13, <1>15, <1>16, <1>17
     DEF Search, Stack, Entries, front, post1, b

\* Counting a successor changes no block on the stack.
LEMMA SearchCounts ==
  ASSUME NEW g, NEW vis, NEW stk, NEW post, Search(g, vis, stk, post), stk # <<>>,
         NEW stk1, stk1 = [stk EXCEPT ![Len(stk)].numVisited = @ + 1]
  PROVE  /\ Search(g, vis, stk1, post) /\ stk1 # <<>>
         /\ Last(stk1).block = Last(stk).block /\ Len(stk1) = Len(stk)
<1> DEFINE n == Len(stk)
<1>1. stk \in Stack(g) /\ n \in Nat /\ n > 0
  BY DEF Search, Stack, Entries
<1>2. stk[n] \in Entries(g)
  BY <1>1 DEF Stack
<1>3. [stk[n] EXCEPT !.numVisited = @ + 1] \in Entries(g)
  BY <1>2 DEF Entries
<1>4. stk1 \in Stack(g) /\ Len(stk1) = n
  BY <1>1, <1>3 DEF Stack
<1>5. ASSUME NEW i \in 1..n PROVE stk1[i].block = stk[i].block
  <2>1. CASE i = n
    <3>1. stk1[n] = [stk[n] EXCEPT !.numVisited = @ + 1]
      BY <1>1 DEF Stack
    <3> QED
      BY <1>2, <2>1, <3>1 DEF Entries
  <2>2. CASE i # n
    BY <1>1, <2>2 DEF Stack
  <2> QED
    BY <2>1, <2>2
<1>6. stk1 # <<>>
  BY <1>1, <1>4
<1>7. \A b : OnStack(stk1, b) <=> OnStack(stk, b)
  BY <1>4, <1>5 DEF OnStack
<1>8. \A i, j \in 1..n : stk1[i].block = stk1[j].block => i = j
  BY <1>5 DEF Search
<1>9. \A i \in 1..n : i > 1 => Edge(g, stk1[i - 1].block, stk1[i].block)
  <2>1. \A i \in 1..n : i > 1 => Edge(g, stk[i - 1].block, stk[i].block)
    BY DEF Search
  <2>2. \A i \in 1..n : i > 1 => i - 1 \in 1..n
    BY <1>1
  <2> QED
    BY <1>5, <2>1, <2>2
<1>10. 1 \in 1..n /\ n \in 1..n
  BY <1>1
<1>11. stk1[1].block = 0
  BY <1>5, <1>10 DEF Search
<1>12. Last(stk1).block = Last(stk).block
  BY <1>4, <1>5, <1>10 DEF Last
<1>13. Search(g, vis, stk1, post)
  <2>1. post \in Seq(DOMAIN g) /\ \A i, j \in 1..Len(post) : post[i] = post[j] => i = j
    BY DEF Search
  <2>2. vis = {b \in DOMAIN g : OnStack(stk1, b) \/ \E j \in 1..Len(post) : post[j] = b}
    BY <1>7 DEF Search
  <2>3. \A j \in 1..Len(post) : ~OnStack(stk1, post[j])
    BY <1>7 DEF Search
  <2>4. \A j \in 1..Len(post) : post[j] # 0 =>
          \E p \in DOMAIN g :
            /\ Edge(g, p, post[j])
            /\ OnStack(stk1, p) \/ \E k \in 1..Len(post) : k > j /\ post[k] = p
    BY <1>7 DEF Search
  <2> QED
    BY <1>4, <1>6, <1>8, <1>9, <1>11, <2>1, <2>2, <2>3, <2>4 DEF Search, Stack, Entries
<1> QED
  BY <1>4, <1>6, <1>12, <1>13

\* A successor that is new goes on the stack.
LEMMA SearchPushes ==
  ASSUME NEW g, IsGraph(g), NEW vis, NEW stk, NEW post, Search(g, vis, stk, post), stk # <<>>,
         NEW b \in DOMAIN g \ vis, Edge(g, Last(stk).block, b)
  PROVE  Search(g, vis \cup {b}, Append(stk, [block |-> b, numVisited |-> 0]), post)
<1> DEFINE n == Len(stk)
           top == [block |-> b, numVisited |-> 0]
           stk1 == Append(stk, top)
<1>1. stk \in Stack(g) /\ n \in Nat /\ n > 0 /\ post \in Seq(DOMAIN g)
  BY DEF Search, Stack, Entries
<1>2. top \in Entries(g) /\ top.block = b
  BY DEF Entries
<1> HIDE DEF top
<1>3. /\ stk1 \in Stack(g) /\ Len(stk1) = n + 1 /\ stk1[n + 1] = top
      /\ \A i \in 1..n : stk1[i] = stk[i]
  BY <1>1, <1>2 DEF Stack
<1>4. stk1 # <<>>
  BY <1>1, <1>3
<1> HIDE DEF stk1
<1>5. \A c : OnStack(stk1, c) <=> OnStack(stk, c) \/ c = b
  BY <1>1, <1>2, <1>3 DEF OnStack
<1>6. vis = {c \in DOMAIN g : OnStack(stk, c) \/ \E j \in 1..Len(post) : post[j] = c}
  BY DEF Search
<1>7. ~OnStack(stk, b) /\ \A j \in 1..Len(post) : post[j] # b
  BY <1>6
<1>8. vis \cup {b} = {c \in DOMAIN g : OnStack(stk1, c) \/ \E j \in 1..Len(post) : post[j] = c}
  BY <1>5, <1>6
<1>9. ASSUME NEW i \in 1..Len(stk1), NEW j \in 1..Len(stk1), stk1[i].block = stk1[j].block
      PROVE  i = j
  <2>1. \A k \in 1..n : stk[k].block # b
    BY <1>7 DEF OnStack
  <2>2. CASE i \in 1..n /\ j \in 1..n
    BY <1>3, <1>9, <2>2 DEF Search
  <2>3. CASE i = n + 1 \/ j = n + 1
    BY <1>1, <1>2, <1>3, <1>9, <2>1, <2>3
  <2> QED
    BY <1>1, <1>3, <2>2, <2>3
<1>10. \A j \in 1..Len(post) : ~OnStack(stk1, post[j])
  BY <1>5, <1>7 DEF Search
<1>11. stk1[1].block = 0
  BY <1>1, <1>3 DEF Search
<1>12. ASSUME NEW i \in 1..Len(stk1), i > 1
       PROVE  Edge(g, stk1[i - 1].block, stk1[i].block)
  <2>1. CASE i = n + 1
    <3>1. i - 1 = n /\ n \in 1..n
      BY <1>1, <2>1
    <3> QED
      BY <1>2, <1>3, <2>1, <3>1 DEF Last
  <2>2. CASE i \in 1..n
    <3>1. i - 1 \in 1..n
      BY <1>1, <1>12, <2>2
    <3> QED
      BY <1>3, <1>12, <2>2, <3>1 DEF Search
  <2> QED
    BY <1>1, <1>3, <2>1, <2>2
<1>13. \A j \in 1..Len(post) : post[j] # 0 =>
         \E p \in DOMAIN g :
           Edge(g, p, post[j]) /\ (OnStack(stk1, p) \/ \E k \in 1..Len(post) : k > j /\ post[k] = p)
  BY <1>5 DEF Search
<1>14. \A i, j \in 1..Len(post) : post[i] = post[j] => i = j
  BY DEF Search
<1>15. Search(g, vis \cup {b}, stk1, post)
  BY <1>1, <1>3, <1>4, <1>8, <1>9, <1>10, <1>11, <1>12, <1>13, <1>14 DEF Search, Stack, Entries
<1> QED
  BY <1>15 DEF stk1, top

\* A sequence without repetitions is as long as the set of its elements.
LEMMA OnceEach ==
  ASSUME NEW S, NEW s \in Seq(S), \A i, j \in 1..Len(s) : s[i] = s[j] => i = j
  PROVE  Cardinality(ToSet(s)) = Len(s)
<1>1. DOMAIN s = 1..Len(s) /\ Len(s) \in Nat /\ s = [i \in 1..Len(s) |-> s[i]]
  OBVIOUS
<1>2. s \in [1..Len(s) -> ToSet(s)]
  BY <1>1 DEF ToSet
<1>3. \A x \in ToSet(s) : \E i \in 1..Len(s) : s[i] = x
  BY <1>1 DEF ToSet
<1>4. s \in Bijection(1..Len(s), ToSet(s))
  BY <1>1, <1>2, <1>3 DEF Bijection, Injection, Surjection, IsInjective
<1> QED
  BY <1>1, <1>4, FS_CountingElements DEF ExistsBijection

\* A search that has been through all blocks orders them.
LEMMA SearchOrders ==
  ASSUME NEW g, IsGraph(g), NEW post, Search(g, DOMAIN g, <<>>, post), NEW ord,
         ord = [b \in DOMAIN g |-> CHOOSE i \in 1..Cardinality(DOMAIN g) : Reverse(post)[i] = b]
  PROVE  Ordering(g, ord) /\ Reversed(g, ord, post)
<1> DEFINE n == Cardinality(DOMAIN g)
<1>1. /\ post \in Seq(DOMAIN g) /\ Len(post) \in Nat
      /\ \A i, j \in 1..Len(post) : post[i] = post[j] => i = j
      /\ post # <<>> /\ post[Len(post)] = 0
  BY DEF Search
<1>2. \A b : ~OnStack(<<>>, b)
  BY DEF OnStack
<1>3. \A b \in DOMAIN g : \E j \in 1..Len(post) : post[j] = b
  <2>1. DOMAIN g = {b \in DOMAIN g : OnStack(<<>>, b) \/ \E j \in 1..Len(post) : post[j] = b}
    BY DEF Search
  <2> QED
    BY <1>2, <2>1
<1>4. ToSet(post) = DOMAIN g
  <2>1. DOMAIN post = 1..Len(post) /\ \A j \in 1..Len(post) : post[j] \in DOMAIN g
    BY <1>1
  <2>2. ToSet(post) \subseteq DOMAIN g
    BY <2>1 DEF ToSet
  <2>3. ASSUME NEW b \in DOMAIN g PROVE b \in ToSet(post)
    <3>1. PICK j \in 1..Len(post) : post[j] = b
      BY <1>3
    <3> QED
      BY <2>1, <3>1 DEF ToSet
  <2> QED
    BY <2>2, <2>3
<1>5. Len(post) = n /\ n \in Nat /\ n > 0
  BY <1>1, <1>4, OnceEach, Graphs
<1> HIDE DEF n
<1>6. \A i \in 1..n : (Len(post) - i) + 1 \in 1..n /\ Reverse(post)[i] = post[(Len(post) - i) + 1]
  BY <1>5 DEF Reverse
<1>7. ASSUME NEW b \in DOMAIN g PROVE ord[b] \in 1..n /\ post[(Len(post) - ord[b]) + 1] = b
  <2>1. PICK j \in 1..n : post[j] = b
    BY <1>3, <1>5
  <2>2. (n - j) + 1 \in 1..n /\ Reverse(post)[(n - j) + 1] = b
    <3>1. (n - j) + 1 \in 1..n /\ (n - ((n - j) + 1)) + 1 = j
      BY <1>5
    <3> QED
      BY <1>5, <1>6, <2>1, <3>1
  <2>3. ord[b] = CHOOSE i \in 1..n : Reverse(post)[i] = b
    BY DEF n
  <2>4. ord[b] \in 1..n /\ Reverse(post)[ord[b]] = b
    BY <2>2, <2>3
  <2> QED
    BY <1>6, <2>4
<1>8. ord \in [DOMAIN g -> 1..n]
  BY <1>7
<1>9. \A a, b \in DOMAIN g : ord[a] = ord[b] => a = b
  BY <1>7
<1>10. \A i \in 1..n : post[i] \in DOMAIN g
  BY <1>1, <1>5
<1>11. ASSUME NEW i \in 1..n PROVE ord[post[(Len(post) - i) + 1]] = i
  <2>1. post[(Len(post) - i) + 1] \in DOMAIN g
    BY <1>6, <1>10
  <2> DEFINE k == ord[post[(Len(post) - i) + 1]]
  <2>2. k \in 1..n /\ post[(Len(post) - k) + 1] = post[(Len(post) - i) + 1]
    BY <1>7, <2>1
  <2> HIDE DEF k
  <2>3. (Len(post) - k) + 1 = (Len(post) - i) + 1
    BY <1>1, <1>5, <1>6, <2>2
  <2>4. k = i
    BY <1>5, <2>2, <2>3
  <2> QED
    BY <2>4 DEF k
<1>12. \A j \in 1..n : ord[post[j]] = (n - j) + 1
  <2> SUFFICES ASSUME NEW j \in 1..n PROVE ord[post[j]] = (n - j) + 1
    OBVIOUS
  <2>1. (n - j) + 1 \in 1..n /\ (n - ((n - j) + 1)) + 1 = j
    BY <1>5
  <2> QED
    BY <1>5, <1>11, <2>1
<1>13. ord[0] = 1
  <2>1. n \in 1..n /\ (n - n) + 1 = 1
    BY <1>5
  <2> QED
    BY <1>1, <1>5, <1>12, <2>1
<1>14. ASSUME NEW b \in DOMAIN g \ {0}
       PROVE  \E p \in DOMAIN g : Edge(g, p, b) /\ ord[p] < ord[b]
  <2>1. PICK j \in 1..n : post[j] = b
    BY <1>3, <1>5
  <2>2. PICK p \in DOMAIN g :
          Edge(g, p, b) /\ (OnStack(<<>>, p) \/ \E k \in 1..Len(post) : k > j /\ post[k] = p)
    BY <1>5, <2>1 DEF Search
  <2>3. PICK k \in 1..n : k > j /\ post[k] = p
    BY <1>2, <1>5, <2>2
  <2>4. ord[p] = (n - k) + 1 /\ ord[b] = (n - j) + 1
    BY <1>12, <2>1, <2>3
  <2>5. (n - k) + 1 < (n - j) + 1
    BY <1>5, <2>3
  <2>6. ord[p] < ord[b]
    BY <2>4, <2>5
  <2> QED
    BY <2>2, <2>6
<1>15. Ordering(g, ord)
  BY <1>8, <1>9, <1>13, <1>14 DEF Ordering, n
<1>16. Reversed(g, ord, post)
  BY <1>1, <1>5, <1>11 DEF Reversed, n
<1> QED
  BY <1>15, <1>16
----------------------------------------------------------------------------
(* The steps of Build                                                       *)

\* Build does not touch what Verify works with.
LEMMA BuildKeepsVerify ==
  ASSUME VerifyInv, pc \in {"cfg"} \cup Building, pc' \in {"cfg"} \cup Building,
         UNCHANGED <<result, input, inRegion, trees, verifier>>
  PROVE  VerifyInv'
<1>1. UNCHANGED <<result, body, text, inRegion, domTree, regionTree, specifics, evaluated,
                  evaluatedOrder, work, rest, current, steps>>
  BY DEF input, trees, verifier
<1>2. pc \notin Walking /\ pc' \notin Walking /\ pc # "next" /\ pc' # "next"
  BY DEF Building, Sorted, Walking
<1>3. ReadyInv' /\ TreeInv'
  BY <1>1, <1>2 DEF VerifyInv, ReadyInv, Ready, TreeInv
<1>4. SeenInv'
  BY <1>1 DEF VerifyInv, SeenInv, Seen, Listed
<1>5. WorkInv'
  BY <1>1 DEF VerifyInv, WorkInv, WalkStep, InnerLast
<1>6. StepsInv'
  BY <1>1 DEF VerifyInv, StepsInv, Region
<1>7. RestInv'
  <2>1. pc # "insts" /\ pc' # "insts"
    BY <1>2 DEF Walking
  <2> QED
    BY <1>1, <1>2, <2>1 DEF VerifyInv, RestInv
<1> QED
  BY <1>3, <1>4, <1>5, <1>6, <1>7 DEF VerifyInv

\* Nothing but the search is under way.
LEMMA Searching ==
  ASSUME GraphInv', SearchInv', pc' = "dfs"
  PROVE  BuildInv'
  BY DEF BuildInv, OrderInv, PlaceInv, IdomInv, CandidateInv, MeetInv, ChildInv, Sorted

\* The control flow graph is built: the search starts.
LEMMA BuildControlFlowGraphKeeps ==
  ASSUME IInv, BuildControlFlowGraph
  PROVE  IInv'
<1>1. /\ pc = "cfg" /\ pc' = "dfs" /\ \A b \in Blocks : ToSet(graph[b]) \subseteq Blocks
      /\ visited' = {0} /\ stack' = <<[block |-> 0, numVisited |-> 0]>> /\ postOrder' = <<>>
      /\ UNCHANGED <<result, input, graph, inRegion, trees, verifier>>
  BY DEF BuildControlFlowGraph, SearchFrame
<1>2. VerifyInv'
  BY <1>1, BuildKeepsVerify DEF IInv, Building, Sorted
<1>3. GraphInv'
  BY <1>1 DEF IInv, BuildInv, GraphInv, input, Building, Sorted, PCs, Inside, Blocks
<1>4. SearchInv'
  <2>1. IsGraph(graph)
    BY DEF IInv, BuildInv, GraphInv
  <2> QED
    BY <1>1, <2>1, SearchStarts DEF SearchInv
<1> QED
  BY <1>1, <1>2, <1>3, <1>4, Searching DEF IInv

\* A block's successors are visited.
LEMMA SuccessorsVisitedKeeps ==
  ASSUME IInv, SuccessorsVisited
  PROVE  IInv'
<1>1. /\ pc = "dfs" /\ pc' = "dfs" /\ stack # <<>>
      /\ visited' = visited /\ stack' = Front(stack)
      /\ postOrder' = Append(postOrder, Last(stack).block)
      /\ UNCHANGED <<result, input, graph, inRegion, trees, verifier>>
  BY DEF SuccessorsVisited, SearchFrame, Top
<1>2. VerifyInv'
  BY <1>1, BuildKeepsVerify DEF IInv, Building
<1>3. GraphInv'
  BY <1>1 DEF IInv, BuildInv, GraphInv, input
<1>4. SearchInv'
  <2>1. IsGraph(graph) /\ Search(graph, visited, stack, postOrder)
    BY <1>1 DEF IInv, BuildInv, GraphInv, SearchInv
  <2>2. Search(graph, visited, Front(stack), Append(postOrder, Last(stack).block))
    BY <1>1, <2>1, SearchPops
  <2> QED
    BY <1>1, <2>2 DEF SearchInv
<1> QED
  BY <1>1, <1>2, <1>3, <1>4, Searching DEF IInv

\* The next successor of a block is visited.
LEMMA VisitSuccessorKeeps ==
  ASSUME IInv, VisitSuccessor
  PROVE  IInv'
<1> DEFINE b == Last(stack).block
           k == Last(stack).numVisited + 1
           successor == graph[b][k]
           counted == [stack EXCEPT ![Len(stack)].numVisited = @ + 1]
<1>1. /\ pc = "dfs" /\ pc' = "dfs" /\ stack # <<>> /\ Last(stack).numVisited < Len(graph[b])
      /\ visited' = visited \cup {successor} /\ postOrder' = postOrder
      /\ stack' = IF successor \in visited THEN counted
                  ELSE Append(counted, [block |-> successor, numVisited |-> 0])
      /\ UNCHANGED <<result, input, graph, inRegion, trees, verifier>>
  BY DEF VisitSuccessor, SearchFrame, Top
<1>2. VerifyInv'
  BY <1>1, BuildKeepsVerify DEF IInv, Building
<1>3. GraphInv'
  BY <1>1 DEF IInv, BuildInv, GraphInv, input
<1>4. SearchInv'
  <2>1. IsGraph(graph) /\ Inside(graph) /\ Search(graph, visited, stack, postOrder)
    BY <1>1 DEF IInv, BuildInv, GraphInv, SearchInv, Building
  <2>2. b \in Blocks /\ Last(stack).numVisited \in Nat
    <3>1. stack \in Stack(graph)
      BY <2>1 DEF Search, Stack, Entries
    <3>2. Last(stack) \in Entries(graph)
      BY <1>1, <3>1, FrontAndLast DEF Stack
    <3> QED
      BY <3>2 DEF Entries, Blocks
  <2>3. k \in DOMAIN graph[b]
    <3>1. graph[b] \in Seq(Nat)
      BY <2>1, <2>2 DEF IsGraph, Blocks
    <3> QED
      BY <1>1, <2>2, <3>1
  <2> HIDE DEF b, k
  <2>4. Edge(graph, b, successor) /\ successor \in Blocks
    BY <2>1, <2>2, <2>3 DEF Edge, ToSet, Inside, Blocks
  <2> HIDE DEF successor
  <2>5. /\ Search(graph, visited, counted, postOrder) /\ counted # <<>>
        /\ Last(counted).block = b
    BY <1>1, <2>1, SearchCounts DEF b
  <2> HIDE DEF counted
  <2>6. CASE successor \in visited
    BY <1>1, <2>5, <2>6 DEF SearchInv
  <2>7. CASE successor \notin visited
    <3>1. Search(graph, visited \cup {successor},
                 Append(counted, [block |-> successor, numVisited |-> 0]), postOrder)
      BY <2>1, <2>4, <2>5, <2>7, SearchPushes DEF Blocks
    <3> QED
      BY <1>1, <2>7, <3>1 DEF SearchInv
  <2> QED
    BY <2>6, <2>7
<1> QED
  BY <1>1, <1>2, <1>3, <1>4, Searching DEF IInv

\* The sweep leaves the graph, the order and Verify alone.
LEMMA SweepKeeps ==
  ASSUME IInv, pc \in Sorted, pc' \in Sorted, SweepFrame, order' = order
  PROVE  /\ UNCHANGED <<graph, order, postOrder>>
         /\ GraphInv' /\ SearchInv' /\ OrderInv' /\ VerifyInv'
<1>1. UNCHANGED <<result, input, graph, inRegion, trees, verifier, postOrder, order>>
  BY DEF SweepFrame, search
<1>2. VerifyInv'
  BY <1>1, BuildKeepsVerify DEF IInv, Building
<1>3. GraphInv'
  BY <1>1 DEF IInv, BuildInv, GraphInv, input, Building, Sorted, PCs
<1>4. SearchInv'
  BY DEF SearchInv, Sorted
<1>5. OrderInv'
  BY <1>1 DEF IInv, BuildInv, OrderInv
<1> QED
  BY <1>1, <1>2, <1>3, <1>4, <1>5

\* The blocks in order.
LEMMA InOrder ==
  ASSUME IsGraph(graph), Ordering(graph, order), Reversed(graph, order, postOrder),
         NEW k \in 1..NumBlocks
  PROVE  /\ ReversePostOrder[k] \in Blocks /\ order[ReversePostOrder[k]] = k
         /\ k > 1 => ReversePostOrder[k] # 0
<1>1. NumBlocks \in Nat /\ NumBlocks = Cardinality(DOMAIN graph)
  BY Graphs DEF NumBlocks, Blocks
<1>2. /\ postOrder \in Seq(DOMAIN graph) /\ Len(postOrder) = NumBlocks
      /\ order[postOrder[(Len(postOrder) - k) + 1]] = k
  BY <1>1 DEF Reversed
<1>3. (Len(postOrder) - k) + 1 \in 1..Len(postOrder)
  BY <1>1, <1>2
<1>4. ReversePostOrder[k] = postOrder[(Len(postOrder) - k) + 1]
  BY <1>1, <1>2 DEF ReversePostOrder, Reverse
<1>5. ReversePostOrder[k] \in Blocks
  BY <1>2, <1>3, <1>4 DEF Blocks
<1> QED
  BY <1>2, <1>4, <1>5 DEF Ordering

\* What the invariant says of a sweep.
LEMMA Sweeps ==
  ASSUME BuildInv, pc \in {"sweep", "meet"}
  PROVE  /\ IsGraph(graph) /\ Inside(graph)
         /\ Ordering(graph, order) /\ Reversed(graph, order, postOrder)
         /\ NumBlocks \in Nat /\ at \in 2..NumBlocks + 1 /\ newIdom \in Blocks \cup {None}
         /\ changed \in BOOLEAN
         /\ Climbs(graph, order, idom) /\ SkipsNone(graph, idom) /\ Given(graph, order, idom, at)
         /\ ~changed => Settled(graph, order, idom, at)
         /\ at <= NumBlocks =>
              /\ Sweeping \in Blocks \ {0} /\ order[Sweeping] = at
              /\ met \subseteq Edges /\ Candidate(graph, order, idom, Sweeping, met, newIdom)
<1>1. pc \in Sorted /\ pc # "tree" /\ pc \in Building
  BY DEF Sorted, Building
<1>2. IsGraph(graph) /\ Inside(graph)
  BY <1>1 DEF BuildInv, GraphInv
<1>3. NumBlocks \in Nat
  BY <1>2, Graphs DEF NumBlocks, Blocks
<1>4. Ordering(graph, order) /\ Reversed(graph, order, postOrder)
  BY <1>1 DEF BuildInv, OrderInv
<1>5. at \in 2..NumBlocks + 1 /\ newIdom \in Blocks \cup {None} /\ changed \in BOOLEAN
  BY <1>1 DEF BuildInv, PlaceInv
<1>6. /\ Climbs(graph, order, idom) /\ SkipsNone(graph, idom) /\ Given(graph, order, idom, at)
      /\ ~changed => Settled(graph, order, idom, at)
  BY <1>1 DEF BuildInv, IdomInv
<1>7. ASSUME at <= NumBlocks
      PROVE  /\ Sweeping \in Blocks \ {0} /\ order[Sweeping] = at
             /\ met \subseteq Edges /\ Candidate(graph, order, idom, Sweeping, met, newIdom)
  <2>1. at \in 1..NumBlocks /\ at > 1
    BY <1>3, <1>5, <1>7
  <2>2. Sweeping \in Blocks \ {0} /\ order[Sweeping] = at
    BY <1>2, <1>4, <2>1, InOrder DEF Sweeping
  <2> QED
    BY <1>7, <2>2 DEF BuildInv, CandidateInv
<1> QED
  BY <1>2, <1>3, <1>4, <1>5, <1>6, <1>7

\* The sweeps start with the entry's dominator.
LEMMA AllReachableKeeps ==
  ASSUME IInv, AllReachable
  PROVE  IInv'
<1>1. /\ pc = "dfs" /\ stack = <<>> /\ visited = Blocks /\ pc' = "sweep"
      /\ order' = [b \in Blocks |-> CHOOSE i \in 1..NumBlocks : ReversePostOrder[i] = b]
      /\ idom' = [b \in Blocks |-> IF b = 0 THEN 0 ELSE None]
      /\ at' = 2 /\ met' = {} /\ newIdom' = None /\ changed' = FALSE
      /\ UNCHANGED <<result, input, graph, inRegion, postOrder, trees, verifier>>
  BY DEF AllReachable, StartSweep, SweepFrame, search
<1>2. VerifyInv'
  BY <1>1, BuildKeepsVerify DEF IInv, Building, Sorted
<1>3. GraphInv'
  BY <1>1 DEF IInv, BuildInv, GraphInv, input, Building, Sorted, PCs
<1>4. SearchInv' /\ MeetInv' /\ ChildInv'
  BY <1>1 DEF SearchInv, MeetInv, ChildInv
<1>5. IsGraph(graph) /\ Search(graph, DOMAIN graph, <<>>, postOrder)
  BY <1>1 DEF IInv, BuildInv, GraphInv, SearchInv, Blocks
<1>6. order' = [b \in DOMAIN graph |->
                  CHOOSE i \in 1..Cardinality(DOMAIN graph) : Reverse(postOrder)[i] = b]
  BY <1>1 DEF Blocks, NumBlocks, ReversePostOrder
<1>7. Ordering(graph, order') /\ Reversed(graph, order', postOrder)
  BY <1>5, <1>6, SearchOrders
<1>8. OrderInv'
  BY <1>1, <1>7 DEF OrderInv
<1>9. PlaceInv'
  <2>1. NumBlocks \in Nat /\ NumBlocks > 0
    BY <1>5, Graphs DEF NumBlocks, Blocks
  <2>2. NumBlocks' = NumBlocks
    BY <1>1 DEF NumBlocks, Blocks
  <2>3. 2 \in 2..NumBlocks + 1
    BY <2>1
  <2> QED
    BY <1>1, <2>2, <2>3 DEF PlaceInv
<1>10. 0 \in DOMAIN graph /\ None # 0
  BY <1>5, Graphs
<1>11. \A b \in DOMAIN graph : order'[b] < 2 => b = 0
  BY <1>5, <1>7, <1>10, Graphs DEF Ordering
<1>12. \A b \in DOMAIN graph : idom'[b] # None => b = 0
  BY <1>1 DEF Blocks
<1>13. idom'[0] = 0 /\ idom' \in [DOMAIN graph -> DOMAIN graph \cup {None}]
  BY <1>1, <1>10 DEF Blocks
<1>14. Climbs(graph, order', idom')
  BY <1>10, <1>12, <1>13 DEF Climbs
<1>15. SkipsNone(graph, idom')
  BY <1>12 DEF SkipsNone
<1>16. Given(graph, order', idom', 2) /\ Settled(graph, order', idom', 2)
  BY <1>10, <1>11, <1>13 DEF Given, Settled
<1>17. IdomInv'
  BY <1>1, <1>14, <1>15, <1>16 DEF IdomInv
<1>18. CandidateInv'
  BY <1>1 DEF CandidateInv, Candidate
<1> QED
  BY <1>2, <1>3, <1>4, <1>8, <1>9, <1>17, <1>18 DEF IInv, BuildInv

\* The branch that the sweep is at.
LEMMA AtBranch ==
  ASSUME BuildInv, pc \in {"sweep", "meet"}, at <= NumBlocks, Left # {}
  PROVE  /\ First(Left) \in Edges /\ Predecessor = First(Left)[1]
         /\ Predecessor \in Blocks /\ Edge(graph, Predecessor, Sweeping)
<1>1. IsGraph(graph)
  BY Sweeps
<1>2. Left \in SUBSET Edges
  BY DEF Left, Predecessors
<1>3. First(Left) \in Left /\ First(Left) \in Edges
  BY <1>1, <1>2, FirstBranch
<1>4. graph[First(Left)[1]][First(Left)[2]] = Sweeping
  BY <1>3 DEF Left, Predecessors
<1> QED
  BY <1>1, <1>3, <1>4, EdgesAreBranches DEF Predecessor

\* Steps that set no dominator.
LEMMA SameSweep ==
  ASSUME IInv, pc \in {"sweep", "meet"}, pc' \in {"sweep", "meet"}, SweepFrame,
         UNCHANGED <<order, idom, changed, at>>, newIdom' \in Blocks \cup {None},
         at <= NumBlocks => /\ met' \subseteq Edges
                            /\ Candidate(graph, order, idom, Sweeping, met', newIdom'),
         MeetInv'
  PROVE  IInv'
<1>1. /\ UNCHANGED <<graph, order, postOrder>>
      /\ GraphInv' /\ SearchInv' /\ OrderInv' /\ VerifyInv'
  BY SweepKeeps DEF Sorted
<1>2. Blocks' = Blocks /\ NumBlocks' = NumBlocks /\ Edges' = Edges /\ Sweeping' = Sweeping
  BY <1>1 DEF Blocks, NumBlocks, Edges, Sweeping, ReversePostOrder
<1>3. PlaceInv'
  BY <1>2 DEF IInv, BuildInv, PlaceInv, Sorted
<1>4. IdomInv'
  BY <1>1 DEF IInv, BuildInv, IdomInv, Sorted
<1>5. CandidateInv'
  BY <1>1, <1>2 DEF CandidateInv
<1>6. ChildInv'
  BY DEF ChildInv
<1> QED
  BY <1>1, <1>3, <1>4, <1>5, <1>6 DEF IInv, BuildInv

\* A predecessor without a dominator is left out.
LEMMA SkipPredecessorKeeps ==
  ASSUME IInv, SkipPredecessor
  PROVE  IInv'
<1>1. /\ pc = "sweep" /\ pc' = "sweep" /\ at <= NumBlocks /\ Left # {} /\ idom[Predecessor] = None
      /\ met' = met \cup {First(Left)} /\ UNCHANGED <<order, idom, changed, at, newIdom>>
      /\ SweepFrame
  BY DEF SkipPredecessor, AtPredecessor, InSweep
<1>2. BuildInv
  BY DEF IInv
<1>3. First(Left) \in Edges /\ Predecessor = First(Left)[1]
  BY <1>1, <1>2, AtBranch
<1>4. /\ met \subseteq Edges /\ Candidate(graph, order, idom, Sweeping, met, newIdom)
      /\ newIdom \in Blocks \cup {None}
  BY <1>1, <1>2, Sweeps
<1>5. met' \subseteq Edges /\ Candidate(graph, order, idom, Sweeping, met', newIdom)
  BY <1>1, <1>3, <1>4 DEF Candidate
<1>6. MeetInv'
  BY <1>1 DEF MeetInv
<1> QED
  BY <1>1, <1>4, <1>5, <1>6, SameSweep

\* The first predecessor with a dominator is the candidate.
LEMMA FirstPredecessorKeeps ==
  ASSUME IInv, FirstPredecessor
  PROVE  IInv'
<1>1. /\ pc = "sweep" /\ pc' = "sweep" /\ at <= NumBlocks /\ Left # {} /\ idom[Predecessor] # None
      /\ newIdom = None /\ newIdom' = Predecessor
      /\ met' = met \cup {First(Left)} /\ UNCHANGED <<order, idom, changed, at>>
      /\ SweepFrame
  BY DEF FirstPredecessor, AtPredecessor, InSweep
<1>2. BuildInv
  BY DEF IInv
<1>3. /\ First(Left) \in Edges /\ Predecessor = First(Left)[1]
      /\ Predecessor \in Blocks /\ Edge(graph, Predecessor, Sweeping)
  BY <1>1, <1>2, AtBranch
<1>4. /\ met \subseteq Edges /\ Candidate(graph, order, idom, Sweeping, met, newIdom)
      /\ Sweeping \in Blocks \ {0} /\ IsGraph(graph) /\ Ordering(graph, order)
  BY <1>1, <1>2, Sweeps
<1>5. Over(graph, Sweeping, Predecessor)
  BY <1>3, <1>4, DominatesPredecessor DEF Over, Blocks
<1>6. Meets(graph, order, idom, Predecessor, Predecessor)
  BY <1>3, <1>4, AboveSelf, Graphs DEF Meets, Ordering, Blocks
<1>7. met' \subseteq Edges
  BY <1>1, <1>3, <1>4
<1>8. \A e \in met : idom[e[1]] = None
  BY <1>1, <1>4 DEF Candidate
<1>9. Predecessor # None
  BY <1>3, <1>4, Graphs DEF Blocks
<1>10. Candidate(graph, order, idom, Sweeping, met', newIdom')
  BY <1>1, <1>3, <1>5, <1>6, <1>8, <1>9 DEF Candidate
<1>11. MeetInv'
  BY <1>1 DEF MeetInv
<1> QED
  BY <1>1, <1>3, <1>7, <1>10, <1>11, SameSweep

\* The ends of intersect: the predecessor and the candidate.
LEMMA StartIntersectKeeps ==
  ASSUME IInv, StartIntersect
  PROVE  IInv'
<1>1. /\ pc = "sweep" /\ pc' = "meet" /\ at <= NumBlocks /\ Left # {} /\ idom[Predecessor] # None
      /\ newIdom # None /\ lhs' = Predecessor /\ rhs' = newIdom
      /\ UNCHANGED <<order, idom, changed, at, met, newIdom>>
      /\ SweepFrame
  BY DEF StartIntersect, AtPredecessor, InSweep
<1>2. BuildInv
  BY DEF IInv
<1>3. Predecessor \in Blocks /\ Edge(graph, Predecessor, Sweeping)
  BY <1>1, <1>2, AtBranch
<1>4. /\ met \subseteq Edges /\ Candidate(graph, order, idom, Sweeping, met, newIdom)
      /\ Sweeping \in Blocks \ {0} /\ IsGraph(graph) /\ Ordering(graph, order)
      /\ newIdom \in Blocks \cup {None}
  BY <1>1, <1>2, Sweeps
<1>5. Over(graph, Sweeping, Predecessor)
  BY <1>3, <1>4, DominatesPredecessor DEF Over, Blocks
<1>6. newIdom \in Blocks /\ idom[newIdom] # None /\ Over(graph, Sweeping, newIdom)
  BY <1>1, <1>4 DEF Candidate
<1>7. \A b \in Blocks : Meets(graph, order, idom, b, b)
  BY <1>4, AboveSelf, Graphs DEF Meets, Ordering, Blocks
<1>8. /\ Sweeping' = Sweeping /\ Left' = Left /\ Predecessor' = Predecessor
      /\ Blocks' = Blocks /\ NumBlocks' = NumBlocks /\ graph' = graph
  BY <1>1 DEF SweepFrame, search, Sweeping, ReversePostOrder, Left, Predecessors, Edges, Blocks,
              NumBlocks, Predecessor
<1>9. MeetInv'
  BY <1>1, <1>3, <1>5, <1>6, <1>7, <1>8 DEF MeetInv
<1> QED
  BY <1>1, <1>4, <1>9, SameSweep

\* The end that is later in the order can go to its dominator: it is not among
\* the dominators of b itself, since those are over the other end too.
LEMMA EndClimbs ==
  ASSUME NEW g, IsGraph(g), NEW ord, Ordering(g, ord), NEW dom, Climbs(g, ord, dom),
         SkipsNone(g, dom), NEW b \in DOMAIN g, NEW x \in DOMAIN g, NEW y \in DOMAIN g,
         dom[x] # None, Over(g, b, x), Over(g, b, y), ord[y] < ord[x]
  PROVE  /\ dom[x] \in DOMAIN g /\ dom[dom[x]] # None /\ Over(g, b, dom[x])
         /\ ord[dom[x]] < ord[x]
<1>1. x # 0
  BY Graphs DEF Ordering
<1>2. dom[x] \in DOMAIN g /\ dom[dom[x]] # None /\ ord[dom[x]] < ord[x]
  BY <1>1 DEF Climbs
<1>3. ASSUME NEW d \in DOMAIN g \ {b}, Dominates(g, d, b) PROVE Dominates(g, d, dom[x])
  <2>1. Dominates(g, d, x) /\ Dominates(g, d, y)
    BY <1>3 DEF Over
  <2>2. ord[d] <= ord[y]
    BY <2>1, DominatorsComeFirst
  <2>3. d # x
    BY <2>2, Graphs DEF Ordering
  <2> QED
    BY <1>1, <2>1, <2>3 DEF SkipsNone, Over
<1> QED
  BY <1>2, <1>3 DEF Over

\* One step of intersect.
LEMMA IntersectStepKeeps ==
  ASSUME IInv, IntersectStep
  PROVE  IInv'
<1>1. /\ pc = "meet" /\ pc' = "meet" /\ lhs # rhs
      /\ UNCHANGED <<order, idom, changed, at, met, newIdom>>
      /\ SweepFrame
      /\ IF order[lhs] > order[rhs] THEN lhs' = idom[lhs] /\ rhs' = rhs
                                    ELSE rhs' = idom[rhs] /\ lhs' = lhs
  BY DEF IntersectStep
<1>2. BuildInv
  BY DEF IInv
<1>3. /\ at <= NumBlocks /\ Left # {} /\ idom[Predecessor] # None /\ newIdom # None
      /\ lhs \in Blocks /\ rhs \in Blocks /\ idom[lhs] # None /\ idom[rhs] # None
      /\ Over(graph, Sweeping, lhs) /\ Over(graph, Sweeping, rhs)
      /\ Meets(graph, order, idom, lhs, Predecessor) /\ Meets(graph, order, idom, rhs, newIdom)
  BY <1>1, <1>2 DEF BuildInv, MeetInv
<1>4. /\ met \subseteq Edges /\ Candidate(graph, order, idom, Sweeping, met, newIdom)
      /\ Sweeping \in Blocks \ {0} /\ IsGraph(graph) /\ Ordering(graph, order)
      /\ Climbs(graph, order, idom) /\ SkipsNone(graph, idom) /\ newIdom \in Blocks \cup {None}
  BY <1>1, <1>2, <1>3, Sweeps
<1>5. Predecessor \in Blocks
  BY <1>1, <1>2, <1>3, AtBranch
<1>6. \A b \in Blocks : order[b] \in Nat
  BY <1>4, Graphs DEF Ordering, Blocks
<1>7. /\ Sweeping' = Sweeping /\ Left' = Left /\ Predecessor' = Predecessor
      /\ Blocks' = Blocks /\ NumBlocks' = NumBlocks /\ graph' = graph
  BY <1>1 DEF SweepFrame, search, Sweeping, ReversePostOrder, Left, Predecessors, Edges, Blocks,
              NumBlocks, Predecessor
<1>8. CASE order[lhs] > order[rhs]
  <2>1. /\ idom[lhs] \in Blocks /\ idom[idom[lhs]] # None /\ Over(graph, Sweeping, idom[lhs])
        /\ order[idom[lhs]] < order[lhs]
    BY <1>3, <1>4, <1>6, <1>8, EndClimbs DEF Blocks
  <2>2. Meets(graph, order, idom, idom[lhs], Predecessor)
    BY <1>3, <1>5, <1>6, <2>1, AboveFirst DEF Meets
  <2>3. MeetInv'
    BY <1>1, <1>3, <1>7, <1>8, <2>1, <2>2 DEF MeetInv
  <2> QED
    BY <1>1, <1>4, <2>3, SameSweep
<1>9. CASE ~(order[lhs] > order[rhs])
  <2>1. order[lhs] < order[rhs]
    <3>1. order[lhs] # order[rhs]
      BY <1>1, <1>3, <1>4 DEF Ordering, Blocks
    <3> QED
      BY <1>3, <1>6, <1>9, <3>1
  <2>2. /\ idom[rhs] \in Blocks /\ idom[idom[rhs]] # None /\ Over(graph, Sweeping, idom[rhs])
        /\ order[idom[rhs]] < order[rhs]
    BY <1>3, <1>4, <2>1, EndClimbs DEF Blocks
  <2>3. newIdom \in Blocks
    BY <1>3, <1>4
  <2>4. Meets(graph, order, idom, idom[rhs], newIdom)
    BY <1>3, <1>6, <2>2, <2>3, AboveFirst DEF Meets
  <2>5. MeetInv'
    BY <1>1, <1>3, <1>7, <1>9, <2>2, <2>4 DEF MeetInv
  <2> QED
    BY <1>1, <1>4, <2>5, SameSweep
<1> QED
  BY <1>8, <1>9

\* Where the ends meet is the next candidate.
LEMMA FinishIntersectKeeps ==
  ASSUME IInv, FinishIntersect
  PROVE  IInv'
<1>1. /\ pc = "meet" /\ pc' = "sweep" /\ lhs = rhs
      /\ newIdom' = lhs /\ met' = met \cup {First(Left)}
      /\ UNCHANGED <<order, idom, changed, at>>
      /\ SweepFrame
  BY DEF FinishIntersect
<1>2. BuildInv
  BY DEF IInv
<1>3. /\ at <= NumBlocks /\ Left # {} /\ newIdom # None
      /\ lhs \in Blocks /\ idom[lhs] # None /\ Over(graph, Sweeping, lhs)
      /\ Meets(graph, order, idom, lhs, Predecessor) /\ Meets(graph, order, idom, lhs, newIdom)
  BY <1>1, <1>2 DEF BuildInv, MeetInv
<1>4. /\ met \subseteq Edges /\ Candidate(graph, order, idom, Sweeping, met, newIdom)
      /\ IsGraph(graph) /\ Ordering(graph, order) /\ newIdom \in Blocks \cup {None}
  BY <1>1, <1>2, <1>3, Sweeps
<1>5. First(Left) \in Edges /\ Predecessor = First(Left)[1]
  BY <1>1, <1>2, <1>3, AtBranch
<1>6. \A b \in Blocks : order[b] \in Nat
  BY <1>4, Graphs DEF Ordering, Blocks
<1>7. newIdom \in Blocks /\ lhs # None
  BY <1>3, <1>4, Graphs DEF Blocks
<1>8. ASSUME NEW e \in met, idom[e[1]] # None PROVE Meets(graph, order, idom, lhs, e[1])
  <2>1. Meets(graph, order, idom, newIdom, e[1])
    BY <1>4, <1>8 DEF Candidate
  <2>2. e[1] \in Blocks
    BY <1>4, EdgesAreBranches
  <2> QED
    BY <1>3, <1>6, <1>7, <2>1, <2>2, AboveTransitive DEF Meets
<1>9. Candidate(graph, order, idom, Sweeping, met', newIdom')
  BY <1>1, <1>3, <1>5, <1>7, <1>8 DEF Candidate
<1>10. met' \subseteq Edges
  BY <1>1, <1>4, <1>5
<1>11. MeetInv'
  BY <1>1 DEF MeetInv
<1> QED
  BY <1>1, <1>3, <1>9, <1>10, <1>11, SameSweep

\* A block all of whose predecessors were gone through has a candidate, which
\* comes before it because one of the predecessors does.
LEMMA CandidateFound ==
  ASSUME BuildInv, pc = "sweep", at <= NumBlocks, Left = {}
  PROVE  /\ newIdom \in Blocks /\ newIdom # None /\ idom[newIdom] # None
         /\ order[newIdom] < at /\ Over(graph, Sweeping, newIdom)
         /\ \A p \in Blocks : Edge(graph, p, Sweeping) /\ idom[p] # None =>
              Above(graph, idom, newIdom, p)
<1>1. /\ IsGraph(graph) /\ Ordering(graph, order) /\ Given(graph, order, idom, at)
      /\ NumBlocks \in Nat /\ at \in 2..NumBlocks + 1 /\ newIdom \in Blocks \cup {None}
      /\ Sweeping \in Blocks \ {0} /\ order[Sweeping] = at
      /\ Candidate(graph, order, idom, Sweeping, met, newIdom)
  BY Sweeps
<1>2. ASSUME NEW p \in Blocks, Edge(graph, p, Sweeping), idom[p] # None
      PROVE  newIdom # None /\ Meets(graph, order, idom, newIdom, p)
  <2>1. PICK e \in Edges : e[1] = p /\ graph[e[1]][e[2]] = Sweeping
    BY <1>1, <1>2, EdgesAreBranches
  <2>2. e \in met
    BY <2>1 DEF Left, Predecessors
  <2> QED
    BY <1>1, <1>2, <2>1, <2>2 DEF Candidate
<1>3. PICK q \in Blocks : Edge(graph, q, Sweeping) /\ order[q] < order[Sweeping]
  BY <1>1 DEF Ordering, Blocks
<1>4. idom[q] # None
  BY <1>1, <1>3 DEF Given, Blocks
<1>5. newIdom # None /\ Meets(graph, order, idom, newIdom, q)
  BY <1>2, <1>3, <1>4
<1>6. newIdom \in Blocks /\ idom[newIdom] # None /\ Over(graph, Sweeping, newIdom)
  BY <1>1, <1>5 DEF Candidate
<1>7. order[newIdom] \in Nat /\ order[q] \in Nat
  BY <1>1, <1>3, <1>6, Graphs DEF Ordering, Blocks
<1>8. order[newIdom] < at
  BY <1>1, <1>3, <1>5, <1>7 DEF Meets
<1> QED
  BY <1>2, <1>5, <1>6, <1>8 DEF Meets

\* The block's dominator is the candidate from now on.
LEMMA SetDominatorKeeps ==
  ASSUME IInv, SetDominator
  PROVE  IInv'
<1> DEFINE c == Sweeping
<1>1. /\ pc = "sweep" /\ pc' = "sweep" /\ at <= NumBlocks /\ Left = {}
      /\ at' = at + 1 /\ met' = {} /\ newIdom' = None
      /\ order' = order /\ SweepFrame
      /\ IF newIdom # None /\ idom[c] # newIdom
         THEN idom' = [idom EXCEPT ![c] = newIdom] /\ changed' = TRUE
         ELSE UNCHANGED <<idom, changed>>
  BY DEF SetDominator, InSweep
<1>2. BuildInv
  BY DEF IInv
<1>3. /\ UNCHANGED <<graph, order, postOrder>>
      /\ GraphInv' /\ SearchInv' /\ OrderInv' /\ VerifyInv'
  BY <1>1, SweepKeeps DEF Sorted
<1>4. /\ IsGraph(graph) /\ Ordering(graph, order) /\ Given(graph, order, idom, at)
      /\ NumBlocks \in Nat /\ at \in 2..NumBlocks + 1
      /\ c \in Blocks \ {0} /\ order[c] = at /\ changed \in BOOLEAN
      /\ Climbs(graph, order, idom) /\ SkipsNone(graph, idom)
      /\ ~changed => Settled(graph, order, idom, at)
  BY <1>1, <1>2, Sweeps
<1>5. /\ newIdom \in Blocks /\ newIdom # None /\ idom[newIdom] # None
      /\ order[newIdom] < at /\ Over(graph, c, newIdom)
      /\ \A p \in Blocks : Edge(graph, p, c) /\ idom[p] # None => Above(graph, idom, newIdom, p)
  BY <1>1, <1>2, CandidateFound
<1> HIDE DEF c
<1>6. idom \in [Blocks -> Blocks \cup {None}] /\ idom[0] = 0
  BY <1>4 DEF Climbs, Blocks
<1>7. idom' = [idom EXCEPT ![c] = newIdom]
  BY <1>1, <1>4, <1>5, <1>6
<1>8. \A b \in Blocks : idom'[b] = IF b = c THEN newIdom ELSE idom[b]
  BY <1>6, <1>7
<1>9. NumBlocks' = NumBlocks /\ Blocks' = Blocks
  BY <1>3 DEF NumBlocks, Blocks
<1>10. PlaceInv'
  <2>1. at + 1 \in 2..NumBlocks + 1
    BY <1>1, <1>4
  <2>2. changed' \in BOOLEAN
    BY <1>1, <1>4
  <2> QED
    BY <1>1, <1>9, <2>1, <2>2 DEF PlaceInv
<1>11. newIdom # c
  BY <1>4, <1>5
<1>12. Climbs(graph, order, idom')
  <2>1. idom' \in [DOMAIN graph -> DOMAIN graph \cup {None}] /\ idom'[0] = 0
    BY <1>4, <1>5, <1>6, <1>7 DEF Blocks
  <2>2. ASSUME NEW b \in Blocks, idom'[b] # None PROVE idom'[idom'[b]] # None
    <3>1. CASE b = c
      BY <1>5, <1>8, <1>11, <3>1
    <3>2. CASE b # c
      <4>1. idom[b] # None /\ idom[b] \in Blocks /\ idom[idom[b]] # None
        BY <1>4, <1>6, <1>8, <2>2, <3>2 DEF Climbs, Blocks
      <4> QED
        BY <1>5, <1>8, <3>2, <4>1
    <3> QED
      BY <3>1, <3>2
  <2>3. ASSUME NEW b \in Blocks \ {0}, idom'[b] # None PROVE order[idom'[b]] < order[b]
    <3>1. CASE b = c
      BY <1>4, <1>5, <1>8, <3>1
    <3>2. CASE b # c
      BY <1>4, <1>8, <2>3, <3>2 DEF Climbs, Blocks
    <3> QED
      BY <3>1, <3>2
  <2> QED
    BY <2>1, <2>2, <2>3 DEF Climbs, Blocks
<1>13. SkipsNone(graph, idom')
  <2> SUFFICES ASSUME NEW b \in Blocks \ {0}, idom'[b] # None PROVE Over(graph, b, idom'[b])
    BY DEF SkipsNone, Blocks
  <2>1. CASE b = c
    BY <1>5, <1>8, <2>1
  <2>2. CASE b # c
    BY <1>4, <1>8, <2>2 DEF SkipsNone, Blocks
  <2> QED
    BY <2>1, <2>2
<1>14. ASSUME NEW b \in Blocks, order[b] < at + 1 PROVE b = c \/ order[b] < at
  <2>1. order[b] \in Nat /\ at \in Nat
    BY <1>4, Graphs DEF Ordering, Blocks
  <2>2. order[b] < at \/ order[b] = at
    BY <1>14, <2>1
  <2> QED
    BY <1>4, <2>2 DEF Ordering, Blocks
<1>15. Given(graph, order, idom', at')
  BY <1>1, <1>4, <1>5, <1>8, <1>14 DEF Given, Blocks
<1>16. ASSUME ~changed' PROVE Settled(graph, order, idom', at')
  <2>1. ~changed /\ idom' = idom /\ idom[c] = newIdom
    BY <1>1, <1>5, <1>16
  <2>2. Settled(graph, order, idom, at)
    BY <1>4, <2>1
  <2> QED
    BY <1>1, <1>5, <1>14, <2>1, <2>2 DEF Settled, Blocks
<1>17. IdomInv'
  BY <1>1, <1>3, <1>12, <1>13, <1>15, <1>16 DEF IdomInv
<1>18. CandidateInv'
  BY <1>1 DEF CandidateInv, Candidate
<1>19. MeetInv' /\ ChildInv'
  BY <1>1 DEF MeetInv, ChildInv
<1> QED
  BY <1>3, <1>10, <1>17, <1>18, <1>19 DEF IInv, BuildInv

\* Another sweep starts.
LEMMA NextSweepKeeps ==
  ASSUME IInv, NextSweep
  PROVE  IInv'
<1>1. /\ pc = "sweep" /\ pc' = "sweep" /\ at' = 2 /\ met' = {} /\ newIdom' = None
      /\ changed' = FALSE /\ UNCHANGED <<order, idom>> /\ SweepFrame
  BY DEF NextSweep, StartSweep
<1>2. /\ UNCHANGED <<graph, order, postOrder>>
      /\ GraphInv' /\ SearchInv' /\ OrderInv' /\ VerifyInv'
  BY <1>1, SweepKeeps DEF Sorted
<1>3. /\ IsGraph(graph) /\ Ordering(graph, order) /\ NumBlocks \in Nat
      /\ Climbs(graph, order, idom) /\ SkipsNone(graph, idom)
  BY <1>1, Sweeps DEF IInv
<1>4. NumBlocks' = NumBlocks /\ NumBlocks > 0 /\ 0 \in DOMAIN graph /\ None # 0
  BY <1>2, <1>3, Graphs DEF NumBlocks, Blocks
<1>5. PlaceInv'
  <2>1. 2 \in 2..NumBlocks + 1
    BY <1>3, <1>4
  <2> QED
    BY <1>1, <1>4, <2>1 DEF PlaceInv
<1>6. \A b \in DOMAIN graph : order[b] < 2 => b = 0
  BY <1>3, <1>4, Graphs DEF Ordering
<1>7. Given(graph, order, idom, 2) /\ Settled(graph, order, idom, 2)
  BY <1>3, <1>4, <1>6 DEF Given, Settled, Climbs
<1>8. IdomInv'
  BY <1>1, <1>2, <1>3, <1>7 DEF IdomInv
<1>9. CandidateInv' /\ MeetInv' /\ ChildInv'
  BY <1>1 DEF CandidateInv, Candidate, MeetInv, ChildInv
<1> QED
  BY <1>2, <1>5, <1>8, <1>9 DEF IInv, BuildInv

\* After a sweep that changed nothing, the tree can be made.
LEMMA StartTreeKeeps ==
  ASSUME IInv, StartTree
  PROVE  IInv'
<1>1. /\ pc = "sweep" /\ pc' = "tree" /\ at > NumBlocks /\ ~changed
      /\ children' = [b \in Blocks |-> <<>>] /\ at' = 2
      /\ UNCHANGED <<order, idom, changed, newIdom>> /\ SweepFrame
  BY DEF StartTree, SweepAgain
<1>2. /\ UNCHANGED <<graph, order, postOrder>>
      /\ GraphInv' /\ SearchInv' /\ OrderInv' /\ VerifyInv'
  BY <1>1, SweepKeeps DEF Sorted
<1>3. /\ IsGraph(graph) /\ Inside(graph) /\ Ordering(graph, order) /\ NumBlocks \in Nat
      /\ at \in 2..NumBlocks + 1 /\ newIdom \in Blocks \cup {None} /\ changed \in BOOLEAN
      /\ Climbs(graph, order, idom) /\ SkipsNone(graph, idom) /\ Given(graph, order, idom, at)
      /\ Settled(graph, order, idom, at)
  BY <1>1, Sweeps DEF IInv
<1>4. NumBlocks' = NumBlocks /\ Blocks' = Blocks /\ NumBlocks > 0 /\ 0 \in DOMAIN graph
  BY <1>2, <1>3, Graphs DEF NumBlocks, Blocks
<1>5. PlaceInv'
  <2>1. 2 \in 2..NumBlocks + 1
    BY <1>3, <1>4
  <2> QED
    BY <1>1, <1>3, <1>4, <2>1 DEF PlaceInv
<1>6. IdomInv'
  BY <1>1, <1>2, <1>3 DEF IdomInv
<1>7. CandidateInv' /\ MeetInv'
  BY <1>1 DEF CandidateInv, MeetInv
<1>8. \A b \in Blocks : order[b] < at /\ order[b] >= 1
  BY <1>1, <1>3, Graphs DEF Ordering, Blocks, NumBlocks
<1>9. \A b \in Blocks : idom[b] # None
  BY <1>3, <1>8 DEF Given, Blocks
<1>10. idom \in [DOMAIN graph -> DOMAIN graph] /\ idom[0] = 0
  BY <1>3, <1>9 DEF Climbs, Blocks
<1>11. \A b \in DOMAIN graph \ {0}, p \in DOMAIN graph :
         Edge(graph, p, b) => Above(graph, idom, idom[b], p)
  BY <1>3, <1>8, <1>9 DEF Settled, Blocks
<1>12. ASSUME NEW b \in Blocks \ {0} PROVE Dominates(graph, idom[b], b)
  <2>1. Above(graph, idom, idom[b], b)
    BY <1>9, AboveSelf, AboveFirst
  <2> QED
    BY <1>3, <1>10, <1>11, <2>1, FixedPointDominates DEF Blocks
<1>13. Children(graph, order, idom, children', 2)
  <2>1. \A p \in Blocks : children'[p] = <<>> /\ 1..Len(children'[p]) = {}
    BY <1>1
  <2>2. children' \in [DOMAIN graph -> Seq(DOMAIN graph \ {0})]
    BY <1>1 DEF Blocks
  <2>3. \A b \in DOMAIN graph \ {0} : ~(order[b] < 2)
    BY <1>3, <1>4, <1>8, Graphs DEF Ordering, Blocks
  <2> QED
    BY <2>1, <2>2, <2>3 DEF Children, Blocks
<1>14. ChildInv'
  BY <1>1, <1>2, <1>4, <1>9, <1>12, <1>13 DEF ChildInv
<1> QED
  BY <1>2, <1>5, <1>6, <1>7, <1>14 DEF IInv, BuildInv

\* The next block goes below its dominator.
LEMMA ChildrenGrow ==
  ASSUME NEW g, IsGraph(g), NEW ord, Ordering(g, ord), NEW dom \in [DOMAIN g -> DOMAIN g],
         NEW tree, NEW k \in Nat, Children(g, ord, dom, tree, k), NEW c \in DOMAIN g \ {0},
         ord[c] = k
  PROVE  Children(g, ord, dom, [tree EXCEPT ![dom[c]] = Append(@, c)], k + 1)
<1> DEFINE d == dom[c]
           tree1 == [tree EXCEPT ![d] = Append(@, c)]
<1>1. d \in DOMAIN g /\ tree \in [DOMAIN g -> Seq(DOMAIN g \ {0})]
  BY DEF Children
<1>2. tree[d] \in Seq(DOMAIN g \ {0}) /\ Len(tree[d]) \in Nat
  BY <1>1
<1>3. /\ Append(tree[d], c) \in Seq(DOMAIN g \ {0}) /\ Len(Append(tree[d], c)) = Len(tree[d]) + 1
      /\ Append(tree[d], c)[Len(tree[d]) + 1] = c
      /\ \A i \in 1..Len(tree[d]) : Append(tree[d], c)[i] = tree[d][i]
  BY <1>2
<1>4. tree1 \in [DOMAIN g -> Seq(DOMAIN g \ {0})] /\ tree1[d] = Append(tree[d], c)
  BY <1>1, <1>3
<1>5. \A p \in DOMAIN g : p # d => tree1[p] = tree[p]
  BY <1>1
<1> HIDE DEF tree1
<1>6. \A b \in DOMAIN g : ord[b] \in Nat /\ (ord[b] < k + 1 => b = c \/ ord[b] < k)
  BY Graphs DEF Ordering
<1>7. \A p \in DOMAIN g : \A i \in 1..Len(tree[p]) :
        tree[p][i] \in DOMAIN g /\ dom[tree[p][i]] = p /\ ord[tree[p][i]] < k
  BY <1>1 DEF Children
<1>8. ASSUME NEW p \in DOMAIN g, NEW i \in 1..Len(tree1[p])
      PROVE  dom[tree1[p][i]] = p /\ ord[tree1[p][i]] < k + 1
  <2>1. CASE p = d /\ i = Len(tree[d]) + 1
    BY <1>3, <1>4, <2>1
  <2>2. CASE p = d /\ i \in 1..Len(tree[d])
    <3>1. tree1[p][i] = tree[p][i]
      BY <1>3, <1>4, <2>2
    <3> QED
      BY <1>6, <1>7, <2>2, <3>1
  <2>3. CASE p # d
    BY <1>5, <1>6, <1>7, <2>3
  <2> QED
    BY <1>2, <1>3, <1>4, <2>1, <2>2, <2>3
<1>9. ASSUME NEW b \in DOMAIN g \ {0}, ord[b] < k + 1
      PROVE  \E i \in 1..Len(tree1[dom[b]]) : tree1[dom[b]][i] = b
  <2>1. CASE b = c
    <3>1. Len(tree[d]) + 1 \in 1..Len(tree1[d]) /\ tree1[d][Len(tree[d]) + 1] = c
      BY <1>2, <1>3, <1>4
    <3> QED
      BY <2>1, <3>1
  <2>2. CASE ord[b] < k
    <3>1. PICK i \in 1..Len(tree[dom[b]]) : tree[dom[b]][i] = b
      BY <2>2 DEF Children
    <3>2. dom[b] \in DOMAIN g
      OBVIOUS
    <3>3. CASE dom[b] = d
      <4>1. i \in 1..Len(tree1[d]) /\ tree1[d][i] = b
        BY <1>2, <1>3, <1>4, <3>1, <3>3
      <4> QED
        BY <3>3, <4>1
    <3>4. CASE dom[b] # d
      BY <1>5, <3>1, <3>2, <3>4
    <3> QED
      BY <3>3, <3>4
  <2> QED
    BY <1>6, <1>9, <2>1, <2>2
<1>10. ASSUME NEW p \in DOMAIN g, NEW i \in 1..Len(tree1[p]), NEW j \in 1..Len(tree1[p]),
              tree1[p][i] = tree1[p][j]
       PROVE  i = j
  <2>1. \A l, m \in 1..Len(tree[p]) : tree[p][l] = tree[p][m] => l = m
    BY DEF Children
  <2>2. CASE p # d
    BY <1>5, <1>10, <2>1, <2>2
  <2>3. CASE p = d
    <3>1. \A l \in 1..Len(tree[d]) : tree[d][l] # c /\ tree1[d][l] = tree[d][l]
      <4> SUFFICES ASSUME NEW l \in 1..Len(tree[d])
                   PROVE  tree[d][l] # c /\ tree1[d][l] = tree[d][l]
        OBVIOUS
      <4>1. ord[tree[d][l]] < k
        BY <1>1, <1>7
      <4>2. ~(ord[c] < k)
        OBVIOUS
      <4>3. tree[d][l] # c
        BY <4>1, <4>2
      <4>4. tree1[d][l] = tree[d][l]
        BY <1>3, <1>4
      <4> QED
        BY <4>3, <4>4
    <3>2. tree1[d][Len(tree[d]) + 1] = c /\ Len(tree1[d]) = Len(tree[d]) + 1
      BY <1>3, <1>4
    <3>3. \A l \in 1..Len(tree1[d]) : l \in 1..Len(tree[d]) \/ l = Len(tree[d]) + 1
      BY <1>2, <3>2
    <3>4. CASE i \in 1..Len(tree[d]) /\ j \in 1..Len(tree[d])
      BY <1>10, <2>1, <2>3, <3>1, <3>4
    <3> QED
      BY <1>10, <2>3, <3>1, <3>2, <3>3, <3>4
  <2> QED
    BY <2>2, <2>3
<1>11. Children(g, ord, dom, tree1, k + 1)
  BY <1>4, <1>8, <1>9, <1>10 DEF Children
<1> QED
  BY <1>11 DEF tree1

\* A tree with all blocks is the dominator tree.
LEMMA ChildrenDone ==
  ASSUME NEW g, IsGraph(g), NEW ord, Ordering(g, ord), NEW dom, Climbs(g, ord, dom),
         SkipsNone(g, dom), \A b \in DOMAIN g : dom[b] # None,
         \A b \in DOMAIN g \ {0} : Dominates(g, dom[b], b),
         NEW tree, NEW k \in Nat, Children(g, ord, dom, tree, k), k > Cardinality(DOMAIN g)
  PROVE  IsDominatorTree(tree, g)
<1>1. tree \in [DOMAIN g -> Seq(DOMAIN g \ {0})]
  BY DEF Children
<1>2. \A p \in DOMAIN g : DOMAIN tree[p] = 1..Len(tree[p])
  BY <1>1
<1>3. dom \in [DOMAIN g -> DOMAIN g]
  BY DEF Climbs
<1>4. \A p \in DOMAIN g : \A i \in 1..Len(tree[p]) : dom[tree[p][i]] = p
  BY DEF Children
<1>5. ASSUME NEW c \in DOMAIN g \ {0} PROVE \E p \in DOMAIN g : c \in ToSet(tree[p])
  <2>1. ord[c] < k
    BY Graphs DEF Ordering
  <2>2. PICK i \in 1..Len(tree[dom[c]]) : tree[dom[c]][i] = c
    BY <2>1 DEF Children
  <2>3. dom[c] \in DOMAIN g
    BY <1>3
  <2> QED
    BY <1>2, <2>2, <2>3 DEF ToSet
<1>6. ASSUME NEW p \in DOMAIN g, NEW q \in DOMAIN g,
             NEW i \in DOMAIN tree[p], NEW j \in DOMAIN tree[q], tree[p][i] = tree[q][j]
      PROVE  p = q /\ i = j
  <2>1. i \in 1..Len(tree[p]) /\ j \in 1..Len(tree[q])
    BY <1>2
  <2>2. p = q
    BY <1>4, <1>6, <2>1
  <2>3. \A l, m \in 1..Len(tree[p]) : tree[p][l] = tree[p][m] => l = m
    BY DEF Children
  <2> QED
    BY <1>6, <2>1, <2>2, <2>3
<1>7. ASSUME NEW p \in DOMAIN g, NEW c \in ToSet(tree[p])
      PROVE  /\ p # c /\ Dominates(g, p, c)
             /\ \A d \in DOMAIN g \ {c} : Dominates(g, d, c) => Dominates(g, d, p)
  <2>1. PICK i \in 1..Len(tree[p]) : tree[p][i] = c
    BY <1>2 DEF ToSet
  <2>2. c \in DOMAIN g \ {0} /\ dom[c] = p
    BY <1>1, <1>4, <2>1
  <2>3. ord[p] < ord[c] /\ Over(g, c, p)
    BY <2>2 DEF Climbs, SkipsNone
  <2>4. p # c
    BY <2>2, <2>3, Graphs DEF Ordering
  <2> QED
    BY <2>2, <2>3, <2>4 DEF Over
<1> QED
  BY <1>1, <1>5, <1>6, <1>7 DEF IsDominatorTree

\* What the invariant says while the tree is made.
LEMMA Trees ==
  ASSUME BuildInv, pc = "tree"
  PROVE  /\ IsGraph(graph) /\ Ordering(graph, order) /\ Reversed(graph, order, postOrder)
         /\ NumBlocks \in Nat /\ at \in 2..NumBlocks + 1 /\ newIdom \in Blocks \cup {None}
         /\ changed \in BOOLEAN
         /\ Climbs(graph, order, idom) /\ SkipsNone(graph, idom)
         /\ \A b \in Blocks : idom[b] # None
         /\ \A b \in Blocks \ {0} : Dominates(graph, idom[b], b)
         /\ Children(graph, order, idom, children, at)
<1>1. pc \in Sorted
  BY DEF Sorted
<1>2. IsGraph(graph)
  BY DEF BuildInv, GraphInv
<1>3. NumBlocks \in Nat
  BY <1>2, Graphs DEF NumBlocks, Blocks
<1> QED
  BY <1>1, <1>2, <1>3 DEF BuildInv, OrderInv, PlaceInv, IdomInv, ChildInv

\* A block is added.
LEMMA AddChildKeeps ==
  ASSUME IInv, AddChild
  PROVE  IInv'
<1>1. /\ pc = "tree" /\ pc' = "tree" /\ at <= NumBlocks
      /\ children' = [children EXCEPT ![idom[Sweeping]] = Append(@, Sweeping)]
      /\ at' = at + 1
      /\ UNCHANGED <<order, idom, changed, newIdom>> /\ SweepFrame
  BY DEF AddChild
<1>2. /\ UNCHANGED <<graph, order, postOrder>>
      /\ GraphInv' /\ SearchInv' /\ OrderInv' /\ VerifyInv'
  BY <1>1, SweepKeeps DEF Sorted
<1>3. /\ IsGraph(graph) /\ Ordering(graph, order) /\ Reversed(graph, order, postOrder)
      /\ NumBlocks \in Nat /\ at \in 2..NumBlocks + 1 /\ newIdom \in Blocks \cup {None}
      /\ changed \in BOOLEAN
      /\ Climbs(graph, order, idom) /\ SkipsNone(graph, idom)
      /\ \A b \in Blocks : idom[b] # None
      /\ \A b \in Blocks \ {0} : Dominates(graph, idom[b], b)
      /\ Children(graph, order, idom, children, at)
  BY <1>1, Trees DEF IInv
<1>4. NumBlocks' = NumBlocks /\ Blocks' = Blocks
  BY <1>2 DEF NumBlocks, Blocks
<1>5. at \in Nat /\ at \in 1..NumBlocks /\ at > 1 /\ at + 1 \in 2..NumBlocks + 1
  BY <1>1, <1>3
<1>6. Sweeping \in Blocks \ {0} /\ order[Sweeping] = at
  BY <1>3, <1>5, InOrder DEF Sweeping
<1>7. PlaceInv'
  BY <1>1, <1>3, <1>4, <1>5 DEF PlaceInv
<1>8. IdomInv'
  BY <1>1, <1>2, <1>3 DEF IdomInv
<1>9. CandidateInv' /\ MeetInv'
  BY <1>1 DEF CandidateInv, MeetInv
<1>10. idom \in [DOMAIN graph -> DOMAIN graph]
  BY <1>3 DEF Climbs, Blocks
<1>11. Children(graph, order, idom, children', at + 1)
  BY <1>1, <1>3, <1>5, <1>6, <1>10, ChildrenGrow DEF Blocks
<1>12. ChildInv'
  BY <1>1, <1>2, <1>3, <1>4, <1>11 DEF ChildInv
<1> QED
  BY <1>2, <1>7, <1>8, <1>9, <1>12 DEF IInv, BuildInv

\* Build is over: nothing is left of it but a graph.
LEMMA NotBuilding ==
  ASSUME GraphInv', pc' \notin Building
  PROVE  BuildInv'
  BY DEF BuildInv, SearchInv, OrderInv, PlaceInv, IdomInv, CandidateInv, MeetInv, ChildInv,
         Building, Sorted

\* The tree Build returns.
LEMMA BuiltTree ==
  ASSUME IInv, pc = "tree", at > NumBlocks
  PROVE  IsDominatorTree(children, graph)
<1>1. /\ IsGraph(graph) /\ Ordering(graph, order)
      /\ NumBlocks \in Nat /\ at \in 2..NumBlocks + 1
      /\ Climbs(graph, order, idom) /\ SkipsNone(graph, idom)
      /\ \A b \in Blocks : idom[b] # None
      /\ \A b \in Blocks \ {0} : Dominates(graph, idom[b], b)
      /\ Children(graph, order, idom, children, at)
  BY Trees DEF IInv
<1>2. at \in Nat
  BY <1>1
<1> QED
  BY <1>1, <1>2, ChildrenDone DEF Blocks, NumBlocks

\* The body's tree is done.
LEMMA BodyTreeKeeps ==
  ASSUME IInv, BodyTree
  PROVE  IInv'
<1>1. /\ pc = "tree" /\ at > NumBlocks /\ ~inRegion /\ domTree' = children
      /\ text' \in Codes(body) /\ pc' = "next"
      /\ UNCHANGED <<result, body, graph, inRegion, regionTree, specifics, evaluated,
                     evaluatedOrder, work, rest, current, steps>>
  BY DEF BodyTree, builder, verifier
<1>2. pc \notin Walking /\ pc' \notin Walking /\ pc # "insts" /\ pc' # "insts"
  BY <1>1 DEF Walking
<1>3. graph = body /\ body \in Bodies
  BY <1>1 DEF IInv, BuildInv, GraphInv
<1>4. IsDominatorTree(domTree', body')
  BY <1>1, <1>3, BuiltTree
<1>5. IsText(text', body)
  BY <1>1, <1>3, BodiesAssumption
<1>6. GraphInv'
  BY <1>1 DEF IInv, BuildInv, GraphInv, PCs, Building, Sorted
<1>7. BuildInv'
  BY <1>1, <1>6, NotBuilding DEF Building, Sorted
<1>8. ReadyInv' /\ TreeInv'
  BY <1>1, <1>4, <1>5 DEF ReadyInv, TreeInv
<1>9. steps = <<>>
  BY <1>1, <1>2 DEF IInv, VerifyInv, RestInv
<1>10. SeenInv'
  BY <1>1 DEF IInv, VerifyInv, SeenInv, Seen, Listed
<1>11. WorkInv'
  BY <1>1 DEF IInv, VerifyInv, WorkInv, WalkStep, InnerLast
<1>12. StepsInv'
  BY <1>1, <1>9 DEF IInv, VerifyInv, StepsInv, Nested, Enters
<1>13. RestInv'
  BY <1>1, <1>2 DEF IInv, VerifyInv, RestInv
<1> QED
  BY <1>7, <1>8, <1>10, <1>11, <1>12, <1>13 DEF IInv, VerifyInv

\* Build fails.
LEMMA BuildFails ==
  ASSUME IInv, pc \in {"cfg", "dfs"}, ~inRegion, Fail, UNCHANGED <<input, builder, trees, verifier>>
  PROVE  IInv'
<1>1. /\ pc' = "next" /\ result' = "error"
      /\ UNCHANGED <<body, text, graph, inRegion, domTree, regionTree, specifics, evaluated,
                     evaluatedOrder, work, rest, current, steps>>
  BY DEF Fail, input, builder, trees, verifier
<1>2. pc \notin Walking /\ pc' \notin Walking /\ pc # "insts" /\ pc' # "insts"
  BY <1>1 DEF Walking
<1>3. GraphInv'
  BY <1>1 DEF IInv, BuildInv, GraphInv, PCs, Building, Sorted
<1>4. BuildInv'
  BY <1>1, <1>3, NotBuilding DEF Building, Sorted
<1>5. ReadyInv' /\ TreeInv'
  BY <1>1, <1>2 DEF IInv, VerifyInv, ReadyInv, Ready, TreeInv
<1>6. SeenInv'
  BY <1>1 DEF IInv, VerifyInv, SeenInv, Seen, Listed
<1>7. WorkInv'
  BY <1>1 DEF IInv, VerifyInv, WorkInv, WalkStep, InnerLast
<1>8. StepsInv'
  BY <1>1 DEF IInv, VerifyInv, StepsInv, Region
<1>9. RestInv'
  BY <1>1, <1>2 DEF IInv, VerifyInv, RestInv
<1> QED
  BY <1>4, <1>5, <1>6, <1>7, <1>8, <1>9 DEF IInv, VerifyInv
----------------------------------------------------------------------------
(* Scopes                                                                   *)

\* Recording an instruction lists it once.
LEMMA RecordLists ==
  ASSUME NEW ev, Listed(ev), NEW x \in Insts
  PROVE  /\ Listed(RecordEvaluated(ev, x))
         /\ Len(ev.order) \in Nat /\ Len(RecordEvaluated(ev, x).order) \in Nat
         /\ Len(ev.order) <= Len(RecordEvaluated(ev, x).order)
<1>1. /\ ev.order \in Seq(Insts) /\ ev.set = ToSet(ev.order) /\ Len(ev.order) \in Nat
      /\ \A i, j \in 1..Len(ev.order) : ev.order[i] = ev.order[j] => i = j
  BY DEF Listed
<1>2. CASE x \in ev.set
  BY <1>1, <1>2 DEF RecordEvaluated
<1>3. CASE x \notin ev.set
  <2> DEFINE o == Append(ev.order, x)
             new == [set |-> ev.set \cup {x}, order |-> o]
  <2>1. RecordEvaluated(ev, x) = new /\ new.set = ev.set \cup {x} /\ new.order = o
    BY <1>3 DEF RecordEvaluated
  <2>2. /\ o \in Seq(Insts) /\ Len(o) = Len(ev.order) + 1 /\ o[Len(ev.order) + 1] = x
        /\ \A i \in 1..Len(ev.order) : o[i] = ev.order[i]
    BY <1>1
  <2> HIDE DEF o, new
  <2>3. \A i \in 1..Len(o) : i \in 1..Len(ev.order) \/ i = Len(ev.order) + 1
    BY <1>1, <2>2
  <2>4. DOMAIN o = 1..Len(o) /\ DOMAIN ev.order = 1..Len(ev.order)
    BY <1>1, <2>2
  <2>5. 1..Len(ev.order) \subseteq 1..Len(o) /\ Len(ev.order) + 1 \in 1..Len(o)
    BY <1>1, <2>2
  <2>6. ToSet(o) = ev.set \cup {x}
    BY <1>1, <2>2, <2>3, <2>4, <2>5 DEF ToSet
  <2>7. \A i \in 1..Len(ev.order) : ev.order[i] # x
    BY <1>1, <1>3, <2>4 DEF ToSet
  <2>8. \A i, j \in 1..Len(o) : o[i] = o[j] => i = j
    BY <1>1, <2>2, <2>3, <2>7
  <2>9. Listed(new)
    BY <2>1, <2>2, <2>6, <2>8 DEF Listed
  <2> QED
    BY <1>1, <2>1, <2>2, <2>9
<1> QED
  BY <1>2, <1>3

\* Leaving a scope takes back what it recorded.
LEMMA LeaveLists ==
  ASSUME NEW ev, Listed(ev), NEW n \in 0..Len(ev.order)
  PROVE  Listed(LeaveScope(ev, n)) /\ Len(LeaveScope(ev, n).order) = n
<1> DEFINE o == SubSeq(ev.order, 1, n)
           left == SubSeq(ev.order, n + 1, Len(ev.order))
           new == LeaveScope(ev, n)
<1>1. /\ ev.order \in Seq(Insts) /\ ev.set = ToSet(ev.order) /\ Len(ev.order) \in Nat
      /\ \A i, j \in 1..Len(ev.order) : ev.order[i] = ev.order[j] => i = j
  BY DEF Listed
<1>2. new.set = ev.set \ ToSet(left) /\ new.order = o
  BY DEF LeaveScope
<1>3. o \in Seq(Insts) /\ Len(o) = n /\ \A i \in 1..n : o[i] = ev.order[i]
  BY <1>1
<1>4. /\ left \in Seq(Insts) /\ Len(left) = Len(ev.order) - n
      /\ \A i \in 1..Len(left) : left[i] = ev.order[n + i]
  <2>1. n + 1 \in 1..Len(ev.order) + 1 /\ Len(ev.order) \in Nat
    BY <1>1
  <2>2. CASE n = Len(ev.order)
    <3>1. left = <<>>
      BY <1>1, <2>2
    <3> QED
      BY <1>1, <2>2, <3>1
  <2>3. CASE n < Len(ev.order)
    BY <1>1, <2>3
  <2> QED
    BY <2>1, <2>2, <2>3
<1> HIDE DEF o, left, new
<1>5. /\ DOMAIN o = 1..n /\ DOMAIN left = 1..Len(left) /\ DOMAIN ev.order = 1..Len(ev.order)
  BY <1>1, <1>3, <1>4
<1>6. \A i \in 1..Len(ev.order) : i \in 1..n \/ (i - n \in 1..Len(left) /\ n + (i - n) = i)
  BY <1>1, <1>4
<1>7. \A i \in 1..Len(left) : n + i \in 1..Len(ev.order) /\ n + i \notin 1..n
  BY <1>1, <1>4
<1>8. 1..n \subseteq 1..Len(ev.order)
  BY <1>1
<1>9. ASSUME NEW x \in new.set PROVE x \in ToSet(o)
  <2>1. PICK i \in 1..Len(ev.order) : ev.order[i] = x
    BY <1>1, <1>2, <1>5 DEF ToSet
  <2>2. ASSUME i - n \in 1..Len(left), n + (i - n) = i PROVE FALSE
    <3>1. left[i - n] = x
      BY <1>4, <2>1, <2>2
    <3> QED
      BY <1>2, <1>5, <2>2, <3>1 DEF ToSet
  <2> QED
    BY <1>3, <1>5, <1>6, <2>1, <2>2 DEF ToSet
<1>10. ASSUME NEW x \in ToSet(o) PROVE x \in new.set
  <2>1. PICK i \in 1..n : ev.order[i] = x
    BY <1>3, <1>5 DEF ToSet
  <2>2. x \in ev.set
    BY <1>1, <1>5, <1>8, <2>1 DEF ToSet
  <2>3. ASSUME NEW j \in 1..Len(left), left[j] = x PROVE FALSE
    <3>1. ev.order[n + j] = x /\ n + j \in 1..Len(ev.order) /\ n + j # i
      BY <1>4, <1>7, <2>3
    <3> QED
      BY <1>1, <1>8, <2>1, <3>1
  <2> QED
    BY <1>2, <1>5, <2>2, <2>3 DEF ToSet
<1>11. new.set = ToSet(o)
  BY <1>9, <1>10
<1>12. \A i, j \in 1..n : o[i] = o[j] => i = j
  BY <1>1, <1>3, <1>8
<1>13. Listed(new) /\ Len(new.order) = n
  BY <1>2, <1>3, <1>11, <1>12 DEF Listed
<1> QED
  BY <1>13 DEF new

\* The elements of two sequences put together.
LEMMA Joined ==
  ASSUME NEW S, NEW s \in Seq(S), NEW t \in Seq(S)
  PROVE  /\ s \o t \in Seq(S) /\ Len(s \o t) = Len(s) + Len(t) /\ Len(s) \in Nat /\ Len(t) \in Nat
         /\ \A i \in 1..Len(s) : (s \o t)[i] = s[i]
         /\ \A i \in 1..Len(t) : (s \o t)[Len(s) + i] = t[i]
  OBVIOUS

\* A worklist of VerifyAndRecordInst, and steps that leave no scope.
Steps(list, blocks, region, n) ==
  list \in Seq(StepSet) /\ Enters(list, region) /\ Nested(list, blocks, n)
Unscoped(list, region) ==
  /\ list \in Seq(StepSet) /\ Enters(list, region)
  /\ \A i \in 1..Len(list) : list[i].kind \notin Scoped /\ list[i].scope = 0

\* The step on top is done: no less is evaluated than before it, or than when
\* the scope that it leaves was entered.
LEMMA StepsPop ==
  ASSUME NEW list, NEW blocks \in Seq(WalkStep), NEW region, NEW n \in Nat,
         Steps(list, blocks, region, n), list # <<>>, NEW m \in Nat,
         n <= m \/ (Last(list).kind \in Scoped /\ Last(list).scope <= m)
  PROVE  Steps(Front(list), blocks, region, m)
<1> DEFINE k == Len(list)
           front == Front(list)
<1>1. /\ list \in Seq(StepSet) /\ Enters(list, region) /\ Nested(list, blocks, n)
  BY DEF Steps
<1>2. /\ front \in Seq(StepSet) /\ Len(front) = k - 1 /\ k \in Nat /\ k > 0
      /\ \A i \in 1..k - 1 : front[i] = list[i]
      /\ Last(list) = list[k]
  BY <1>1, FrontAndLast
<1>3. \A i \in 1..k : list[i].scope \in Nat
  <2>1. \A i \in 1..k : list[i] \in StepSet
    BY <1>1
  <2> QED
    BY <2>1 DEF StepSet
<1> HIDE DEF k, front
<1>4. \A i \in 1..Len(front) : i \in 1..k /\ i < k /\ front[i] = list[i]
  BY <1>2
<1>5. k \in 1..k
  BY <1>2
<1>6. Enters(front, region)
  BY <1>1, <1>4 DEF Enters, k
<1>7. ASSUME NEW i \in 1..Len(front) PROVE front[i].scope <= m
  <2>1. list[i].scope <= n /\ list[i].scope \in Nat /\ list[k].scope \in Nat
    BY <1>1, <1>3, <1>4, <1>5 DEF Nested, k
  <2>2. list[k].kind \in Scoped => list[i].scope <= list[k].scope
    BY <1>1, <1>4, <1>5 DEF Nested, k
  <2> QED
    BY <1>2, <1>4, <2>1, <2>2
<1>8. Nested(front, blocks, m)
  BY <1>1, <1>4, <1>7 DEF Nested, k
<1>9. Steps(front, blocks, region, m)
  BY <1>2, <1>6, <1>8 DEF Steps
<1> QED
  BY <1>9 DEF front

\* Steps that leave no scope go on top.
LEMMA StepsAdd ==
  ASSUME NEW list, NEW blocks, NEW region, NEW n \in Nat, Steps(list, blocks, region, n),
         NEW more, Unscoped(more, region)
  PROVE  Steps(list \o more, blocks, region, n)
<1> DEFINE k == Len(list)
           all == list \o more
<1>1. /\ list \in Seq(StepSet) /\ Enters(list, region) /\ Nested(list, blocks, n)
      /\ more \in Seq(StepSet) /\ Enters(more, region)
      /\ \A i \in 1..Len(more) : more[i].kind \notin Scoped /\ more[i].scope = 0
  BY DEF Steps, Unscoped
<1>2. /\ all \in Seq(StepSet) /\ Len(all) = k + Len(more) /\ k \in Nat /\ Len(more) \in Nat
      /\ \A i \in 1..k : all[i] = list[i]
      /\ \A i \in 1..Len(more) : all[k + i] = more[i]
  BY <1>1, Joined
<1> HIDE DEF k, all
<1>3. ASSUME NEW i \in 1..Len(all)
      PROVE  i \in 1..k \/ (i - k \in 1..Len(more) /\ k + (i - k) = i /\ i > k)
  BY <1>2
<1>4. \A i \in 1..Len(all) :
         \/ i \in 1..k /\ all[i] = list[i]
         \/ i > k /\ \E j \in 1..Len(more) : all[i] = more[j]
  BY <1>2, <1>3
<1>5. Enters(all, region)
  BY <1>1, <1>4 DEF Enters, k
<1>6. \A i \in 1..Len(all) : all[i].scope <= n
  BY <1>1, <1>4 DEF Nested, k
<1>7. ASSUME NEW j \in 1..Len(all), all[j].kind \in Scoped PROVE j \in 1..k /\ all[j] = list[j]
  BY <1>1, <1>4, <1>7
<1>8. ASSUME NEW i \in 1..Len(all), NEW j \in 1..k, i < j PROVE i \in 1..k /\ all[i] = list[i]
  BY <1>2, <1>4, <1>8
<1>9. Nested(all, blocks, n)
  BY <1>1, <1>6, <1>7, <1>8 DEF Nested, k
<1>10. Steps(all, blocks, region, n)
  BY <1>2, <1>5, <1>9 DEF Steps
<1> QED
  BY <1>10 DEF all

\* A scope is entered: the step that leaves it goes on top.
LEMMA StepsScope ==
  ASSUME NEW list, NEW blocks \in Seq(WalkStep), NEW region, NEW n \in Nat,
         Steps(list, blocks, region, n), InnerLast(blocks, n),
         NEW e \in StepSet, e.kind # "enterRegion", e.scope <= n, e.kind \in Scoped => e.scope = n
  PROVE  Steps(Append(list, e), blocks, region, n)
<1> DEFINE k == Len(list)
           all == Append(list, e)
<1>1. /\ list \in Seq(StepSet) /\ Enters(list, region) /\ Nested(list, blocks, n)
  BY DEF Steps
<1>2. /\ all \in Seq(StepSet) /\ Len(all) = k + 1 /\ k \in Nat
      /\ \A i \in 1..k : all[i] = list[i]
      /\ all[k + 1] = e
  BY <1>1
<1> HIDE DEF k, all
<1>3. \A i \in 1..Len(all) : (i \in 1..k /\ all[i] = list[i]) \/ (i = k + 1 /\ all[i] = e)
  BY <1>2
<1>4. Enters(all, region)
  BY <1>1, <1>3 DEF Enters, k
<1>5. \A i \in 1..Len(all) : all[i].scope <= n
  BY <1>1, <1>3 DEF Nested, k
<1>6. ASSUME NEW i \in 1..Len(all), NEW j \in 1..Len(all), i < j, all[j].kind \in Scoped
      PROVE  all[i].scope <= all[j].scope
  <2>1. i \in 1..k /\ all[i] = list[i]
    BY <1>2, <1>3, <1>6
  <2> QED
    BY <1>1, <1>3, <1>6, <2>1 DEF Nested, k
<1>7. ASSUME NEW i \in 1..Len(blocks), NEW j \in 1..Len(all), all[j].kind \in Scoped
      PROVE  blocks[i].scopeStart <= all[j].scope
  BY <1>1, <1>3, <1>7 DEF Nested, InnerLast, k
<1>8. Nested(all, blocks, n)
  BY <1>5, <1>6, <1>7 DEF Nested
<1>9. Steps(all, blocks, region, n)
  BY <1>2, <1>4, <1>8 DEF Steps
<1> QED
  BY <1>9 DEF all

\* More is evaluated than before.
LEMMA StepsStay ==
  ASSUME NEW list, NEW blocks, NEW region, NEW n \in Nat, NEW m \in Nat, n <= m,
         Steps(list, blocks, region, n)
  PROVE  Steps(list, blocks, region, m)
<1>1. list \in Seq(StepSet) /\ Enters(list, region) /\ Nested(list, blocks, n)
  BY DEF Steps
<1>2. \A i \in 1..Len(list) : list[i] \in StepSet
  BY <1>1
<1>3. \A i \in 1..Len(list) : list[i].scope \in Nat
  BY <1>2 DEF StepSet
<1>4. \A i \in 1..Len(list) : list[i].scope <= m
  BY <1>1, <1>3 DEF Nested
<1> QED
  BY <1>1, <1>4 DEF Steps, Nested

\* The steps that evaluate instructions leave no scope.
LEMMA InstStepsAreUnscoped ==
  ASSUME NEW insts \in Seq(Insts), NEW region
  PROVE  Unscoped(InstSteps(insts), region)
<1> DEFINE k == Len(insts)
           list == InstSteps(insts)
<1>1. DOMAIN insts = 1..k /\ k \in Nat
  OBVIOUS
<1>2. list = [i \in 1..k |-> InstStep(Reverse(insts)[i])]
  BY <1>1 DEF InstSteps
<1>3. ASSUME NEW i \in 1..k PROVE Reverse(insts)[i] \in Insts
  <2>1. (k - i) + 1 \in 1..k
    BY <1>1
  <2>2. Reverse(insts)[i] = insts[(k - i) + 1]
    BY <1>1 DEF Reverse
  <2> QED
    BY <2>1, <2>2
<1>4. ASSUME NEW i \in 1..k
      PROVE  list[i] \in StepSet /\ list[i].kind = "inst" /\ list[i].scope = 0
  <2>1. list[i] = [kind |-> "inst", inst |-> Reverse(insts)[i], block |-> None, scope |-> 0]
    BY <1>2 DEF InstStep, Step
  <2> QED
    BY <1>3, <2>1 DEF StepSet, None
<1> HIDE DEF list
<1>5. list \in Seq(StepSet) /\ Len(list) = k
  BY <1>1, <1>2, <1>4
<1>6. "inst" \notin Scoped /\ "inst" # "enterRegion"
  BY DEF Scoped
<1>7. Unscoped(list, region)
  BY <1>4, <1>5, <1>6 DEF Unscoped, Enters
<1> QED
  BY <1>7 DEF list

\* The worklist of VerifyBlocks.
Work(list, n) == list \in Seq(WalkStep) /\ InnerLast(list, n)

\* A block is left: what was evaluated when it was entered is.
LEMMA WorkPop ==
  ASSUME NEW list, NEW n \in Nat, Work(list, n), list # <<>>, NEW m \in Nat,
         n <= m \/ (Last(list).block = None /\ Last(list).scopeStart <= m)
  PROVE  Work(Front(list), m)
<1> DEFINE k == Len(list)
           front == Front(list)
<1>1. list \in Seq(WalkStep) /\ InnerLast(list, n)
  BY DEF Work
<1>2. /\ front \in Seq(WalkStep) /\ Len(front) = k - 1 /\ k \in Nat /\ k > 0
      /\ \A i \in 1..k - 1 : front[i] = list[i]
      /\ Last(list) = list[k]
  BY <1>1, FrontAndLast
<1>3. \A i \in 1..k : list[i].scopeStart \in Nat
  <2>1. \A i \in 1..k : list[i] \in WalkStep
    BY <1>1
  <2> QED
    BY <2>1 DEF WalkStep
<1> HIDE DEF k, front
<1>4. \A i \in 1..Len(front) : i \in 1..k /\ i < k /\ front[i] = list[i]
  BY <1>2
<1>5. k \in 1..k
  BY <1>2
<1>6. ASSUME NEW i \in 1..Len(front) PROVE front[i].scopeStart <= m
  <2>1. list[i].scopeStart <= n /\ list[i].scopeStart \in Nat /\ list[k].scopeStart \in Nat
    BY <1>1, <1>3, <1>4, <1>5 DEF InnerLast, k
  <2>2. list[k].block = None => list[i].scopeStart <= list[k].scopeStart
    BY <1>1, <1>4, <1>5 DEF InnerLast, k
  <2> QED
    BY <1>2, <1>4, <2>1, <2>2
<1>7. InnerLast(front, m)
  BY <1>1, <1>4, <1>6 DEF InnerLast, k
<1> QED
  BY <1>2, <1>7 DEF Work, front

\* A block is entered: it will be left to what is evaluated now.
LEMMA WorkScope ==
  ASSUME NEW list, NEW n \in Nat, Work(list, n)
  PROVE  Work(Append(list, [block |-> None, scopeStart |-> n]), n)
<1> DEFINE k == Len(list)
           e == [block |-> None, scopeStart |-> n]
           all == Append(list, e)
<1>1. list \in Seq(WalkStep) /\ InnerLast(list, n)
  BY DEF Work
<1>2. e \in WalkStep /\ e.scopeStart = n
  BY DEF WalkStep
<1> HIDE DEF e
<1>3. /\ all \in Seq(WalkStep) /\ Len(all) = k + 1 /\ k \in Nat
      /\ \A i \in 1..k : all[i] = list[i]
      /\ all[k + 1] = e
  BY <1>1, <1>2
<1> HIDE DEF k, all
<1>4. \A i \in 1..Len(all) : (i \in 1..k /\ all[i] = list[i]) \/ (i = k + 1 /\ all[i] = e)
  BY <1>3
<1>5. \A i \in 1..Len(all) : all[i].scopeStart <= n
  BY <1>1, <1>2, <1>4 DEF InnerLast, k
<1>6. ASSUME NEW i \in 1..Len(all), NEW j \in 1..Len(all), i < j, all[j].block = None
      PROVE  all[i].scopeStart <= all[j].scopeStart
  <2>1. i \in 1..k /\ all[i] = list[i]
    BY <1>3, <1>4, <1>6
  <2> QED
    BY <1>1, <1>2, <1>4, <1>6, <2>1 DEF InnerLast, k
<1>7. InnerLast(all, n)
  BY <1>5, <1>6 DEF InnerLast
<1> QED
  BY <1>3, <1>7 DEF Work, all, e

\* Blocks to enter go on top.
LEMMA WorkAdd ==
  ASSUME NEW list, NEW n \in Nat, Work(list, n), IsGraph(body), NEW blocks \in Seq(DOMAIN body)
  PROVE  Work(list \o [i \in DOMAIN blocks |-> EnterBlock(blocks[i])], n)
<1> DEFINE k == Len(list)
           more == [i \in DOMAIN blocks |-> EnterBlock(blocks[i])]
           all == list \o more
<1>1. list \in Seq(WalkStep) /\ InnerLast(list, n)
  BY DEF Work
<1>2. DOMAIN blocks = 1..Len(blocks) /\ Len(blocks) \in Nat
  OBVIOUS
<1>3. ASSUME NEW i \in 1..Len(blocks)
      PROVE  more[i] \in WalkStep /\ more[i].block # None /\ more[i].scopeStart = 0
  <2>1. blocks[i] \in DOMAIN body /\ blocks[i] # None
    BY <1>2, Graphs
  <2>2. more[i] = [block |-> blocks[i], scopeStart |-> 0]
    BY <1>2 DEF EnterBlock
  <2> QED
    BY <2>1, <2>2 DEF WalkStep
<1>4. more \in Seq(WalkStep) /\ Len(more) = Len(blocks)
  BY <1>2, <1>3
<1> HIDE DEF more
<1>5. /\ all \in Seq(WalkStep) /\ Len(all) = k + Len(more) /\ k \in Nat /\ Len(more) \in Nat
      /\ \A i \in 1..k : all[i] = list[i]
      /\ \A i \in 1..Len(more) : all[k + i] = more[i]
  <2>1. /\ all \in Seq(WalkStep) /\ Len(all) = k + Len(more) /\ k \in Nat /\ Len(more) \in Nat
    BY <1>1, <1>4
  <2>2. \A i \in 1..k : all[i] = list[i]
    BY <1>1, <1>4, Joined, Zenon
  <2>3. \A i \in 1..Len(more) : all[k + i] = more[i]
    BY <1>1, <1>4
  <2> QED
    BY <2>1, <2>2, <2>3
<1> HIDE DEF k, all
<1>6. ASSUME NEW i \in 1..Len(all)
      PROVE  i \in 1..k \/ (i - k \in 1..Len(more) /\ k + (i - k) = i /\ i > k)
  BY <1>5
<1>7. \A i \in 1..Len(all) :
         \/ i \in 1..k /\ all[i] = list[i]
         \/ i > k /\ \E j \in 1..Len(more) : all[i] = more[j]
  BY <1>5, <1>6
<1>8. \A i \in 1..Len(all) : all[i].scopeStart <= n
  BY <1>1, <1>3, <1>4, <1>7 DEF InnerLast, k
<1>9. ASSUME NEW j \in 1..Len(all), all[j].block = None PROVE j \in 1..k /\ all[j] = list[j]
  BY <1>3, <1>4, <1>7, <1>9
<1>10. ASSUME NEW i \in 1..Len(all), NEW j \in 1..k, i < j PROVE i \in 1..k /\ all[i] = list[i]
  BY <1>5, <1>7, <1>10
<1>11. InnerLast(all, n)
  BY <1>1, <1>8, <1>9, <1>10 DEF InnerLast, k
<1> QED
  BY <1>5, <1>11 DEF Work, all, more

\* More is evaluated than before.
LEMMA WorkStays ==
  ASSUME NEW list, NEW n \in Nat, NEW m \in Nat, Work(list, n),
         n <= m \/ \A i \in 1..Len(list) : list[i].scopeStart <= m
  PROVE  Work(list, m)
<1>1. list \in Seq(WalkStep) /\ InnerLast(list, n)
  BY DEF Work
<1>2. \A i \in 1..Len(list) : list[i] \in WalkStep
  BY <1>1
<1>3. \A i \in 1..Len(list) : list[i].scopeStart \in Nat
  BY <1>2 DEF WalkStep
<1>4. \A i \in 1..Len(list) : list[i].scopeStart <= m
  BY <1>1, <1>3 DEF InnerLast
<1> QED
  BY <1>1, <1>4 DEF Work, InnerLast
----------------------------------------------------------------------------
(* The steps of Verify                                                      *)

\* Before the first function there is a graph of one block.
LEMMA NoFunctionIsGraph == IsGraph(NoFunctionYet)
<1>1. IsFiniteSet({0}) /\ Cardinality({0}) = 1
  BY FS_Singleton
<1>2. DOMAIN NoFunctionYet = {0} /\ {0} = 0..1 - 1 /\ NoFunctionYet[0] = <<>>
  BY DEF NoFunctionYet
<1>3. NoFunctionYet \in [{0} -> Seq(Nat)]
  BY <1>2 DEF NoFunctionYet
<1> QED
  BY <1>1, <1>2, <1>3 DEF IsGraph

\* What holds at each step.
LEMMA Walks ==
  ASSUME IInv
  PROVE  /\ Size \in Nat /\ Listed(Seen) /\ IsGraph(body) /\ work \in Seq(WalkStep)
         /\ Work(work, Size) /\ Steps(steps, work, Region, Size)
         /\ rest \in Seq(Insts) /\ current \in DOMAIN body
         /\ pc \in Walking => IsText(text, body) /\ IsDominatorTree(domTree, body)
         /\ pc \in Walking => ~inRegion /\ specifics # <<>>
         /\ specifics \in Seq(AllSpecifics)
<1>1. Listed(Seen) /\ Seen.order = evaluatedOrder
  BY DEF IInv, VerifyInv, SeenInv, Seen
<1>2. Size \in Nat
  BY <1>1 DEF Listed, Size
<1>3. IsGraph(body)
  BY NoFunctionIsGraph, BodiesAssumption DEF IInv, BuildInv, GraphInv
<1>4. pc \in Walking => ~inRegion
  BY DEF IInv, BuildInv, GraphInv, Walking, Building, Sorted
<1> QED
  BY <1>1, <1>2, <1>3, <1>4
     DEF IInv, VerifyInv, WorkInv, StepsInv, Work, Steps, RestInv, ReadyInv, Ready, Size

\* A step within a verification.
LEMMA WalkKeeps ==
  ASSUME IInv, pc \in Walking, pc' \in Walking, WalkFrame,
         Listed(Seen'), Work(work', Size'), Steps(steps', work', Region, Size'),
         rest' \in Seq(Insts), current' \in DOMAIN body, pc' # "insts" => steps' = <<>>
  PROVE  IInv'
<1>1. /\ UNCHANGED <<result, body, text, graph, inRegion, domTree, regionTree, specifics>>
  BY DEF WalkFrame, input, builder, trees
<1>2. /\ pc \notin {"file", "cfg", "next", "done"} \cup Building
      /\ pc' \notin {"file", "cfg", "next", "done"} \cup Building
  BY DEF Walking, Building, Sorted
<1>3. GraphInv'
  BY <1>1, <1>2 DEF IInv, BuildInv, GraphInv, PCs
<1>4. BuildInv'
  BY <1>2, <1>3, NotBuilding
<1>5. IsText(text, body) /\ IsDominatorTree(domTree, body) /\ ~inRegion /\ specifics # <<>>
  BY Walks
<1>6. ReadyInv' /\ TreeInv'
  BY <1>1, <1>5 DEF ReadyInv, TreeInv
<1>7. SeenInv'
  BY DEF SeenInv
<1>8. WorkInv'
  BY <1>1 DEF Work, WorkInv, WalkStep, Size
<1>9. StepsInv'
  BY <1>1 DEF Steps, StepsInv, Region, Size
<1>10. RestInv'
  BY <1>1, <1>5, Walks DEF RestInv
<1> QED
  BY <1>4, <1>6, <1>7, <1>8, <1>9, <1>10 DEF IInv, VerifyInv

\* The function's declaration is evaluated first.
LEMMA NextVerifyKeeps ==
  ASSUME IInv, NextVerify
  PROVE  IInv'
<1>1. /\ pc = "next" /\ result = "running" /\ specifics # <<>> /\ rest' = Params /\ pc' = "params"
      /\ UNCHANGED <<result, body, text, graph, inRegion, domTree, regionTree, specifics,
                     evaluated, evaluatedOrder, work, current, steps>>
  BY DEF NextVerify, WalkFrame, input, builder, trees, seen
<1>2. ~inRegion /\ pc' \notin Building /\ pc' \in Walking /\ pc \notin Walking
  BY <1>1 DEF IInv, BuildInv, GraphInv, Building, Sorted, Walking
<1>3. GraphInv'
  BY <1>1, <1>2 DEF IInv, BuildInv, GraphInv, PCs
<1>4. BuildInv'
  BY <1>2, <1>3, NotBuilding
<1>5. ReadyInv' /\ TreeInv'
  BY <1>1 DEF IInv, VerifyInv, ReadyInv, Ready, TreeInv
<1>6. SeenInv'
  BY <1>1 DEF IInv, VerifyInv, SeenInv, Seen, Listed
<1>7. WorkInv'
  BY <1>1 DEF IInv, VerifyInv, WorkInv, WalkStep, InnerLast
<1>8. StepsInv'
  BY <1>1 DEF IInv, VerifyInv, StepsInv, Region
<1>9. RestInv'
  BY <1>1, <1>2, InstsAssumption DEF IInv, VerifyInv, RestInv
<1> QED
  BY <1>4, <1>5, <1>6, <1>7, <1>8, <1>9 DEF IInv, VerifyInv

\* Nothing is on a worklist.
LEMMA NoSteps ==
  ASSUME NEW blocks, NEW region, NEW n
  PROVE  Steps(<<>>, blocks, region, n) /\ Work(<<>>, n)
<1>1. 1..Len(<<>>) = {} /\ <<>> \in Seq(StepSet) /\ <<>> \in Seq(WalkStep)
  OBVIOUS
<1> QED
  BY <1>1 DEF Steps, Work, Enters, Nested, InnerLast

\* Before the walk there are no steps.
LEMMA NoStepsYet ==
  ASSUME IInv, pc \in Walking \ {"insts"}
  PROVE  steps = <<>>
  BY Walks DEF IInv, VerifyInv, RestInv

\* What is evaluated is set.
LEMMA Sets ==
  ASSUME NEW ev, Listed(ev), SetSeen(ev)
  PROVE  Listed(Seen') /\ Size' = Len(ev.order)
<1>1. Seen'.set = ev.set /\ Seen'.order = ev.order /\ Size' = Len(ev.order)
  BY DEF SetSeen, Seen, Size
<1> QED
  BY <1>1 DEF Listed

\* An instruction is recorded.
LEMMA Records ==
  ASSUME IInv, NEW x \in Insts, SetSeen(RecordEvaluated(Seen, x))
  PROVE  Listed(Seen') /\ Size' \in Nat /\ Size <= Size'
<1>1. Listed(Seen) /\ Len(Seen.order) = Size
  BY Walks DEF Seen, Size
<1>2. Listed(RecordEvaluated(Seen, x)) /\ Len(RecordEvaluated(Seen, x).order) \in Nat
  BY <1>1, RecordLists
<1>3. Size <= Len(RecordEvaluated(Seen, x).order)
  BY <1>1, RecordLists
<1> QED
  BY <1>2, <1>3, Sets

\* An instruction of the declaration is recorded.
LEMMA RecordEvaluatedBlockKeeps ==
  ASSUME IInv, RecordEvaluatedBlock
  PROVE  IInv'
<1>1. /\ pc = "params" /\ pc' = "params" /\ rest # <<>> /\ rest' = Tail(rest)
      /\ SetSeen(RecordEvaluated(Seen, Head(rest)))
      /\ WalkFrame /\ UNCHANGED <<work, current, steps>>
  BY DEF RecordEvaluatedBlock
<1>2. pc \in Walking \ {"insts"} /\ pc' \in Walking /\ pc' # "insts"
  BY <1>1 DEF Walking
<1>3. steps' = <<>>
  BY <1>1, <1>2, NoStepsYet
<1>4. rest \in Seq(Insts)
  BY Walks
<1>5. Head(rest) \in Insts /\ rest' \in Seq(Insts)
  BY <1>1, <1>4
<1>6. Listed(Seen') /\ Size' \in Nat /\ Size <= Size'
  BY <1>1, <1>5, Records
<1>7. Work(work', Size')
  BY <1>1, <1>6, Walks, WorkStays
<1> QED
  BY <1>1, <1>2, <1>3, <1>5, <1>6, <1>7, NoSteps, Walks, WalkKeeps

\* A scope is left.
LEMMA Leaves ==
  ASSUME IInv, NEW n \in Nat, n <= Size, SetSeen(LeaveScope(Seen, n))
  PROVE  Listed(Seen') /\ Size' = n
<1>1. Listed(Seen) /\ Len(Seen.order) = Size /\ Size \in Nat
  BY Walks DEF Seen, Size
<1>2. n \in 0..Len(Seen.order)
  BY <1>1
<1> QED
  BY <1>1, <1>2, LeaveLists, Sets

\* The walk starts at the entry.
LEMMA VerifyBlocksKeeps ==
  ASSUME IInv, VerifyBlocks
  PROVE  IInv'
<1>1. /\ pc = "params" /\ pc' = "walk" /\ work' = <<EnterBlock(0)>>
      /\ WalkFrame /\ UNCHANGED <<evaluated, evaluatedOrder, rest, current, steps>>
  BY DEF VerifyBlocks, seen
<1>2. pc \in Walking \ {"insts"} /\ pc' \in Walking /\ pc' # "insts"
  BY <1>1 DEF Walking
<1>3. steps' = <<>>
  BY <1>1, <1>2, NoStepsYet
<1>4. Listed(Seen') /\ Size' = Size /\ Size \in Nat
  BY <1>1, Walks DEF Listed, Seen, Size
<1>5. EnterBlock(0) \in WalkStep /\ EnterBlock(0).scopeStart = 0
  BY Walks, Graphs DEF EnterBlock, WalkStep
<1>6. work' \in Seq(WalkStep) /\ Len(work') = 1 /\ work'[1] = EnterBlock(0)
  BY <1>1, <1>5
<1>7. \A i \in 1..Len(work') : i = 1
  BY <1>6
<1>8. Work(work', Size')
  BY <1>4, <1>5, <1>6, <1>7 DEF Work, InnerLast
<1> QED
  BY <1>1, <1>2, <1>3, <1>4, <1>8, NoSteps, Walks, WalkKeeps

\* A block is entered.
LEMMA VerifyBlockKeeps ==
  ASSUME IInv, VerifyBlock
  PROVE  IInv'
<1>1. /\ pc = "walk" /\ pc' = "insts" /\ work # <<>> /\ Last(work).block # None
      /\ work' = Append(Front(work), LeaveBlock)
      /\ current' = Last(work).block /\ rest' = text.code[current']
      /\ WalkFrame /\ UNCHANGED <<evaluated, evaluatedOrder, steps>>
  BY DEF VerifyBlock, seen
<1>2. pc \in Walking \ {"insts"} /\ pc' \in Walking
  BY <1>1 DEF Walking
<1>3. steps' = <<>>
  BY <1>1, <1>2, NoStepsYet
<1>4. Listed(Seen') /\ Size' = Size /\ Size \in Nat
  BY <1>1, Walks DEF Listed, Seen, Size
<1>5. Last(work) \in WalkStep
  BY <1>1, Walks, FrontAndLast
<1>6. current' \in DOMAIN body
  BY <1>1, <1>5 DEF WalkStep
<1>7. rest' \in Seq(Insts)
  BY <1>1, <1>2, <1>6, Walks DEF IsText
<1>8. Work(Front(work), Size)
  BY <1>1, <1>4, Walks, WorkPop
<1>9. Work(work', Size')
  BY <1>1, <1>4, <1>8, WorkScope DEF LeaveBlock, Size
<1> QED
  BY <1>1, <1>2, <1>3, <1>4, <1>6, <1>7, <1>9, NoSteps, WalkKeeps

\* A block is left, and the blocks it dominates.
LEMMA LeaveVerifiedBlockKeeps ==
  ASSUME IInv, LeaveVerifiedBlock
  PROVE  IInv'
<1> DEFINE n == Last(work).scopeStart
<1>1. /\ pc = "walk" /\ pc' = "walk" /\ work # <<>> /\ Last(work).block = None
      /\ work' = Front(work) /\ SetSeen(LeaveScope(Seen, n))
      /\ WalkFrame /\ UNCHANGED <<rest, current, steps>>
  BY DEF LeaveVerifiedBlock
<1>2. pc \in Walking \ {"insts"} /\ pc' \in Walking /\ pc' # "insts"
  BY <1>1 DEF Walking
<1>3. steps' = <<>>
  BY <1>1, <1>2, NoStepsYet
<1>4. /\ Last(work) \in WalkStep /\ Last(work) = work[Len(work)]
      /\ Len(work) \in 1..Len(work)
  BY <1>1, Walks, FrontAndLast
<1>5. n \in Nat /\ n <= Size
  BY <1>4, Walks DEF WalkStep, Work, InnerLast
<1> HIDE DEF n
<1>6. Listed(Seen') /\ Size' = n
  BY <1>1, <1>5, Leaves
<1>7. Work(work', Size')
  BY <1>1, <1>5, <1>6, Walks, WorkPop DEF n
<1> QED
  BY <1>1, <1>2, <1>3, <1>6, <1>7, NoSteps, Walks, WalkKeeps

\* The blocks it dominates are entered next.
LEMMA QueueChildrenKeeps ==
  ASSUME IInv, QueueChildren
  PROVE  IInv'
<1> DEFINE below == domTree[current]
<1>1. /\ pc = "insts" /\ pc' = "walk" /\ steps = <<>>
      /\ work' = work \o [i \in DOMAIN below |-> EnterBlock(below[i])]
      /\ WalkFrame /\ UNCHANGED <<evaluated, evaluatedOrder, rest, current, steps>>
  BY DEF QueueChildren, seen
<1>2. pc \in Walking /\ pc' \in Walking
  BY <1>1 DEF Walking
<1>3. Listed(Seen') /\ Size' = Size /\ Size \in Nat
  BY <1>1, Walks DEF Listed, Seen, Size
<1>4. below \in Seq(DOMAIN body)
  <2>1. below \in Seq(DOMAIN body \ {0})
    BY <1>2, Walks DEF IsDominatorTree
  <2> HIDE DEF below
  <2> QED
    BY <2>1
<1> HIDE DEF below
<1>5. Work(work', Size')
  BY <1>1, <1>3, <1>4, Walks, WorkAdd
<1> QED
  BY <1>1, <1>2, <1>3, <1>5, NoSteps, Walks, WalkKeeps

\* The verification ends and leaves nothing evaluated.
LEMMA EndVerifyKeeps ==
  ASSUME IInv, pc \in Walking, EndVerify, pc' = "next", result' \in {result, "error"}
  PROVE  IInv'
<1>1. /\ SetSeen(LeaveScope(Seen, 0)) /\ specifics' = Tail(specifics)
      /\ work' = <<>> /\ rest' = <<>> /\ steps' = <<>>
      /\ UNCHANGED <<body, text, graph, inRegion, domTree, regionTree, current>>
  BY DEF EndVerify, input, builder, trees
<1>2. pc' \notin Walking /\ pc' \notin Building /\ pc \notin {"file", "done"}
  BY DEF Walking, Building, Sorted
<1>3. /\ IsText(text, body) /\ IsDominatorTree(domTree, body) /\ ~inRegion
      /\ specifics # <<>> /\ specifics \in Seq(AllSpecifics) /\ current \in DOMAIN body
      /\ Size \in Nat
  BY Walks
<1>4. GraphInv'
  BY <1>1, <1>2, <1>3 DEF IInv, BuildInv, GraphInv, PCs
<1>5. BuildInv'
  BY <1>2, <1>4, NotBuilding
<1>6. ReadyInv' /\ TreeInv'
  BY <1>1, <1>3 DEF ReadyInv, TreeInv
<1>7. Listed(Seen') /\ Size' = 0
  BY <1>1, <1>3, Leaves
<1>8. SeenInv'
  BY <1>7 DEF SeenInv
<1>9. evaluatedOrder' = <<>>
  <2>1. evaluatedOrder' \in Seq(Insts) /\ Len(evaluatedOrder') = 0
    BY <1>7 DEF Listed, Seen, Size
  <2> QED
    BY <2>1
<1>10. WorkInv'
  <2>1. work' \in Seq(WalkStep) /\ InnerLast(work', Size')
    BY <1>1, NoSteps DEF Work
  <2> QED
    BY <1>1, <2>1 DEF WorkInv, WalkStep, Size
<1>11. StepsInv'
  BY <1>1, NoSteps DEF StepsInv, Steps, Enters, Nested
<1>12. specifics' \in Seq(AllSpecifics)
  BY <1>1, <1>3
<1>13. RestInv'
  BY <1>1, <1>2, <1>3, <1>9, <1>12 DEF RestInv
<1> QED
  BY <1>5, <1>6, <1>8, <1>10, <1>11, <1>13 DEF IInv, VerifyInv

\* The walk is over.
LEMMA FinishVerifyKeeps ==
  ASSUME IInv, FinishVerify
  PROVE  IInv'
  BY EndVerifyKeeps DEF FinishVerify, Walking

\* An operand is not dominated.
LEMMA OperandErrorKeeps ==
  ASSUME IInv, OperandError
  PROVE  IInv'
  BY EndVerifyKeeps DEF OperandError, Fail, Walking
----------------------------------------------------------------------------
(* The steps of VerifyAndRecordInst                                         *)

\* The step on top of the worklist.
LEMMA OnTop ==
  ASSUME IInv, steps # <<>>
  PROVE  /\ This \in StepSet /\ This.inst \in Insts /\ This.scope \in Nat /\ This.scope <= Size
         /\ Steps(Front(steps), work, Region, Size)
         /\ This.kind = "enterRegion" => This.block \in Region
         /\ This.kind \in Scoped => \A i \in 1..Len(work) : work[i].scopeStart <= This.scope
<1>1. /\ steps \in Seq(StepSet) /\ Enters(steps, Region) /\ Nested(steps, work, Size)
      /\ Size \in Nat /\ work \in Seq(WalkStep)
  BY Walks DEF Steps
<1>2. /\ This \in StepSet /\ This = steps[Len(steps)] /\ Len(steps) \in 1..Len(steps)
  BY <1>1, FrontAndLast DEF This
<1>3. Steps(Front(steps), work, Region, Size)
  BY <1>1, Walks, StepsPop
<1>4. This.inst \in Insts /\ This.scope \in Nat
  BY <1>2 DEF StepSet
<1> QED
  BY <1>1, <1>2, <1>3, <1>4 DEF Enters, Nested

\* A step that changes nothing but its worklist.
LEMMA StepKeeps ==
  ASSUME IInv, pc = "insts", pc' = "insts", WalkFrame,
         UNCHANGED <<evaluated, evaluatedOrder, work, current>>,
         rest' \in Seq(Insts), Steps(steps', work, Region, Size)
  PROVE  IInv'
<1>1. pc \in Walking
  BY DEF Walking
<1>2. Listed(Seen') /\ Size' = Size
  BY Walks DEF Listed, Seen, Size
<1> QED
  BY <1>1, <1>2, Walks, WalkKeeps

\* A step that is done.
LEMMA StepDone ==
  ASSUME IInv, pc = "insts", pc' = "insts", WalkFrame, UNCHANGED <<work, rest, current>>,
         Listed(Seen'), Size' \in Nat, Work(work, Size'), Steps(steps', work, Region, Size')
  PROVE  IInv'
<1>1. pc \in Walking
  BY DEF Walking
<1> QED
  BY <1>1, Walks, WalkKeeps

\* The next instruction of the block.
LEMMA VerifyInstKeeps ==
  ASSUME IInv, VerifyInst
  PROVE  IInv'
<1> DEFINE e == InstStep(Head(rest))
<1>1. /\ pc = "insts" /\ pc' = "insts" /\ steps = <<>> /\ rest # <<>> /\ steps' = <<e>>
      /\ rest' = Tail(rest)
      /\ WalkFrame /\ UNCHANGED <<evaluated, evaluatedOrder, work, current>>
  BY DEF VerifyInst, seen
<1>2. rest \in Seq(Insts) /\ Size \in Nat /\ work \in Seq(WalkStep) /\ InnerLast(work, Size)
  BY Walks DEF Work
<1>3. Head(rest) \in Insts /\ rest' \in Seq(Insts)
  BY <1>1, <1>2
<1>4. e \in StepSet /\ e.kind = "inst" /\ e.scope = 0
  BY <1>3 DEF InstStep, Step, StepSet, None
<1> HIDE DEF e
<1>5. steps' = Append(<<>>, e)
  BY <1>1, <1>4
<1>6. e.kind # "enterRegion" /\ e.kind \notin Scoped /\ e.scope <= Size
  BY <1>2, <1>4 DEF Scoped
<1>7. Steps(Append(<<>>, e), work, Region, Size)
  BY <1>2, <1>4, <1>6, NoSteps, StepsScope
<1> QED
  BY <1>1, <1>3, <1>5, <1>7, StepKeeps

\* An instruction is evaluated.
LEMMA EvaluateInstKeeps ==
  ASSUME IInv, EvaluateInst
  PROVE  IInv'
<1> DEFINE more == InstSteps(SplicedIn(This.inst, Head(specifics)))
<1>1. /\ pc = "insts" /\ pc' = "insts" /\ steps # <<>>
      /\ SetSeen(RecordEvaluated(Seen, This.inst))
      /\ steps' = Front(steps) \/ steps' = Front(steps) \o more
      /\ WalkFrame /\ UNCHANGED <<work, rest, current>>
  BY DEF EvaluateInst, Perform
<1>2. This.inst \in Insts /\ Steps(Front(steps), work, Region, Size)
  BY <1>1, OnTop
<1>3. Head(specifics) \in AllSpecifics
  BY <1>1, Walks DEF Walking
<1>4. Unscoped(more, Region)
  BY <1>2, <1>3, InstsAssumption, InstStepsAreUnscoped
<1> HIDE DEF more
<1>5. Size \in Nat /\ Listed(Seen') /\ Size' \in Nat /\ Size <= Size'
  BY <1>1, <1>2, Walks, Records
<1>6. Work(work, Size')
  BY <1>5, Walks, WorkStays
<1>7. Steps(Front(steps), work, Region, Size')
  BY <1>2, <1>5, StepsStay
<1>8. Steps(steps', work, Region, Size')
  BY <1>1, <1>4, <1>5, <1>7, StepsAdd
<1> QED
  BY <1>1, <1>5, <1>6, <1>8, StepDone

\* A SpliceBlock starts.
LEMMA StartSpliceBlockKeeps ==
  ASSUME IInv, StartSpliceBlock
  PROVE  IInv'
<1> DEFINE e == Step("finishSplice", This.inst, None, 0)
           more == InstSteps(Block[This.inst])
<1>1. /\ pc = "insts" /\ pc' = "insts" /\ steps # <<>>
      /\ steps' = Append(Front(steps), e) \o more
      /\ WalkFrame /\ UNCHANGED <<evaluated, evaluatedOrder, work, rest, current>>
  BY DEF StartSpliceBlock, Perform, seen
<1>2. This.inst \in Insts /\ Steps(Front(steps), work, Region, Size)
  BY <1>1, OnTop
<1>3. Unscoped(more, Region)
  BY <1>2, InstsAssumption, InstStepsAreUnscoped
<1>4. e \in StepSet /\ e.kind = "finishSplice" /\ e.scope = 0
  BY <1>2 DEF Step, StepSet, None
<1> HIDE DEF e, more
<1>5. Size \in Nat /\ work \in Seq(WalkStep) /\ InnerLast(work, Size) /\ rest \in Seq(Insts)
  BY Walks DEF Work
<1>6. e.kind # "enterRegion" /\ e.kind \notin Scoped /\ e.scope <= Size
  BY <1>4, <1>5 DEF Scoped
<1>7. Steps(Append(Front(steps), e), work, Region, Size)
  BY <1>2, <1>4, <1>5, <1>6, StepsScope
<1>8. Steps(steps', work, Region, Size)
  BY <1>1, <1>3, <1>5, <1>7, StepsAdd
<1> QED
  BY <1>1, <1>5, <1>8, StepKeeps

\* A SpliceBlock is evaluated.
LEMMA FinishSpliceBlockKeeps ==
  ASSUME IInv, FinishSpliceBlock
  PROVE  IInv'
<1>1. /\ pc = "insts" /\ pc' = "insts" /\ steps # <<>> /\ steps' = Front(steps)
      /\ SetSeen(RecordEvaluated(Seen, This.inst))
      /\ WalkFrame /\ UNCHANGED <<work, rest, current>>
  BY DEF FinishSpliceBlock, Perform
<1>2. This.inst \in Insts /\ Steps(Front(steps), work, Region, Size)
  BY <1>1, OnTop
<1>3. Size \in Nat /\ Listed(Seen') /\ Size' \in Nat /\ Size <= Size'
  BY <1>1, <1>2, Walks, Records
<1>4. Work(work, Size')
  BY <1>3, Walks, WorkStays
<1>5. Steps(steps', work, Region, Size')
  BY <1>1, <1>2, <1>3, StepsStay
<1> QED
  BY <1>1, <1>3, <1>4, <1>5, StepDone

\* The body of a pack expansion is entered.
LEMMA PackScope ==
  ASSUME IInv, steps # <<>>
  PROVE  Steps(Append(Front(steps), FinishPack(This.inst)), work, Region, Size)
<1> DEFINE e == FinishPack(This.inst)
<1>1. This.inst \in Insts /\ Steps(Front(steps), work, Region, Size)
  BY OnTop
<1>2. Size \in Nat /\ work \in Seq(WalkStep) /\ InnerLast(work, Size)
  BY Walks DEF Work
<1>3. e \in StepSet /\ e.kind = "finishPack" /\ e.scope = Size
  BY <1>1, <1>2 DEF FinishPack, Step, StepSet, Scoped, None
<1> HIDE DEF e
<1>4. e.kind # "enterRegion" /\ e.scope <= Size
  BY <1>2, <1>3
<1>5. Steps(Append(Front(steps), e), work, Region, Size)
  BY <1>1, <1>2, <1>3, <1>4, StepsScope
<1> QED
  BY <1>5 DEF e

\* A pack expansion whose body is one block.
LEMMA StartPackExpansionKeeps ==
  ASSUME IInv, StartPackExpansion
  PROVE  IInv'
<1> DEFINE insts == IF Kind[This.inst] = "packStatement" THEN text.regionCode[0]
                    ELSE Block[This.inst]
<1>1. /\ pc = "insts" /\ pc' = "insts" /\ steps # <<>>
      /\ steps' = Append(Front(steps), FinishPack(This.inst)) \o InstSteps(insts)
      /\ WalkFrame /\ UNCHANGED <<evaluated, evaluatedOrder, work, rest, current>>
  BY DEF StartPackExpansion, Perform, seen
<1>2. This.inst \in Insts /\ IsText(text, body)
  BY <1>1, OnTop, Walks DEF Walking
<1>3. text.regionCode[0] \in Seq(Insts)
  BY <1>2, Graphs DEF IsText
<1>4. insts \in Seq(Insts)
  BY <1>2, <1>3, InstsAssumption
<1> HIDE DEF insts
<1>5. Steps(steps', work, Region, Size)
  BY <1>1, <1>4, Walks, PackScope, InstStepsAreUnscoped, StepsAdd
<1> QED
  BY <1>1, <1>5, Walks, StepKeeps

\* The tree of a region is built before it is entered.
LEMMA StartRegionKeeps ==
  ASSUME IInv, StartRegion
  PROVE  IInv'
<1>1. /\ pc = "insts" /\ pc' = "cfg" /\ steps # <<>> /\ graph' = text.region /\ inRegion' = TRUE
      /\ UNCHANGED <<result, body, text, domTree, regionTree, specifics, evaluated,
                     evaluatedOrder, work, rest, current, steps>>
  BY DEF StartRegion, Perform, input, trees, verifier
<1>2. pc \in Walking /\ pc' \notin Walking /\ pc' \notin Building
  BY <1>1 DEF Walking, Building, Sorted
<1>3. IsText(text, body) /\ IsDominatorTree(domTree, body) /\ specifics # <<>>
  BY <1>2, Walks
<1>4. IsGraph(text.region)
  BY <1>3 DEF IsText
<1>5. GraphInv'
  BY <1>1, <1>2, <1>4 DEF IInv, BuildInv, GraphInv, PCs
<1>6. BuildInv'
  BY <1>2, <1>5, NotBuilding
<1>7. ReadyInv' /\ TreeInv'
  BY <1>1, <1>3 DEF ReadyInv, TreeInv
<1>8. SeenInv'
  BY <1>1 DEF IInv, VerifyInv, SeenInv, Seen, Listed
<1>9. WorkInv'
  BY <1>1 DEF IInv, VerifyInv, WorkInv, WalkStep, InnerLast
<1>10. StepsInv'
  BY <1>1 DEF IInv, VerifyInv, StepsInv, Region
<1>11. RestInv'
  BY <1>1, <1>2, <1>3 DEF IInv, VerifyInv, RestInv
<1> QED
  BY <1>6, <1>7, <1>8, <1>9, <1>10, <1>11 DEF IInv, VerifyInv

\* More blocks of the region can be entered.
LEMMA StepsRegion ==
  ASSUME NEW list, NEW blocks, NEW region, NEW more, region \subseteq more, NEW n,
         Steps(list, blocks, region, n)
  PROVE  Steps(list, blocks, more, n)
  BY DEF Steps, Enters

\* The region's tree is done: its entry is entered.
LEMMA RegionTreeKeeps ==
  ASSUME IInv, RegionTree
  PROVE  IInv'
<1> DEFINE e == Step("enterRegion", This.inst, 0, 0)
           all == DOMAIN text.region
<1>1. /\ pc = "tree" /\ at > NumBlocks /\ inRegion /\ regionTree' = children
      /\ steps' = Append(Front(steps), FinishPack(This.inst)) \o <<e>>
      /\ graph' = body /\ inRegion' = FALSE /\ pc' = "insts"
      /\ UNCHANGED <<result, body, text, domTree, specifics, evaluated, evaluatedOrder,
                     work, rest, current>>
  BY DEF RegionTree, input
<1>2. pc' \in Walking /\ pc' \notin Building
  BY <1>1 DEF Walking, Building, Sorted
<1>3. /\ IsText(text, body) /\ IsDominatorTree(domTree, body) /\ specifics # <<>> /\ steps # <<>>
      /\ graph = text.region
  BY <1>1 DEF IInv, BuildInv, GraphInv, VerifyInv, ReadyInv, Ready, RestInv
<1>4. IsGraph(text.region) /\ 0 \in all
  BY <1>3, Graphs DEF IsText
<1>5. GraphInv'
  <2>1. IsGraph(body)
    BY Walks
  <2> QED
    BY <1>1, <1>2, <2>1 DEF IInv, BuildInv, GraphInv, PCs
<1>6. BuildInv'
  BY <1>2, <1>5, NotBuilding
<1>7. ReadyInv' /\ TreeInv'
  BY <1>1, <1>3 DEF ReadyInv, TreeInv
<1>8. SeenInv'
  BY <1>1 DEF IInv, VerifyInv, SeenInv, Seen, Listed
<1>9. WorkInv'
  BY <1>1 DEF IInv, VerifyInv, WorkInv, WalkStep, InnerLast
<1>10. IsDominatorTree(regionTree', text'.region)
  BY <1>1, <1>3, BuiltTree
<1>11. Region' = all /\ Region \subseteq all
  BY <1>1, <1>10 DEF Region
<1>12. This.inst \in Insts /\ Size \in Nat
  BY <1>3, OnTop, Walks
<1>13. Unscoped(<<e>>, all)
  <2>1. e \in StepSet /\ e.kind = "enterRegion" /\ e.block = 0 /\ e.scope = 0
    BY <1>12 DEF Step, StepSet
  <2> HIDE DEF e, all
  <2>2. <<e>> \in Seq(StepSet) /\ Len(<<e>>) = 1 /\ <<e>>[1] = e
    BY <2>1
  <2>3. \A i \in 1..Len(<<e>>) : <<e>>[i] = e
    BY <2>2
  <2>4. "enterRegion" \notin Scoped
    BY DEF Scoped
  <2> QED
    BY <1>4, <2>1, <2>2, <2>3, <2>4 DEF Unscoped, Enters
<1> HIDE DEF e, all
<1>14. Steps(Append(Front(steps), FinishPack(This.inst)), work, all, Size)
  BY <1>3, <1>11, PackScope, StepsRegion
<1>15. Steps(steps', work, all, Size)
  BY <1>1, <1>12, <1>13, <1>14, StepsAdd
<1>16. StepsInv'
  BY <1>1, <1>11, <1>15 DEF StepsInv, Steps, Size
<1>17. RestInv'
  BY <1>1, <1>2, <1>3 DEF IInv, VerifyInv, RestInv
<1> QED
  BY <1>6, <1>7, <1>8, <1>9, <1>16, <1>17 DEF IInv, VerifyInv

\* A block of the region is entered.
LEMMA EnterRegionBlockKeeps ==
  ASSUME IInv, EnterRegionBlock
  PROVE  IInv'
<1> DEFINE below == regionTree[This.block]
           x == This.inst
           e == Step("leaveRegion", x, None, Size)
           enter == [i \in DOMAIN below |-> Step("enterRegion", x, below[i], 0)]
           insts == text.regionCode[This.block]
<1>1. /\ pc = "insts" /\ pc' = "insts" /\ steps # <<>> /\ This.kind = "enterRegion"
      /\ steps' = Append(Front(steps), e) \o enter \o InstSteps(insts)
      /\ WalkFrame /\ UNCHANGED <<evaluated, evaluatedOrder, work, rest, current>>
  BY DEF EnterRegionBlock, Perform, seen
<1>2. x \in Insts /\ This.block \in Region /\ Steps(Front(steps), work, Region, Size)
  BY <1>1, OnTop
<1>3. This.block \in DOMAIN text.region /\ IsDominatorTree(regionTree, text.region)
      /\ Region = DOMAIN text.region
  BY <1>2 DEF Region
<1>4. Size \in Nat /\ work \in Seq(WalkStep) /\ InnerLast(work, Size) /\ IsText(text, body)
  BY <1>1, Walks DEF Work, Walking
<1>5. insts \in Seq(Insts) /\ Region \subseteq Nat
  BY <1>3, <1>4, Graphs DEF IsText
<1>6. below \in Seq(Region \ {0})
  BY <1>3 DEF IsDominatorTree
<1>7. e \in StepSet /\ e.kind = "leaveRegion" /\ e.scope = Size
  BY <1>2, <1>4 DEF Step, StepSet, Scoped, None
<1> HIDE DEF below, x, e, insts
<1>8. Unscoped(enter, Region)
  <2>1. /\ DOMAIN below = 1..Len(below) /\ Len(below) \in Nat
        /\ \A i \in 1..Len(below) : below[i] \in Region
    BY <1>6
  <2>2. enter = [i \in 1..Len(below) |-> Step("enterRegion", x, below[i], 0)]
    BY <2>1
  <2> HIDE DEF enter
  <2>3. ASSUME NEW i \in 1..Len(below)
        PROVE  /\ enter[i] \in StepSet /\ enter[i].kind = "enterRegion" /\ enter[i].scope = 0
               /\ enter[i].block \in Region
    <3>1. enter[i] = [kind |-> "enterRegion", inst |-> x, block |-> below[i], scope |-> 0]
      BY <2>2 DEF Step
    <3>2. below[i] \in Region
      BY <2>1
    <3>3. below[i] \in Nat
      BY <1>5, <3>2, Zenon
    <3> QED
      BY <1>2, <3>1, <3>2, <3>3 DEF StepSet
  <2>4. enter \in Seq(StepSet) /\ Len(enter) = Len(below)
    BY <2>1, <2>2, <2>3
  <2>5. "enterRegion" \notin Scoped
    BY DEF Scoped
  <2> QED
    BY <2>3, <2>4, <2>5 DEF Unscoped, Enters
<1> HIDE DEF enter
<1>9. e.kind # "enterRegion" /\ e.scope <= Size
  BY <1>4, <1>7
<1>10. Steps(Append(Front(steps), e), work, Region, Size)
  BY <1>2, <1>4, <1>7, <1>9, StepsScope
<1>11. Steps(Append(Front(steps), e) \o enter, work, Region, Size)
  BY <1>4, <1>8, <1>10, StepsAdd
<1>12. Unscoped(InstSteps(insts), Region)
  BY <1>5, InstStepsAreUnscoped
<1>13. Steps(steps', work, Region, Size)
  BY <1>1, <1>4, <1>11, <1>12, StepsAdd
<1> QED
  BY <1>1, <1>13, Walks, StepKeeps

\* A block of the region is left.
LEMMA LeaveRegionBlockKeeps ==
  ASSUME IInv, LeaveRegionBlock
  PROVE  IInv'
<1> DEFINE n == This.scope
<1>1. /\ pc = "insts" /\ pc' = "insts" /\ steps # <<>> /\ This.kind = "leaveRegion"
      /\ steps' = Front(steps) /\ SetSeen(LeaveScope(Seen, n))
      /\ WalkFrame /\ UNCHANGED <<work, rest, current>>
  BY DEF LeaveRegionBlock, Perform
<1>2. This.kind \in Scoped
  BY <1>1 DEF Scoped
<1>3. n \in Nat /\ n <= Size /\ \A i \in 1..Len(work) : work[i].scopeStart <= n
  BY <1>1, <1>2, OnTop
<1> HIDE DEF n
<1>4. Listed(Seen') /\ Size' = n
  BY <1>1, <1>3, Leaves
<1>5. Work(work, Size')
  BY <1>3, <1>4, Walks, WorkStays
<1>6. Steps(steps', work, Region, Size')
  BY <1>1, <1>2, <1>3, <1>4, Walks, StepsPop DEF This, n
<1> QED
  BY <1>1, <1>3, <1>4, <1>5, <1>6, StepDone

\* A pack expansion is evaluated, and nothing in its body stays so.
LEMMA FinishPackExpansionKeeps ==
  ASSUME IInv, FinishPackExpansion
  PROVE  IInv'
<1> DEFINE n == This.scope
           left == LeaveScope(Seen, n)
           after == RecordEvaluated(left, This.inst)
<1>1. /\ pc = "insts" /\ pc' = "insts" /\ steps # <<>> /\ This.kind = "finishPack"
      /\ steps' = Front(steps) /\ SetSeen(after)
      /\ WalkFrame /\ UNCHANGED <<work, rest, current>>
  BY DEF FinishPackExpansion, Perform, AfterPack
<1>2. This.kind \in Scoped
  BY <1>1 DEF Scoped
<1>3. /\ n \in Nat /\ n <= Size /\ \A i \in 1..Len(work) : work[i].scopeStart <= n
      /\ This.inst \in Insts
  BY <1>1, <1>2, OnTop
<1> HIDE DEF n
<1>4. Listed(Seen) /\ n \in 0..Len(Seen.order)
  BY <1>3, Walks DEF Seen, Size
<1>5. Listed(left) /\ Len(left.order) = n
  BY <1>4, LeaveLists
<1> HIDE DEF left
<1>6. Listed(after) /\ Len(after.order) \in Nat /\ n <= Len(after.order)
  BY <1>3, <1>5, RecordLists
<1> HIDE DEF after
<1>7. Listed(Seen') /\ Size' \in Nat /\ n <= Size'
  BY <1>1, <1>6, Sets
<1>8. \A i \in 1..Len(work) : work[i].scopeStart <= Size'
  <2>1. \A i \in 1..Len(work) : work[i] \in WalkStep
    BY Walks
  <2>2. \A i \in 1..Len(work) : work[i].scopeStart \in Nat
    BY <2>1 DEF WalkStep
  <2> QED
    BY <1>3, <1>7, <2>2
<1>9. Work(work, Size')
  BY <1>7, <1>8, Walks, WorkStays
<1>10. Steps(steps', work, Region, Size')
  BY <1>1, <1>2, <1>7, Walks, StepsPop DEF This, n
<1> QED
  BY <1>1, <1>7, <1>9, <1>10, StepDone
----------------------------------------------------------------------------
(* The steps of VerifyDominance                                             *)

\* A function ends, one is skipped, or the call returns.
LEMMA BetweenKeeps ==
  ASSUME IInv, pc \in {"file", "next"}, pc' \in {"file", "done"}, result' \in {result, "ok"},
         UNCHANGED <<body, text, builder, trees, verifier>>
  PROVE  IInv'
<1>1. UNCHANGED <<body, text, graph, inRegion, domTree, regionTree, specifics,
                  evaluated, evaluatedOrder, work, rest, current, steps>>
  BY DEF builder, trees, verifier
<1>2. /\ ~inRegion /\ pc' \notin Building /\ pc' \notin Walking /\ pc \notin Walking
      /\ pc # "insts" /\ pc' # "insts"
  BY DEF IInv, BuildInv, GraphInv, Building, Sorted, Walking
<1>3. GraphInv'
  BY <1>1, <1>2 DEF IInv, BuildInv, GraphInv, PCs
<1>4. BuildInv'
  BY <1>2, <1>3, NotBuilding
<1>5. ReadyInv' /\ TreeInv'
  BY <1>1, <1>2 DEF IInv, VerifyInv, ReadyInv, Ready, TreeInv
<1>6. SeenInv'
  BY <1>1 DEF IInv, VerifyInv, SeenInv, Seen, Listed
<1>7. WorkInv'
  BY <1>1 DEF IInv, VerifyInv, WorkInv, WalkStep, InnerLast
<1>8. StepsInv'
  BY <1>1 DEF IInv, VerifyInv, StepsInv, Region
<1>9. RestInv'
  BY <1>1, <1>2 DEF IInv, VerifyInv, RestInv
<1> QED
  BY <1>4, <1>5, <1>6, <1>7, <1>8, <1>9 DEF IInv, VerifyInv

\* A function starts: its body is a graph and nothing is evaluated.
LEMMA StartFunctionKeeps ==
  ASSUME IInv, FileInv, StartFunction
  PROVE  IInv'
<1>1. /\ pc = "file" /\ pc' = "cfg" /\ functions # <<>> /\ Head(functions) # NoBody
      /\ body' = Head(functions) /\ text' = <<>> /\ graph' = body'
      /\ specifics' = <<NoSpecific>> \o Specifics /\ current' = 0
      /\ UNCHANGED <<result, inRegion, domTree, regionTree, evaluated, evaluatedOrder,
                     work, rest, steps>>
  BY DEF StartFunction, NextFunction, trees, seen
<1>2. body' \in Bodies
  BY <1>1 DEF FileInv
<1>3. IsGraph(body') /\ 0 \in DOMAIN body'
  BY <1>2, BodiesAssumption, Graphs
<1>4. /\ pc' \notin Building /\ pc' \notin Walking /\ pc \notin Walking
      /\ ~inRegion /\ ~inRegion'
  BY <1>1 DEF IInv, BuildInv, GraphInv, Building, Sorted, Walking
<1>5. GraphInv'
  BY <1>1, <1>2, <1>3, <1>4 DEF IInv, BuildInv, GraphInv, PCs
<1>6. BuildInv'
  BY <1>4, <1>5, NotBuilding
<1>7. ReadyInv' /\ TreeInv'
  BY <1>1, <1>4 DEF ReadyInv, Ready, TreeInv
<1>8. SeenInv'
  BY <1>1 DEF IInv, VerifyInv, SeenInv, Seen, Listed
<1>9. /\ steps = <<>> /\ work = <<>> /\ evaluatedOrder = <<>> /\ rest \in Seq(Insts)
  BY <1>1, <1>4 DEF IInv, VerifyInv, RestInv
<1>10. 1..Len(<<>>) = {}
  OBVIOUS
<1>11. WorkInv'
  BY <1>1, <1>9, <1>10 DEF WorkInv, InnerLast
<1>12. StepsInv'
  BY <1>1, <1>9, <1>10 DEF StepsInv, Enters, Nested
<1>13. RestInv'
  <2>1. NoSpecific \in AllSpecifics
    BY DEF AllSpecifics
  <2>2. <<NoSpecific>> \o Specifics \in Seq(AllSpecifics)
    BY <2>1, InstsAssumption
  <2> QED
    BY <1>1, <1>3, <1>4, <1>9, <2>2 DEF RestInv
<1> QED
  BY <1>6, <1>7, <1>8, <1>11, <1>12, <1>13 DEF IInv, VerifyInv

\* Every step of the loop keeps the invariant.
LEMMA VerifyDominanceKeeps ==
  ASSUME IInv, FileInv, VerifyDominance
  PROVE  IInv'
<1>1. CASE SkipFunction BY <1>1, BetweenKeeps DEF SkipFunction, NextFunction
<1>2. CASE StartFunction BY <1>2, StartFunctionKeeps
<1>3. CASE FinishFunction BY <1>3, BetweenKeeps DEF FinishFunction, input
<1>4. CASE ErroneousFile BY <1>4, BetweenKeeps DEF ErroneousFile, Return, input
<1>5. CASE ReturnError BY <1>5, BetweenKeeps DEF ReturnError, Return, input
<1>6. CASE ReturnSuccess BY <1>6, BetweenKeeps DEF ReturnSuccess, Return, input
<1> QED
  BY <1>1, <1>2, <1>3, <1>4, <1>5, <1>6 DEF VerifyDominance

\* Only the loop takes a function from those to come.
LEMMA FunctionsStay ==
  ASSUME [Build \/ Verify]_vars
  PROVE  UNCHANGED functions
<1>1. CASE Build
  <2>1. ASSUME \/ BuildControlFlowGraph \/ SuccessorsVisited \/ VisitSuccessor \/ AllReachable
               \/ SkipPredecessor \/ FirstPredecessor \/ StartIntersect \/ IntersectStep
               \/ FinishIntersect \/ SetDominator \/ NextSweep \/ StartTree \/ AddChild
        PROVE  SearchFrame \/ SweepFrame
    BY <2>1 DEF BuildControlFlowGraph, SuccessorsVisited, VisitSuccessor, AllReachable,
                SkipPredecessor, FirstPredecessor, StartIntersect, IntersectStep,
                FinishIntersect, SetDominator, NextSweep, StartTree, AddChild
  <2>2. SearchFrame \/ SweepFrame => UNCHANGED functions
    BY DEF SearchFrame, SweepFrame, input
  <2>3. ASSUME BranchOutsideBody \/ UnreachableBlock \/ BodyTree \/ RegionTree
        PROVE  UNCHANGED functions
    BY <2>3 DEF BranchOutsideBody, UnreachableBlock, BodyTree, RegionTree, input
  <2> QED
    BY <1>1, <2>1, <2>2, <2>3 DEF Build
<1>2. CASE Verify
  <2>1. ASSUME \/ NextVerify \/ RecordEvaluatedBlock \/ VerifyBlocks \/ VerifyBlock
               \/ LeaveVerifiedBlock \/ QueueChildren \/ VerifyInst \/ EvaluateInst
               \/ StartSpliceBlock \/ FinishSpliceBlock \/ StartPackExpansion
               \/ EnterRegionBlock \/ LeaveRegionBlock \/ FinishPackExpansion
        PROVE  WalkFrame
    BY <2>1 DEF NextVerify, RecordEvaluatedBlock, VerifyBlocks, VerifyBlock,
                LeaveVerifiedBlock, QueueChildren, VerifyInst, EvaluateInst, StartSpliceBlock,
                FinishSpliceBlock, StartPackExpansion, EnterRegionBlock, LeaveRegionBlock,
                FinishPackExpansion
  <2>2. WalkFrame => UNCHANGED functions
    BY DEF WalkFrame, input
  <2>3. ASSUME FinishVerify \/ OperandError \/ StartRegion PROVE UNCHANGED functions
    BY <2>3 DEF FinishVerify, OperandError, EndVerify, StartRegion, input
  <2> QED
    BY <1>2, <2>1, <2>2, <2>3 DEF Verify
<1>3. CASE UNCHANGED vars
  BY <1>3 DEF vars, input
<1> QED
  BY <1>1, <1>2, <1>3

\* The functions to come stay what they are.
LEMMA FileKeeps ==
  ASSUME FileInv, [Next]_vars
  PROVE  FileInv'
<1>1. CASE [Build \/ Verify]_vars
  BY <1>1, FunctionsStay DEF FileInv
<1>2. CASE VerifyDominance
  <2>1. UNCHANGED functions \/ (functions # <<>> /\ functions' = Tail(functions))
    BY <1>2 DEF VerifyDominance, ErroneousFile, SkipFunction, StartFunction, NextFunction,
                FinishFunction, ReturnError, ReturnSuccess, Return, input
  <2> QED
    BY <2>1 DEF FileInv
<1> QED
  BY <1>1, <1>2 DEF Next

----------------------------------------------------------------------------
(* The theorems                                                             *)

\* At the start nothing is built and nothing evaluated.
LEMMA InitEstablishes ==
  ASSUME Init
  PROVE  IInv /\ FileInv
<1>1. body = NoFunctionYet /\ IsGraph(body) /\ 0 \in DOMAIN body
  BY NoFunctionIsGraph, Graphs DEF Init
<1>2. pc \notin Walking /\ pc \notin Building /\ ~inRegion /\ pc # "next" /\ pc # "insts"
  BY DEF Init, Walking, Building, Sorted
<1>3. GraphInv
  BY <1>1, <1>2 DEF Init, GraphInv, PCs
<1>4. BuildInv
  BY <1>2, <1>3 DEF BuildInv, SearchInv, OrderInv, PlaceInv, IdomInv, CandidateInv, MeetInv,
                    ChildInv, Building, Sorted
<1>5. ReadyInv /\ TreeInv
  BY <1>2 DEF Init, ReadyInv, Ready, TreeInv
<1>6. SeenInv
  <2>1. Seen.set = {} /\ Seen.order = <<>>
    BY DEF Init, Seen
  <2>2. <<>> \in Seq(Insts) /\ 1..Len(<<>>) = {} /\ ToSet(<<>>) = {}
    BY DEF ToSet
  <2> QED
    BY <2>1, <2>2 DEF SeenInv, Listed
<1>7. WorkInv
  BY NoSteps DEF Init, WorkInv, Work
<1>8. StepsInv
  BY NoSteps DEF Init, StepsInv, Steps
<1>9. RestInv
  BY <1>1, <1>2 DEF Init, RestInv
<1>10. FileInv
  BY FilesAssumption DEF Init, FileInv
<1> QED
  BY <1>4, <1>5, <1>6, <1>7, <1>8, <1>9, <1>10 DEF IInv, VerifyInv

\* A step that changes no variable.
LEMMA StutterKeeps ==
  ASSUME IInv, UNCHANGED vars
  PROVE  IInv'
<1>1. /\ UNCHANGED <<pc, result, body, text, graph, inRegion, visited, stack, postOrder,
                     order, idom, changed, at, met, newIdom, lhs, rhs, children>>
      /\ UNCHANGED <<domTree, regionTree, specifics, evaluated, evaluatedOrder, work, rest,
                     current, steps>>
  BY DEF vars, input, builder, search, sweep, trees, verifier
<1>2. GraphInv' /\ SearchInv' /\ OrderInv' /\ PlaceInv'
  BY <1>1 DEF IInv, BuildInv, GraphInv, SearchInv, OrderInv, PlaceInv, NumBlocks, Blocks
<1>3. IdomInv' /\ ChildInv'
  BY <1>1 DEF IInv, BuildInv, IdomInv, ChildInv, Blocks
<1>4. Sweeping' = Sweeping /\ Edges' = Edges /\ NumBlocks' = NumBlocks /\ Left' = Left
  BY <1>1 DEF Sweeping, ReversePostOrder, Edges, Blocks, NumBlocks, Left, Predecessors
<1>5. CandidateInv'
  BY <1>1, <1>4 DEF IInv, BuildInv, CandidateInv
<1>6. Predecessor' = Predecessor
  BY <1>4 DEF Predecessor, First
<1>7. MeetInv'
  BY <1>1, <1>4, <1>6 DEF IInv, BuildInv, MeetInv, Blocks
<1>8. ReadyInv' /\ TreeInv' /\ RestInv'
  BY <1>1 DEF IInv, VerifyInv, ReadyInv, Ready, TreeInv, RestInv
<1>9. SeenInv'
  BY <1>1 DEF IInv, VerifyInv, SeenInv, Seen, Listed
<1>10. WorkInv'
  BY <1>1 DEF IInv, VerifyInv, WorkInv, WalkStep, InnerLast
<1>11. StepsInv'
  BY <1>1 DEF IInv, VerifyInv, StepsInv, Region
<1> QED
  BY <1>2, <1>3, <1>5, <1>7, <1>8, <1>9, <1>10, <1>11 DEF IInv, BuildInv, VerifyInv

\* Every step keeps the invariant.
LEMMA NextKeeps ==
  ASSUME IInv, FileInv, Next
  PROVE  IInv'
<1>1. CASE Build
  <2>1. CASE BuildControlFlowGraph BY <2>1, BuildControlFlowGraphKeeps
  <2>2. CASE BranchOutsideBody BY <2>2, BuildFails DEF BranchOutsideBody
  <2>3. CASE SuccessorsVisited BY <2>3, SuccessorsVisitedKeeps
  <2>4. CASE VisitSuccessor BY <2>4, VisitSuccessorKeeps
  <2>5. CASE UnreachableBlock BY <2>5, BuildFails DEF UnreachableBlock
  <2>6. CASE AllReachable BY <2>6, AllReachableKeeps
  <2>7. CASE SkipPredecessor BY <2>7, SkipPredecessorKeeps
  <2>8. CASE FirstPredecessor BY <2>8, FirstPredecessorKeeps
  <2>9. CASE StartIntersect BY <2>9, StartIntersectKeeps
  <2>10. CASE IntersectStep BY <2>10, IntersectStepKeeps
  <2>11. CASE FinishIntersect BY <2>11, FinishIntersectKeeps
  <2>12. CASE SetDominator BY <2>12, SetDominatorKeeps
  <2>13. CASE NextSweep BY <2>13, NextSweepKeeps
  <2>14. CASE StartTree BY <2>14, StartTreeKeeps
  <2>15. CASE AddChild BY <2>15, AddChildKeeps
  <2>16. CASE BodyTree BY <2>16, BodyTreeKeeps
  <2>17. CASE RegionTree BY <2>17, RegionTreeKeeps
  <2> QED
    BY <1>1, <2>1, <2>2, <2>3, <2>4, <2>5, <2>6, <2>7, <2>8, <2>9, <2>10, <2>11, <2>12, <2>13,
       <2>14, <2>15, <2>16, <2>17 DEF Build
<1>2. CASE Verify
  <2>1. CASE NextVerify BY <2>1, NextVerifyKeeps
  <2>2. CASE RecordEvaluatedBlock BY <2>2, RecordEvaluatedBlockKeeps
  <2>3. CASE VerifyBlocks BY <2>3, VerifyBlocksKeeps
  <2>4. CASE VerifyBlock BY <2>4, VerifyBlockKeeps
  <2>5. CASE LeaveVerifiedBlock BY <2>5, LeaveVerifiedBlockKeeps
  <2>6. CASE QueueChildren BY <2>6, QueueChildrenKeeps
  <2>7. CASE FinishVerify BY <2>7, FinishVerifyKeeps
  <2>8. CASE VerifyInst BY <2>8, VerifyInstKeeps
  <2>9. CASE OperandError BY <2>9, OperandErrorKeeps
  <2>10. CASE EvaluateInst BY <2>10, EvaluateInstKeeps
  <2>11. CASE StartSpliceBlock BY <2>11, StartSpliceBlockKeeps
  <2>12. CASE FinishSpliceBlock BY <2>12, FinishSpliceBlockKeeps
  <2>13. CASE StartPackExpansion BY <2>13, StartPackExpansionKeeps
  <2>14. CASE StartRegion BY <2>14, StartRegionKeeps
  <2>15. CASE EnterRegionBlock BY <2>15, EnterRegionBlockKeeps
  <2>16. CASE LeaveRegionBlock BY <2>16, LeaveRegionBlockKeeps
  <2>17. CASE FinishPackExpansion BY <2>17, FinishPackExpansionKeeps
  <2> QED
    BY <1>2, <2>1, <2>2, <2>3, <2>4, <2>5, <2>6, <2>7, <2>8, <2>9, <2>10, <2>11, <2>12,
       <2>13, <2>14, <2>15, <2>16, <2>17 DEF Verify
<1>3. CASE VerifyDominance
  BY <1>3, VerifyDominanceKeeps
<1> QED
  BY <1>1, <1>2, <1>3 DEF Next

\* The invariant of Build and Verify holds throughout VerifyDominance.
THEOREM Inductive == Spec => []IInv
<1>1. Init => IInv /\ FileInv
  BY InitEstablishes
<1>2. IInv /\ FileInv /\ [Next]_vars => IInv' /\ FileInv'
  BY NextKeeps, StutterKeeps, FileKeeps
<1> QED
  BY <1>1, <1>2, PTL DEF Spec

\* The blocks are in the order once the search is over.
LEMMA OrderHoldsAll ==
  ASSUME NEW g, IsGraph(g), NEW ord, NEW post, Ordering(g, ord), Reversed(g, ord, post)
  PROVE  ToSet(post) = DOMAIN g
<1> DEFINE n == Cardinality(DOMAIN g)
<1>1. /\ post \in Seq(DOMAIN g) /\ Len(post) = n /\ n \in Nat /\ DOMAIN post = 1..n
      /\ \A i \in 1..n : ord[post[(n - i) + 1]] = i
  BY Graphs DEF Reversed
<1>2. /\ \A b \in DOMAIN g : ord[b] \in 1..n
      /\ \A a, b \in DOMAIN g : ord[a] = ord[b] => a = b
  BY DEF Ordering
<1> HIDE DEF n
<1>3. \A i \in 1..n : post[i] \in DOMAIN g
  BY <1>1
<1>4. ASSUME NEW b \in DOMAIN g PROVE b \in ToSet(post)
  <2>1. (n - ord[b]) + 1 \in 1..n
    BY <1>1, <1>2
  <2>2. post[(n - ord[b]) + 1] \in DOMAIN g /\ ord[post[(n - ord[b]) + 1]] = ord[b]
    BY <1>1, <1>2, <1>3, <2>1
  <2>3. post[(n - ord[b]) + 1] = b
    BY <1>2, <2>2
  <2> QED
    BY <1>1, <2>1, <2>3 DEF ToSet
<1>5. ToSet(post) \subseteq DOMAIN g
  BY <1>1, <1>3 DEF ToSet
<1> QED
  BY <1>4, <1>5

\* VerifyDominance keeps its types: the search visits blocks of the graph, the
\* sweep stays in the order, and no scope on a worklist starts after what has
\* been evaluated.
THEOREM TypesHold == Spec => []TypeOK
<1>1. ASSUME IInv PROVE TypeOK
  <2>1. pc \in PCs /\ result \in {"running", "ok", "error"} /\ IsGraph(graph)
    BY <1>1 DEF IInv, BuildInv, GraphInv
  <2>2. ASSUME pc = "dfs" PROVE visited \subseteq Blocks /\ ToSet(postOrder) \subseteq visited
    <3>1. Search(graph, visited, stack, postOrder)
      BY <1>1, <2>2 DEF IInv, BuildInv, SearchInv
    <3>2. postOrder \in Seq(DOMAIN graph)
          /\ visited = {b \in DOMAIN graph : OnStack(stack, b)
                                              \/ \E j \in 1..Len(postOrder) : postOrder[j] = b}
      BY <3>1 DEF Search
    <3>3. DOMAIN postOrder = 1..Len(postOrder)
          /\ \A j \in 1..Len(postOrder) : postOrder[j] \in DOMAIN graph
      BY <3>2
    <3> QED
      BY <3>2, <3>3 DEF Blocks, ToSet
  <2>3. ASSUME pc \in Sorted
        PROVE  /\ ToSet(postOrder) = Blocks /\ Len(postOrder) = NumBlocks
               /\ order \in [Blocks -> 1..NumBlocks] /\ idom \in [Blocks -> Blocks \cup {None}]
               /\ at \in 2..NumBlocks + 1 /\ newIdom \in Blocks \cup {None}
    <3>1. /\ Ordering(graph, order) /\ Reversed(graph, order, postOrder)
          /\ Climbs(graph, order, idom)
          /\ at \in 2..NumBlocks + 1 /\ newIdom \in Blocks \cup {None}
      BY <1>1, <2>3 DEF IInv, BuildInv, OrderInv, IdomInv, PlaceInv
    <3> QED
      BY <2>1, <3>1, OrderHoldsAll DEF Ordering, Reversed, Climbs, Blocks, NumBlocks
  <2>4. evaluated \subseteq Insts /\ ToSet(evaluatedOrder) \subseteq Insts
    <3>1. evaluatedOrder \in Seq(Insts) /\ evaluated = ToSet(evaluatedOrder)
      BY <1>1 DEF IInv, VerifyInv, SeenInv, Listed, Seen
    <3> QED
      BY <3>1 DEF ToSet
  <2>5. \A i \in DOMAIN work : work[i].scopeStart \in 0..Len(evaluatedOrder)
    <3>1. work \in Seq(WalkStep) /\ InnerLast(work, Size) /\ Size \in Nat
      BY <1>1, Walks DEF Work
    <3>2. DOMAIN work = 1..Len(work) /\ \A i \in 1..Len(work) : work[i] \in WalkStep
      BY <3>1
    <3>3. \A i \in 1..Len(work) : work[i].scopeStart \in Nat
      BY <3>2 DEF WalkStep
    <3> QED
      BY <3>1, <3>2, <3>3 DEF InnerLast, Size
  <2>6. \A i \in DOMAIN steps : steps[i].scope \in 0..Len(evaluatedOrder)
    <3>1. steps \in Seq(StepSet) /\ Nested(steps, work, Size) /\ Size \in Nat
      BY <1>1, Walks DEF Steps
    <3>2. DOMAIN steps = 1..Len(steps) /\ \A i \in 1..Len(steps) : steps[i] \in StepSet
      BY <3>1
    <3>3. \A i \in 1..Len(steps) : steps[i].scope \in Nat
      BY <3>2 DEF StepSet
    <3> QED
      BY <3>1, <3>2, <3>3 DEF Nested, Size
  <2> QED
    BY <2>1, <2>2, <2>3, <2>4, <2>5, <2>6
       DEF TypeOK, PCs, Building, Sorted, Walking
<1> QED
  BY <1>1, Inductive, PTL

\* intersect neither leaves the tree it climbs nor climbs for ever, for every
\* graph of blocks, also one no structured statement makes.
THEOREM IntersectAlwaysClimbs == Spec => []IntersectClimbs
<1>1. ASSUME IInv PROVE IntersectClimbs
  <2> SUFFICES ASSUME pc = "meet"
               PROVE  /\ lhs \in Blocks /\ rhs \in Blocks
                      /\ \A b \in {lhs, rhs} \ {0} : idom[b] # None /\ order[idom[b]] < order[b]
    BY DEF IntersectClimbs
  <2>1. lhs \in Blocks /\ rhs \in Blocks /\ idom[lhs] # None /\ idom[rhs] # None
    BY <1>1 DEF IInv, BuildInv, MeetInv
  <2>2. Climbs(graph, order, idom)
    BY <1>1 DEF IInv, BuildInv, IdomInv, Sorted
  <2> QED
    BY <2>1, <2>2 DEF Climbs, Blocks
<1> QED
  BY <1>1, Inductive, PTL

\* For every graph, Build returns the tree in which each block but the entry
\* is below its immediate dominator.
THEOREM BuildReturnsDominance == Spec => []TreeIsDominance
<1>1. ASSUME IInv PROVE TreeIsDominance
  <2>1. ASSUME pc = "next", text # <<>> PROVE IsDominatorTree(domTree, body)
    BY <1>1, <2>1 DEF IInv, VerifyInv, TreeInv
  <2>2. ASSUME pc = "insts", steps # <<>>, This.kind = "enterRegion"
        PROVE  IsDominatorTree(regionTree, text.region)
    BY <1>1, <2>2, OnTop DEF Region
  <2> QED
    BY <2>1, <2>2 DEF TreeIsDominance
<1> QED
  BY <1>1, Inductive, PTL

\* Whatever the functions of the file, the instructions evaluated are those listed to be taken
\* back, each once, and none is left when a verification ends, in success or
\* in error, so that the next specific or function starts without any.
THEOREM EvaluatedIsAlwaysUndone == Spec => []EvaluatedIsUndone
<1>1. ASSUME IInv PROVE EvaluatedIsUndone
  <2>1. /\ evaluatedOrder \in Seq(Insts) /\ evaluated = ToSet(evaluatedOrder)
        /\ \A i, j \in 1..Len(evaluatedOrder) : evaluatedOrder[i] = evaluatedOrder[j] => i = j
    BY <1>1 DEF IInv, VerifyInv, SeenInv, Listed, Seen
  <2>2. Len(evaluatedOrder) = Cardinality(evaluated)
    BY <2>1, OnceEach
  <2>3. ASSUME pc \in {"file", "next", "done"} PROVE evaluated = {}
    <3>1. pc \notin Walking /\ ~inRegion
      BY <1>1, <2>3 DEF IInv, BuildInv, GraphInv, Walking, Building, Sorted
    <3>2. evaluatedOrder = <<>>
      BY <1>1, <3>1 DEF IInv, VerifyInv, RestInv
    <3> QED
      BY <2>1, <3>2 DEF ToSet
  <2> QED
    BY <2>1, <2>2, <2>3 DEF EvaluatedIsUndone
<1> QED
  BY <1>1, Inductive, PTL
=============================================================================
