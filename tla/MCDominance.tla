----------------------------- MODULE MCDominance -----------------------------
(* Control flow graphs and code for checking Dominance.                      *)
EXTENDS Dominance

\* Branches to up to two different blocks, or (any) to one block twice.
Branches(targets, any) ==
  {<<>>} \cup {<<t>> : t \in targets}
  \cup {p \in targets \X targets : any \/ p[1] # p[2]}

\* Every graph with three blocks, one with a branch that leaves it, and those
\* with four in which nothing branches to the entry, up to renaming the blocks
\* that the entry branches to.
ThreeBlocks == [0..2 -> Branches(0..2, TRUE)]
Leaving == {[b \in 0..1 |-> IF b = 0 THEN <<1>> ELSE <<2>>]}
FromEntry(g) == g[0] \in {<<1>>, <<1, 2>>}
FourBlocks == {g \in [0..3 -> Branches(1..3, FALSE)] : FromEntry(g)}
TwoBlocks == {[b \in 0..1 |-> IF b = 0 THEN <<1>> ELSE <<>>]}
OneBlock == {[b \in {0} |-> <<>>]}
MCBodies == OneBlock \cup TwoBlocks \cup Leaving \cup ThreeBlocks \cup FourBlocks

\* One function, or two around one that is only declared.
MCFiles == {<<g>> : g \in MCBodies} \cup {<<g, NoBody, g>> : g \in OneBlock}

\* a is a parameter, c a constant, f is at file scope and i imported;
\* d is used by u, s evaluates d in a block, q splices u in where the specific
\* says so, w evaluates d in the body of an expansion, n uses d there, and the
\* body of p is the region.
MCInsts == {"a", "c", "f", "i", "d", "u", "s", "q", "w", "n", "p"}
MCKind == [x \in MCInsts |->
  CASE x = "s" -> "spliceBlock" [] x = "q" -> "splice" [] x = "w" -> "packExpr"
    [] x = "n" -> "packInit" [] x = "p" -> "packStatement" [] OTHER -> "plain"]
MCOperands == [x \in MCInsts |->
  CASE x \in {"u", "n"} -> {"d"} [] x = "d" -> {"f", "i"} [] x = "q" -> {"c"}
    [] x = "p" -> {"a"} [] OTHER -> {}]
MCParams == <<"a">>
MCBlock == [x \in MCInsts |->
  CASE x = "s" -> <<"d">> [] x = "w" -> <<"d", "u">> [] x = "n" -> <<"u">> [] OTHER -> <<>>]
MCResult == [x \in {"s"} |-> "d"]
MCSpecifics == <<"specific">>
MCSplicedIn(x, specific) == IF specific = NoSpecific THEN <<>> ELSE <<"u">>

Length(code) == Len(FlattenSeq([i \in 1..Cardinality(DOMAIN code) |-> code[i - 1]]))
CodesOf(blocks, insts, most) ==
  {code \in [blocks -> {<<>>} \cup {<<x>> : x \in insts} \cup {<<x, y>> : x, y \in insts}] :
     Length(code) <= most}

NoRegion == [region |-> [b \in {0} |-> <<>>], regionCode |-> [b \in {0} |-> <<>>]]
Simple == {"d", "u"}
MCKinds == {"d", "u", "s", "q", "w", "n", "p"}
Regions == {g \in [0..2 -> Branches(1..2, FALSE)] : FromEntry(g) /\ IsFlowGraph(g)}

RegionCodes ==
  {[code |-> code, region |-> r, regionCode |-> rc] :
     code \in {c \in CodesOf(0..1, Simple \cup {"p"}, 2) : \E b \in 0..1 : "p" \in ToSet(c[b])},
     r \in Regions, rc \in {c \in CodesOf(0..2, Simple, 2) : \A b \in 0..2 : Len(c[b]) <= 1}}
ThreeBlockCodes ==
  {[code |-> code] @@ NoRegion :
     code \in CodesOf(0..2, Simple, 3) \cup CodesOf(0..2, MCKinds, 2)}
StructuredThreeBlocks == [0..2 -> Branches(1..2, FALSE)]

\* Regions in two blocks, all kinds of instructions in one and three, and
\* nothing but branches in the other graphs.
MCCodes(g) ==
  CASE g \in OneBlock -> {[code |-> code] @@ NoRegion : code \in CodesOf({0}, MCKinds, 2)}
    [] g \in TwoBlocks -> RegionCodes
    [] g \in StructuredThreeBlocks -> ThreeBlockCodes
    [] OTHER -> {[code |-> [b \in DOMAIN g |-> <<>>]] @@ NoRegion}

=============================================================================
