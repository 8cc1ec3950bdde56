-------------------------- MODULE MCCheckScheduling --------------------------
(***************************************************************************)
(* Inputs for CheckScheduling: every import graph on three apis and an     *)
(* impl file, and a file with every sort of import next to well-formed     *)
(* ones.                                                                   *)
(***************************************************************************)
EXTENDS CheckScheduling

CONSTANT GraphLibs   \* the libraries whose imports are varied

SetToList(S) ==
  LET L == CHOOSE f \in [1..Cardinality(S) -> S] :
             \A m, n \in DOMAIN f : f[m] = f[n] => m = n
  IN  [i \in 1..Cardinality(S) |-> L[i]]

Imp(p, l, i) == [pkg |-> p, lib |-> l, inline |-> i, explicit |-> TRUE]
MkFile(p, l, i, s) == [pkg |-> p, lib |-> l, impl |-> i, imports |-> s]
LibImports(S) == [i \in 1..Cardinality(S) |-> Imp(None, SetToList(S)[i], FALSE)]

\* Libraries a, b and c of the main package and an impl file of a.
GraphDecl == <<<<"a", FALSE>>, <<"b", FALSE>>, <<"c", FALSE>>, <<"a", TRUE>>>>
GraphPrograms ==
  {[prelude_import |-> FALSE, fuzzing |-> FALSE,
    files |-> [u \in Units |->
       MkFile(None, GraphDecl[u][1], GraphDecl[u][2], LibImports(g[u]))]] :
     g \in [Units -> SUBSET GraphLibs]}

\* One file of any declaration with two imports of any form, beside library a
\* of package P, the prelude and a second library of Core.
OddDecls == {<<None, None, FALSE>>, <<None, "a", FALSE>>, <<None, "a", TRUE>>,
             <<"P", "a", TRUE>>, <<"P", "b", FALSE>>, <<Main, "a", TRUE>>,
             <<Cpp, "a", TRUE>>, <<Core, "b", FALSE>>, <<Core, Prelude, FALSE>>}
OddImports == {Imp(None, None, FALSE), Imp(None, "a", FALSE), Imp("P", "a", FALSE),
               Imp("P", "a", TRUE), Imp(Main, "a", FALSE), Imp(Cpp, None, FALSE),
               Imp(Core, Prelude, FALSE), Imp("Q", None, FALSE)}
OddPrograms ==
  {[prelude_import |-> TRUE, fuzzing |-> z,
    files |-> <<MkFile("P", "a", FALSE, <<>>),
                MkFile(d[1], d[2], d[3], <<i1, i2>>),
                MkFile(Core, Prelude, FALSE, <<>>),
                MkFile(None, "a", FALSE, <<>>)>>] :
     z \in BOOLEAN, d \in OddDecls, i1 \in OddImports, i2 \in OddImports}

MCPrograms == GraphPrograms \cup OddPrograms

=============================================================================
