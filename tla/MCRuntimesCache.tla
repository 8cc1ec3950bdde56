--------------------------- MODULE MCRuntimesCache ---------------------------
(* Model values and symmetry for checking RuntimesCache.                     *)
EXTENDS RuntimesCache, TLC

CONSTANTS p1, p2, e1, e2, e3, e4

OneProc == {p1}
TwoProcs == {p1, p2}
TwoEntries == {e1, e2}
ThreeEntries == {e1, e2, e3}
FourEntries == {e1, e2, e3, e4}
Symmetry == Permutations(Procs) \cup Permutations(Entries)

=============================================================================
