--------------------------- MODULE MCClangRuntimes ---------------------------
(* Sources in nested directories and at the top, for checking ClangRuntimes. *)
EXTENDS ClangRuntimes, TLC

CONSTANTS t1, t2, t3, s1, s2, s3, c1, c2

ThreeSrcs == {s1, s2, s3}
MCDirs == {1, 2, 3}
\* Directory 3 is in 2, which is in 1; directory 1 holds no source itself.
MCParent == (1 :> 0) @@ (2 :> 1) @@ (3 :> 2)
MCDirOf == (s1 :> 3) @@ (s2 :> 2) @@ (s3 :> 0)
Symmetry == Permutations(Threads) \cup Permutations(Crt)

=============================================================================
