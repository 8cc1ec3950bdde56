--------------------------- MODULE MCRawHashtable ---------------------------
(* One table with keys of all kinds of hashes, and two tables with few keys. *)
EXTENDS RawHashtable

CONSTANTS t1, t2

\* Hashes of n keys, up to renaming of the keys.
HashesOf(n, indices) ==
  {h \in [1..n -> indices] : \A i \in 1..(n - 1) : h[i] <= h[i + 1]}

MCSetups ==
  {[tables |-> {t1}, small |-> 0, hash |-> h] :
     h \in HashesOf(4, {0, 2, 13}) \cup {<<0, 0, 0, 0, 0>>, <<0, 0, 0, 13, 13>>}}
  \cup {[tables |-> {t1, t2}, small |-> s, hash |-> h] :
          s \in {0, 4}, h \in {<<0, 0>>, <<0, 2>>}}

=============================================================================
