------------------------- MODULE RuntimesCacheProofs -------------------------
(***************************************************************************)
(* Proofs about RuntimesCache for any number of processes and entries and  *)
(* any limits: what pruning leaves of the cache is bounded, and below the  *)
(* age limit it removes the least recently used entries.                   *)
(***************************************************************************)
EXTENDS RuntimesCache, FiniteSetTheorems, TLAPS

----------------------------------------------------------------------------
(* The inductive invariant                                                  *)

\* A lock file that is open under its entry's name exists.
LockInv == \A p \in Procs : lk[p] \in Entries => stamp[lk[p]] # 0

\* The steps of PruneStaleRuntimes after it has listed the entries.
Removing == {"victimlock"} \cup RmtreeSteps
PruneSteps == {"now", "ages", "ancient", "lru"} \cup Removing

\* The locals of the prune.
LocalsInv(p) ==
  /\ pc[p] \notin {"idle", "aborted"} => want[p] \in Entries
  /\ pc[p] \notin {"lru"} \cup Removing => num[p] = 0
  /\ pc[p] \notin Removing => victim[p] = NoEntry
  /\ pc[p] \in Removing => victim[p] \in entries[p] \ todo[p]
  /\ pc[p] \in PruneSteps \ {"now"} => todo[p] \subseteq entries[p]
  /\ pc[p] = "ages" => \A e \in todo[p] : ages[p][e] >= 0
  /\ pc[p] = "victimlock" => InLru(p)

\* The entry that the last loop removes is the oldest of those left to it.
EvictInv(p) ==
  pc[p] \in Removing /\ InLru(p) =>
    /\ victim[p] # want[p] /\ num[p] >= MaxNumEntries
    /\ \A f \in todo[p] : ages[p][f] <= ages[p][victim[p]]

\* The entries that a prune knows of and may still remove, or keeps because
\* the Lookup is for them.
LastLoop(p) == pc[p] = "lru" \/ (pc[p] \in Removing /\ InLru(p))
Accounted(p) ==
  IF LastLoop(p) THEN todo[p] \cup (entries[p] \cap {want[p], victim[p]}) ELSE entries[p]

\* Unless one could not be removed, num_entries counts them.
NumInv(p) == ~contended /\ LastLoop(p) => num[p] = Cardinality(Accounted(p))

\* The processes about to create an entry, those that prune, and the entries
\* that are there whatever the former do.
Making == {p \in Procs : pc[p] = "mkdir"}
Pruning == {p \in Procs : pc[p] \in PruneSteps}
Settled == {e \in present : \A p \in Making : want[p] # e}
Accounts == [p \in Procs |-> Accounted(p)]

\* Of the processes P that prune, B[p] are p and those that listed the cache
\* before p did.
ListingOrder(P, B) ==
  /\ B \in [Procs -> SUBSET P]
  /\ \A p \in P : p \in B[p]
  /\ \A p, q \in P : q \in B[p] \/ B[p] \cup {q} \subseteq B[q]

\* A prune leaves room for the entries of those that listed before it, or will
\* have when it has removed what it accounts for.
Room(K, Y, A, b) ==
  \/ Cardinality(K) + Cardinality(Y) + Cardinality(b) <= MaxNumEntries - 1 + Cardinality(Procs)
  \/ Cardinality(K) + Cardinality(Y \ A) + Cardinality(b) <= Cardinality(Procs)
Ledger(P, K, Y, A) ==
  /\ Cardinality(K) + Cardinality(Y) <= MaxNumEntries - 1 + Cardinality(Procs)
  /\ \E B : ListingOrder(P, B) /\ \A p \in P : Room(K, Y, A[p], B[p])
LedgerInv == ~contended => Ledger(Pruning, Making, Settled, Accounts)

IInv ==
  /\ TypeOK /\ LockInv
  /\ \A p \in Procs : LocalsInv(p) /\ EvictInv(p) /\ NumInv(p)
  /\ LedgerInv

----------------------------------------------------------------------------
(* Counting                                                                 *)

\* Subsets of a finite set and their sizes.
LEMMA Counting ==
  ASSUME NEW S, IsFiniteSet(S)
  PROVE  /\ Cardinality(S) \in Nat
         /\ \A T \in SUBSET S :
              /\ IsFiniteSet(T) /\ Cardinality(T) \in Nat /\ Cardinality(T) <= Cardinality(S)
<1> SUFFICES ASSUME NEW T \in SUBSET S
             PROVE  /\ IsFiniteSet(T) /\ Cardinality(T) \in Nat
                    /\ Cardinality(T) <= Cardinality(S)
  BY FS_CardinalityType
<1>1. IsFiniteSet(T) /\ Cardinality(T) <= Cardinality(S)
  BY FS_Subset
<1> QED
  BY <1>1, FS_CardinalityType

\* What one element more or less does to a size.
LEMMA CountingOne ==
  ASSUME NEW S, IsFiniteSet(S), NEW x
  PROVE  /\ Cardinality(S) \in Nat
         /\ Cardinality(S \cup {x}) \in Nat /\ Cardinality(S \cup {x}) <= Cardinality(S) + 1
         /\ x \notin S => Cardinality(S \cup {x}) = Cardinality(S) + 1
         /\ Cardinality(S \ {x}) \in Nat /\ Cardinality(S) <= Cardinality(S \ {x}) + 1
         /\ x \in S => Cardinality(S \ {x}) = Cardinality(S) - 1 /\ Cardinality(S) >= 1
<1>1. /\ IsFiniteSet(S \cup {x})
      /\ Cardinality(S \cup {x}) = IF x \in S THEN Cardinality(S) ELSE Cardinality(S) + 1
  BY FS_AddElement
<1>2. /\ IsFiniteSet(S \ {x})
      /\ Cardinality(S \ {x}) = IF x \in S THEN Cardinality(S) - 1 ELSE Cardinality(S)
  BY FS_RemoveElement
<1>3. Cardinality(S) \in Nat /\ Cardinality(S \cup {x}) \in Nat /\ Cardinality(S \ {x}) \in Nat
  BY <1>1, <1>2, FS_CardinalityType
<1> QED
  BY <1>1, <1>2, <1>3

\* The limits and the numbers of processes and entries.
LEMMA Limits ==
  /\ IsFiniteSet(Procs) /\ IsFiniteSet(Entries)
  /\ Cardinality(Procs) \in Nat /\ Cardinality(Entries) \in Nat
  /\ MaxNumEntries \in Nat /\ MaxNumEntries >= 1 /\ MinNumEntries <= MaxNumEntries
  BY FiniteAssumption, SizesAssumption, FS_CardinalityType

----------------------------------------------------------------------------
(* The ledger                                                               *)

\* The order of the listings without those that stopped pruning.
LEMMA OrderShrink ==
  ASSUME NEW P \in SUBSET Procs, NEW P2 \in SUBSET P, NEW B, ListingOrder(P, B)
  PROVE  ListingOrder(P2, [p \in Procs |-> B[p] \cap P2])
<1> DEFINE B2 == [p \in Procs |-> B[p] \cap P2]
<1>1. B2 \in [Procs -> SUBSET P2] /\ \A p \in P2 : B2[p] = B[p] \cap P2
  OBVIOUS
<1> HIDE DEF B2
<1>2. \A p \in P2 : p \in B2[p]
  BY <1>1 DEF ListingOrder
<1>3. ASSUME NEW p \in P2, NEW q \in P2
      PROVE  q \in B2[p] \/ B2[p] \cup {q} \subseteq B2[q]
  <2>1. q \in B[p] \/ B[p] \cup {q} \subseteq B[q]
    BY DEF ListingOrder
  <2> QED
    BY <1>1, <2>1
<1> QED
  BY <1>1, <1>2, <1>3 DEF ListingOrder, B2

\* Nothing is added and nothing left out of account: a removal, a prune that
\* ends with its process, and steps that touch none of this.
LEMMA LedgerShrinks ==
  ASSUME NEW P \in SUBSET Procs, NEW K \in SUBSET Procs, NEW Y \in SUBSET Entries, NEW A,
         NEW P2 \in SUBSET P, NEW K2 \in SUBSET K, NEW Y2 \in SUBSET Y, NEW A2,
         \A p \in P2 : Y2 \ A2[p] \subseteq Y \ A[p],
         Ledger(P, K, Y, A)
  PROVE  Ledger(P2, K2, Y2, A2)
<1>1. PICK B : ListingOrder(P, B) /\ \A p \in P : Room(K, Y, A[p], B[p])
  BY DEF Ledger
<1> DEFINE B2 == [p \in Procs |-> B[p] \cap P2]
<1>2. ListingOrder(P2, B2)
  BY <1>1, OrderShrink
<1>3. /\ IsFiniteSet(K) /\ Cardinality(K) \in Nat
      /\ Cardinality(K2) \in Nat /\ Cardinality(K2) <= Cardinality(K)
      /\ IsFiniteSet(Y) /\ Cardinality(Y) \in Nat
      /\ Cardinality(Y2) \in Nat /\ Cardinality(Y2) <= Cardinality(Y)
  <2>1. IsFiniteSet(K) /\ IsFiniteSet(Y)
    BY Limits, Counting
  <2> QED
    BY <2>1, Counting
<1>4. ASSUME NEW p \in P2
      PROVE  Room(K2, Y2, A2[p], B2[p])
  <2>1. Room(K, Y, A[p], B[p])
    BY <1>1
  <2>2. IsFiniteSet(B[p]) /\ B2[p] \in SUBSET B[p]
    <3>1. p \in Procs /\ B[p] \subseteq Procs
      BY <1>1 DEF ListingOrder
    <3> QED
      BY <3>1, Limits, Counting
  <2>3. /\ Cardinality(B[p]) \in Nat /\ Cardinality(B2[p]) \in Nat
        /\ Cardinality(B2[p]) <= Cardinality(B[p])
    BY <2>2, Counting
  <2>4. IsFiniteSet(Y \ A[p]) /\ Y2 \ A2[p] \in SUBSET (Y \ A[p])
    BY <1>3, Counting
  <2>5. /\ Cardinality(Y \ A[p]) \in Nat /\ Cardinality(Y2 \ A2[p]) \in Nat
        /\ Cardinality(Y2 \ A2[p]) <= Cardinality(Y \ A[p])
    BY <2>4, Counting
  <2> HIDE DEF B2
  <2> QED
    BY <1>3, <2>1, <2>3, <2>5, Limits DEF Room
<1>5. Cardinality(K2) + Cardinality(Y2) <= MaxNumEntries - 1 + Cardinality(Procs)
  BY <1>3, Limits DEF Ledger
<1> HIDE DEF B2
<1> QED
  BY <1>2, <1>4, <1>5 DEF Ledger

\* m stops making its entry w, which is there now if it was made.
LEMMA LedgerMakes ==
  ASSUME NEW P \in SUBSET Procs, NEW K \in SUBSET Procs, NEW Y \in SUBSET Entries, NEW A,
         NEW m \in K, NEW w \in Entries, NEW Y2 \in SUBSET (Y \cup {w}), NEW A2,
         \A p \in P : A2[p] = A[p],
         Ledger(P, K, Y, A)
  PROVE  Ledger(P, K \ {m}, Y2, A2)
<1>1. PICK B : ListingOrder(P, B) /\ \A p \in P : Room(K, Y, A[p], B[p])
  BY DEF Ledger
<1>2. IsFiniteSet(K) /\ IsFiniteSet(Y) /\ IsFiniteSet(Y \cup {w})
  BY Limits, Counting
<1>3. Cardinality(K \ {m}) = Cardinality(K) - 1 /\ Cardinality(K) \in Nat /\ Cardinality(K) >= 1
  BY <1>2, CountingOne
<1>4. /\ Cardinality(Y) \in Nat /\ Cardinality(Y2) \in Nat
      /\ Cardinality(Y2) <= Cardinality(Y) + 1
  <2>1. Cardinality(Y \cup {w}) \in Nat /\ Cardinality(Y \cup {w}) <= Cardinality(Y) + 1
    BY <1>2, CountingOne
  <2>2. Cardinality(Y2) \in Nat /\ Cardinality(Y2) <= Cardinality(Y \cup {w})
    BY <1>2, Counting
  <2> QED
    BY <1>2, <2>1, <2>2, Counting
<1>5. ASSUME NEW p \in P
      PROVE  Room(K \ {m}, Y2, A2[p], B[p])
  <2>1. Room(K, Y, A[p], B[p])
    BY <1>1
  <2>2. Cardinality(B[p]) \in Nat
    <3>1. p \in Procs /\ B[p] \subseteq Procs
      BY <1>1 DEF ListingOrder
    <3> QED
      BY <3>1, Limits, Counting
  <2>3. /\ Cardinality(Y \ A[p]) \in Nat /\ Cardinality(Y2 \ A[p]) \in Nat
        /\ Cardinality(Y2 \ A[p]) <= Cardinality(Y \ A[p]) + 1
    <3> DEFINE Z == Y \ A[p]
    <3>1. IsFiniteSet(Z) /\ Cardinality(Z) \in Nat
      BY <1>2, Counting
    <3>2. Y2 \ A[p] \in SUBSET (Z \cup {w})
      OBVIOUS
    <3> HIDE DEF Z
    <3>3. IsFiniteSet(Z \cup {w}) /\ Cardinality(Z \cup {w}) <= Cardinality(Z) + 1
      BY <3>1, CountingOne, FS_AddElement
    <3>4. /\ Cardinality(Z \cup {w}) \in Nat /\ Cardinality(Y2 \ A[p]) \in Nat
          /\ Cardinality(Y2 \ A[p]) <= Cardinality(Z \cup {w})
      BY <3>2, <3>3, Counting
    <3> QED
      BY <3>1, <3>3, <3>4 DEF Z
  <2> QED
    BY <1>3, <1>4, <2>1, <2>2, <2>3, Limits DEF Room
<1>6. Cardinality(K \ {m}) + Cardinality(Y2) <= MaxNumEntries - 1 + Cardinality(Procs)
  BY <1>3, <1>4, Limits DEF Ledger
<1> QED
  BY <1>1, <1>5, <1>6 DEF Ledger

\* l lists the entries: everything settled is accounted for, and everyone that
\* prunes listed before it.
LEMMA LedgerLists ==
  ASSUME NEW P \in SUBSET Procs, NEW K \in SUBSET Procs, NEW Y \in SUBSET Entries, NEW A,
         P \cap K = {}, NEW l \in Procs \ (P \cup K), NEW A2, Y \subseteq A2[l],
         \A p \in P : A2[p] = A[p],
         Ledger(P, K, Y, A)
  PROVE  Ledger(P \cup {l}, K, Y, A2)
<1>1. PICK B : ListingOrder(P, B) /\ \A p \in P : Room(K, Y, A[p], B[p])
  BY DEF Ledger
<1> DEFINE B2 == [p \in Procs |-> IF p = l THEN P \cup {l} ELSE B[p]]
<1>2. ListingOrder(P \cup {l}, B2)
  <2>1. /\ B2 \in [Procs -> SUBSET (P \cup {l})]
        /\ B2[l] = P \cup {l} /\ \A p \in P : p # l /\ B2[p] = B[p] /\ B[p] \subseteq P
    BY <1>1 DEF ListingOrder
  <2> HIDE DEF B2
  <2>2. \A p \in P \cup {l} : p \in B2[p]
    BY <1>1, <2>1 DEF ListingOrder
  <2>3. ASSUME NEW p \in P \cup {l}, NEW q \in P \cup {l}
        PROVE  q \in B2[p] \/ B2[p] \cup {q} \subseteq B2[q]
    BY <1>1, <2>1 DEF ListingOrder
  <2> QED
    BY <2>1, <2>2, <2>3 DEF ListingOrder
<1>3. Room(K, Y, A2[l], B2[l])
  <2>1. Y \ A2[l] = {} /\ B2[l] = P \cup {l}
    OBVIOUS
  <2>2. Cardinality(K) + Cardinality(P \cup {l}) <= Cardinality(Procs)
    <3>1. /\ IsFiniteSet(K) /\ IsFiniteSet(P \cup {l}) /\ IsFiniteSet(K \cup (P \cup {l}))
          /\ Cardinality(K \cup (P \cup {l})) <= Cardinality(Procs)
          /\ Cardinality(K) \in Nat /\ Cardinality(P \cup {l}) \in Nat
      BY Limits, Counting
    <3>2. K \cap (P \cup {l}) = {}
      OBVIOUS
    <3> QED
      BY <3>1, <3>2, FS_Union, FS_EmptySet
  <2>3. Cardinality(K) \in Nat /\ Cardinality(P \cup {l}) \in Nat
    BY Limits, Counting
  <2>4. Cardinality(Y \ A2[l]) = 0
    BY <2>1, FS_EmptySet
  <2> HIDE DEF B2
  <2> QED
    BY <2>1, <2>2, <2>3, <2>4 DEF Room
<1>4. \A p \in P \cup {l} : Room(K, Y, A2[p], B2[p])
  BY <1>1, <1>3
<1> HIDE DEF B2
<1> QED
  BY <1>2, <1>4 DEF Ledger

\* l finds so few entries that it goes on without pruning.
LEMMA LedgerSkips ==
  ASSUME NEW P \in SUBSET Procs, NEW K \in SUBSET Procs, NEW Y \in SUBSET Entries, NEW A,
         P \cap K = {}, NEW l \in Procs \ (P \cup K), NEW A2,
         NEW Y2 \in SUBSET Y, Cardinality(Y) <= MaxNumEntries - 1,
         Ledger(P, K, Y, A)
  PROVE  Ledger(P, K \cup {l}, Y2, A2)
<1>1. PICK B : ListingOrder(P, B)
  BY DEF Ledger
<1>2. Cardinality(Y2) \in Nat /\ Cardinality(Y2) <= MaxNumEntries - 1
  <2>1. IsFiniteSet(Y) /\ Cardinality(Y) \in Nat
    BY Limits, Counting
  <2>2. Cardinality(Y2) \in Nat /\ Cardinality(Y2) <= Cardinality(Y)
    BY <2>1, Counting
  <2> QED
    BY <2>1, <2>2, Limits
<1>3. Cardinality(K \cup {l}) \in Nat /\ Cardinality(K \cup {l}) <= Cardinality(Procs)
  BY Limits, Counting
<1>4. ASSUME NEW p \in P
      PROVE  Room(K \cup {l}, Y2, A2[p], B[p])
  <2>1. B[p] \subseteq P /\ B[p] \subseteq Procs
    BY <1>1 DEF ListingOrder
  <2>2. /\ IsFiniteSet(K \cup {l}) /\ IsFiniteSet(B[p]) /\ IsFiniteSet((K \cup {l}) \cup B[p])
        /\ Cardinality((K \cup {l}) \cup B[p]) <= Cardinality(Procs)
        /\ Cardinality(B[p]) \in Nat
    BY <2>1, Limits, Counting
  <2>3. (K \cup {l}) \cap B[p] = {}
    BY <2>1
  <2>4. Cardinality(K \cup {l}) + Cardinality(B[p]) <= Cardinality(Procs)
    BY <1>3, <2>2, <2>3, FS_Union, FS_EmptySet
  <2> QED
    BY <1>2, <1>3, <2>2, <2>4, Limits DEF Room
<1>5. Cardinality(K \cup {l}) + Cardinality(Y2) <= MaxNumEntries - 1 + Cardinality(Procs)
  BY <1>2, <1>3, Limits
<1> QED
  BY <1>1, <1>4, <1>5 DEF Ledger

\* x ends its prune, with few enough entries or with nothing left to remove
\* but the one it wants.
LEMMA LedgerEnds ==
  ASSUME NEW P \in SUBSET Procs, NEW K \in SUBSET Procs, NEW Y \in SUBSET Entries,
         NEW A, P \cap K = {}, NEW x \in P, NEW w \in Entries, NEW A2,
         A[x] \subseteq Entries, Cardinality(A[x]) < MaxNumEntries \/ A[x] \subseteq {w},
         \A p \in P \ {x} : A2[p] = A[p],
         Ledger(P, K, Y, A)
  PROVE  Ledger(P \ {x}, K \cup {x}, Y \ {w}, A2)
<1>1. PICK B : ListingOrder(P, B) /\ \A p \in P : Room(K, Y, A[p], B[p])
  BY DEF Ledger
<1> DEFINE B2 == [p \in Procs |-> B[p] \cap (P \ {x})]
           Y2 == Y \ {w}
           K2 == K \cup {x}
<1>2. ListingOrder(P \ {x}, B2)
  BY <1>1, OrderShrink
<1>3. /\ IsFiniteSet(K) /\ IsFiniteSet(Y) /\ IsFiniteSet(Y2) /\ IsFiniteSet(A[x])
      /\ Cardinality(K) \in Nat /\ Cardinality(Y) \in Nat /\ Cardinality(Y2) \in Nat
      /\ Cardinality(A[x]) \in Nat
      /\ Cardinality(Y2) <= Cardinality(Y)
  <2>1. IsFiniteSet(K) /\ IsFiniteSet(Y) /\ IsFiniteSet(A[x])
    BY Limits, Counting
  <2> QED
    BY <2>1, Counting
<1>4. Cardinality(K2) = Cardinality(K) + 1
  BY <1>3, CountingOne
<1>5. \A p \in P : IsFiniteSet(B[p]) /\ Cardinality(B[p]) \in Nat
  <2>1. \A p \in P : B[p] \subseteq Procs
    BY <1>1 DEF ListingOrder
  <2> QED
    BY <2>1, Limits, Counting
<1>6. Cardinality(B[x]) >= 1
  BY <1>1, <1>5, CountingOne DEF ListingOrder
\* What its making an entry may cost.
<1>7. Cardinality(K2) + Cardinality(Y2) + Cardinality(B[x]) <= MaxNumEntries + Cardinality(Procs)
  <2>1. CASE Cardinality(K) + Cardinality(Y) + Cardinality(B[x])
               <= MaxNumEntries - 1 + Cardinality(Procs)
    <3> HIDE DEF K2, Y2
    <3> QED
      BY <1>3, <1>4, <1>5, <2>1, Limits
  <2>2. CASE Cardinality(K) + Cardinality(Y \ A[x]) + Cardinality(B[x]) <= Cardinality(Procs)
    <3>1. IsFiniteSet(Y \ A[x]) /\ Cardinality(Y \ A[x]) \in Nat
      BY <1>3, Counting
    <3>2. CASE Cardinality(A[x]) < MaxNumEntries
      <4>1. Cardinality(Y) <= Cardinality(Y \ A[x]) + Cardinality(A[x])
        <5>1. /\ Cardinality((Y \ A[x]) \cup A[x]) =
                   Cardinality(Y \ A[x]) + Cardinality(A[x]) - Cardinality((Y \ A[x]) \cap A[x])
              /\ IsFiniteSet((Y \ A[x]) \cup A[x])
          BY <1>3, <3>1, FS_Union
        <5>2. (Y \ A[x]) \cap A[x] = {} /\ Y \in SUBSET ((Y \ A[x]) \cup A[x])
          OBVIOUS
        <5>3. Cardinality(Y) <= Cardinality((Y \ A[x]) \cup A[x])
          BY <5>1, <5>2, Counting
        <5>4. Cardinality((Y \ A[x]) \cap A[x]) = 0
          BY <5>2, FS_EmptySet
        <5> QED
          BY <1>3, <3>1, <5>1, <5>3, <5>4
      <4> HIDE DEF K2, Y2
      <4> QED
        BY <1>3, <1>4, <1>5, <2>2, <3>1, <3>2, <4>1, Limits
    <3>3. CASE A[x] \subseteq {w}
      <4>1. Cardinality(Y2) <= Cardinality(Y \ A[x])
        BY <3>1, <3>3, Counting
      <4> HIDE DEF K2, Y2
      <4> QED
        BY <1>3, <1>4, <1>5, <2>2, <3>1, <4>1, Limits
    <3> QED
      BY <3>2, <3>3
  <2> QED
    BY <1>1, <2>1, <2>2 DEF Room
<1>8. ASSUME NEW p \in P \ {x}
      PROVE  Room(K2, Y2, A2[p], B2[p])
  <2>1. CASE x \in B[p]
    <3>1. B2[p] = B[p] \ {x}
      BY <1>1 DEF ListingOrder
    <3>2. /\ Cardinality(B2[p]) \in Nat /\ Cardinality(B[p]) \in Nat
          /\ Cardinality(B2[p]) = Cardinality(B[p]) - 1
      BY <1>5, <2>1, <3>1, CountingOne
    <3>3. IsFiniteSet(Y \ A[p]) /\ Y2 \ A[p] \in SUBSET (Y \ A[p])
      BY <1>3, Counting
    <3>4. /\ Cardinality(Y \ A[p]) \in Nat /\ Cardinality(Y2 \ A[p]) \in Nat
          /\ Cardinality(Y2 \ A[p]) <= Cardinality(Y \ A[p])
      BY <3>3, Counting
    <3>5. Room(K, Y, A[p], B[p]) /\ A2[p] = A[p]
      BY <1>1
    <3> HIDE DEF K2, Y2, B2
    <3> QED
      BY <1>3, <1>4, <3>2, <3>4, <3>5, Limits DEF Room
  <2>2. CASE x \notin B[p]
    <3>1. B[p] \cup {x} \subseteq B[x]
      BY <1>1, <2>2 DEF ListingOrder
    <3>2. B2[p] = B[p]
      <4>1. B[p] \subseteq P
        BY <1>1 DEF ListingOrder
      <4> QED
        BY <2>2, <4>1
    <3>3. Cardinality(B[p] \cup {x}) = Cardinality(B[p]) + 1 /\ Cardinality(B[p]) \in Nat
      BY <1>5, <2>2, CountingOne
    <3>4. Cardinality(B[p] \cup {x}) <= Cardinality(B[x])
      BY <1>5, <3>1, Counting
    <3> HIDE DEF K2, Y2, B2
    <3> QED
      BY <1>3, <1>4, <1>5, <1>7, <3>2, <3>3, <3>4, Limits DEF Room
  <2> QED
    BY <2>1, <2>2
<1>9. Cardinality(K2) + Cardinality(Y2) <= MaxNumEntries - 1 + Cardinality(Procs)
  <2> HIDE DEF K2, Y2
  <2> QED
    BY <1>3, <1>4, <1>5, <1>6, <1>7, Limits
<1> HIDE DEF B2
<1> QED
  BY <1>2, <1>8, <1>9 DEF Ledger
----------------------------------------------------------------------------
(* The files                                                                *)

\* The parts of the type invariant.
Files ==
  /\ clock \in StartTime..MaxTime
  /\ present \subseteq Entries
  /\ stamp \in [Entries -> 0..MaxTime]
  /\ comp \subseteq present
  /\ \A e \in Entries \ present : stamp[e] = 0
  /\ dir \in [Procs -> present \cup {NoEntry}]
  /\ lk \in [Procs -> Entries \cup Orphans \cup {NoEntry}]
Locals ==
  /\ pc \in [Procs -> PCs]
  /\ want \in [Procs -> Entries \cup {NoEntry}]
  /\ held \in [Procs -> {"no", "shared", "exclusive"}]
  /\ ages \in [Procs -> [Entries -> (-MaxTime)..MaxTime]]
  /\ entries \in [Procs -> SUBSET Entries]
  /\ todo \in [Procs -> SUBSET Entries]
  /\ num \in [Procs -> 0..Cardinality(Entries)]
  /\ victim \in [Procs -> Entries \cup {NoEntry}]
  /\ contended \in BOOLEAN

\* Together they are the type invariant.
LEMMA TypeParts == TypeOK <=> Files /\ Locals
  BY DEF TypeOK, Files, Locals

\* A set of numbers that is not empty has a least one.
LEMMA LeastNat ==
  ASSUME NEW S \in SUBSET Nat, S # {}
  PROVE  \E m \in S : \A n \in S : m <= n
<1> DEFINE R == OpToRel(<, Nat)
<1>1. \A i, j \in Nat : <<i, j>> \in R <=> i < j
  BY DEF OpToRel
<1>2. IsWellFoundedOn(R, Nat)
  BY NatLessThanWellFounded
<1> HIDE DEF R
<1>3. PICK m \in S : \A n \in S : ~(<<n, m>> \in R)
  BY <1>2, WFMin
<1>4. \A n \in S : ~(n < m) /\ n \in Nat /\ m \in Nat
  BY <1>1, <1>3
<1> QED
  BY <1>3, <1>4

\* An orphan's number is free as long as someone has an entry's lock file open.
LEMMA FreeOrphan ==
  ASSUME Files, NEW e \in Entries, NEW p \in Procs, lk[p] = e,
         NEW unused, unused = {o \in Orphans : \A q \in Procs : lk[q] # o}
  PROVE  (CHOOSE o \in unused : \A o2 \in unused : o <= o2) \in Orphans
<1>1. unused # {}
  <2> SUFFICES ASSUME \A o \in Orphans : \E q \in Procs : lk[q] = o
               PROVE  FALSE
    OBVIOUS
  <2> DEFINE g == [o \in Orphans |-> CHOOSE q \in Procs : lk[q] = o]
  <2>1. e \notin Orphans
    BY OrphansAssumption
  <2>2. \A o \in Orphans : g[o] \in Procs \ {p} /\ lk[g[o]] = o
    BY <2>1
  <2>3. g \in [Orphans -> Procs \ {p}]
    BY <2>2
  <2>4. IsFiniteSet(Orphans) /\ Cardinality(Orphans) = Cardinality(Procs)
    BY Limits, FS_Interval DEF Orphans
  <2>5. /\ IsFiniteSet(Procs \ {p}) /\ Cardinality(Procs \ {p}) < Cardinality(Procs)
    <3>1. IsFiniteSet(Procs \ {p}) /\ Cardinality(Procs \ {p}) = Cardinality(Procs) - 1
      BY Limits, FS_RemoveElement
    <3> QED
      BY <3>1, Limits
  <2> HIDE DEF g
  <2>6. \E x, y \in Orphans : x # y /\ g[x] = g[y]
    BY <2>3, <2>4, <2>5, FS_PigeonHole
  <2> QED
    BY <2>2, <2>6
<1>2. unused \subseteq Nat
  BY Limits DEF Orphans
<1>3. \E m \in unused : \A n \in unused : m <= n
  BY <1>1, <1>2, LeastNat
<1> QED
  BY <1>3

\* Unlinking a lock file leaves the others and those who have it open.
LEMMA Unlinked ==
  ASSUME Files, NEW e \in Entries, UnlinkLock(e)
  PROVE  /\ stamp' \in [Entries -> 0..MaxTime]
         /\ stamp'[e] = 0 /\ \A f \in Entries \ {e} : stamp'[f] = stamp[f]
         /\ lk' \in [Procs -> Entries \cup Orphans \cup {NoEntry}]
         /\ \A q \in Procs : lk'[q] \in Entries => lk'[q] = lk[q] /\ lk[q] # e
<1>1. stamp' = [stamp EXCEPT ![e] = 0] /\ 0 \in 0..MaxTime
  BY AgesAssumption DEF UnlinkLock
<1> DEFINE unused == {o \in Orphans : \A q \in Procs : lk[q] # o}
           orphan == CHOOSE o \in unused : \A o2 \in unused : o <= o2
<1>2. lk' = [q \in Procs |-> IF lk[q] = e THEN orphan ELSE lk[q]]
  BY DEF UnlinkLock
<1>3. \A q \in Procs : lk[q] = e => orphan \in Orphans
  BY FreeOrphan
<1> HIDE DEF orphan
<1>4. \A q \in Procs : lk'[q] = IF lk[q] = e THEN orphan ELSE lk[q]
  BY <1>2
<1>5. lk' \in [Procs -> Entries \cup Orphans \cup {NoEntry}]
  BY <1>2, <1>3 DEF Files
<1>6. \A q \in Procs : lk'[q] \in Entries => lk'[q] = lk[q] /\ lk[q] # e
  BY <1>3, <1>4, OrphansAssumption
<1> QED
  BY <1>1, <1>5, <1>6 DEF Files

\* A step that leaves the file system alone and only opens directories that
\* are there, or closes files.
LEMMA FilesKept ==
  ASSUME Files, LockInv, UNCHANGED <<clock, fs>>,
         dir' \in [Procs -> present \cup {NoEntry}],
         lk' \in [Procs -> Entries \cup Orphans \cup {NoEntry}],
         \A q \in Procs : lk'[q] \in Entries => lk'[q] = lk[q]
  PROVE  Files' /\ LockInv'
<1>1. clock' = clock /\ present' = present /\ stamp' = stamp /\ comp' = comp
  BY DEF fs
<1> QED
  BY <1>1 DEF Files, LockInv

\* A process that drops everything closes its files.
LEMMA FilesDropped ==
  ASSUME Files, LockInv, NEW p \in Procs, NEW l, Drop(p, l), UNCHANGED <<clock, fs>>
  PROVE  Files' /\ LockInv'
<1>1. /\ dir' \in [Procs -> present \cup {NoEntry}]
      /\ lk' \in [Procs -> Entries \cup Orphans \cup {NoEntry}]
  BY DEF Drop, CloseLock, Files
<1>2. \A q \in Procs : lk'[q] \in Entries => lk'[q] = lk[q]
  BY EntriesAssumption DEF Drop, CloseLock, Files
<1> QED
  BY <1>1, <1>2, FilesKept

\* Opening a lock file creates it, in a directory that is there.
LEMMA FilesOpened ==
  ASSUME Files, LockInv, NEW p \in Procs, NEW e \in present, OpenLock(p, e),
         UNCHANGED <<clock, present, comp, dir>>
  PROVE  Files' /\ LockInv'
<1>1. e \in Entries /\ clock \in 0..MaxTime /\ clock # 0
  BY AgesAssumption DEF Files
<1>2. /\ stamp' \in [Entries -> 0..MaxTime]
      /\ stamp'[e] # 0 /\ \A f \in Entries \ {e} : stamp'[f] = stamp[f]
  BY <1>1 DEF OpenLock, Files
<1>3. lk' \in [Procs -> Entries \cup Orphans \cup {NoEntry}]
  BY <1>1 DEF OpenLock, Files
<1>4. \A q \in Procs : lk'[q] = IF q = p THEN e ELSE lk[q]
  BY DEF OpenLock, Files
<1>5. LockInv'
  BY <1>1, <1>2, <1>4 DEF LockInv
<1> QED
  BY <1>1, <1>2, <1>3, <1>5 DEF Files

\* The open files of a step that removes the victim.
LEMMA FilesClosed ==
  ASSUME Files, NEW p \in Procs, CloseLock(p)
  PROVE  /\ lk' \in [Procs -> Entries \cup Orphans \cup {NoEntry}]
         /\ \A q \in Procs : lk'[q] \in Entries => lk'[q] = lk[q]
  BY EntriesAssumption DEF CloseLock, Files

\* Every step keeps the files as they may be.
LEMMA NextFiles ==
  ASSUME IInv, Next
  PROVE  Files' /\ LockInv'
<1>0. Files /\ LockInv /\ Locals
  BY TypeParts DEF IInv
<1>1. CASE Tick
  BY <1>0, <1>1, AgesAssumption DEF Tick, Files, LockInv, fs
<1> SUFFICES ASSUME NEW p \in Procs,
                    \/ \E e \in Entries : Lookup(p, e)
                    \/ Progress(p) \/ LookupError(p) \/ ListError(p) \/ VictimError(p)
                    \/ RmError(p) \/ BuildComponent(p) \/ Destroy(p) \/ Crash(p)
             PROVE  Files' /\ LockInv'
  BY <1>1 DEF Next
<1>2. CASE ListEntries(p) \/ ReadClock(p) \/ ComputeEntryAges(p) \/ RemoveAncient(p) \/ ListError(p)
  <2>1. UNCHANGED <<clock, fs>> /\ dir' = dir /\ lk' = lk
    BY <1>2 DEF ListEntries, ReadClock, ComputeEntryAges, RemoveAncient, ListError, fs
  <2> QED
    BY <1>0, <2>1 DEF Files, LockInv, fs
<1>3. ASSUME NEW e \in Entries, Lookup(p, e)
      PROVE  Files' /\ LockInv'
  <2>1. UNCHANGED <<clock, fs>> /\ lk' = lk
    BY <1>3 DEF Lookup, fs
  <2>2. dir' \in [Procs -> present \cup {NoEntry}]
    BY <1>0, <1>3 DEF Lookup, Files
  <2> QED
    BY <1>0, <2>1, <2>2 DEF Files, LockInv, fs
<1>4. CASE PruneLoop(p)
  <2>1. UNCHANGED <<clock, present, comp, dir>>
    BY <1>4 DEF PruneLoop
  <2>2. CASE stamp' = stamp /\ lk' = lk
    BY <1>0, <2>1, <2>2 DEF Files, LockInv
  <2>3. ASSUME NEW e \in present, OpenLock(p, e)
        PROVE  Files' /\ LockInv'
    BY <1>0, <2>1, <2>3, FilesOpened
  <2> QED
    BY <1>4, <2>2, <2>3 DEF PruneLoop
<1>5. CASE LockVictim(p) \/ VictimError(p)
  <2>1. UNCHANGED <<clock, fs>> /\ dir' = dir
    BY <1>5 DEF LockVictim, VictimError, fs
  <2>2. lk' = lk \/ CloseLock(p)
    BY <1>5 DEF LockVictim, VictimError
  <2>3. /\ lk' \in [Procs -> Entries \cup Orphans \cup {NoEntry}]
        /\ \A q \in Procs : lk'[q] \in Entries => lk'[q] = lk[q]
    <3>1. CASE lk' = lk
      BY <1>0, <3>1 DEF Files
    <3>2. CASE CloseLock(p)
      BY <1>0, <3>2, FilesClosed
    <3> QED
      BY <2>2, <3>1, <3>2
  <2>4. dir' \in [Procs -> present \cup {NoEntry}]
    BY <1>0, <2>1 DEF Files
  <2> QED
    BY <1>0, <2>1, <2>3, <2>4, FilesKept
<1>6. CASE Rmdir(p)
  <2> DEFINE v == victim[p]
  <2>1. UNCHANGED <<clock, stamp, comp>>
    BY <1>6 DEF Rmdir
  <2>2. lk' = lk \/ CloseLock(p)
    BY <1>6 DEF Rmdir, Removed
  <2>3. /\ lk' \in [Procs -> Entries \cup Orphans \cup {NoEntry}]
        /\ \A q \in Procs : lk'[q] \in Entries => lk'[q] = lk[q]
    <3>1. CASE lk' = lk
      BY <1>0, <3>1 DEF Files
    <3>2. CASE CloseLock(p)
      BY <1>0, <3>2, FilesClosed
    <3> QED
      BY <2>2, <3>1, <3>2
  <2>4. CASE present' = present /\ dir' = dir
    <3>1. UNCHANGED <<clock, fs>> /\ dir' \in [Procs -> present \cup {NoEntry}]
      BY <1>0, <2>1, <2>4 DEF Files, fs
    <3> QED
      BY <1>0, <2>3, <3>1, FilesKept
  <2>5. CASE /\ v \in present /\ stamp[v] = 0 /\ v \notin comp
             /\ present' = present \ {v}
             /\ dir' = [q \in Procs |-> IF dir[q] = v THEN NoEntry ELSE dir[q]]
    <3>1. dir' \in [Procs -> present' \cup {NoEntry}]
      BY <1>0, <2>5 DEF Files
    <3>2. LockInv'
      BY <1>0, <2>1, <2>3 DEF LockInv
    <3>3. comp' \subseteq present' /\ \A e \in Entries \ present' : stamp'[e] = 0
      BY <1>0, <2>1, <2>5 DEF Files
    <3> QED
      BY <1>0, <2>1, <2>3, <2>5, <3>1, <3>2, <3>3 DEF Files
  <2> QED
    BY <1>6, <2>4, <2>5 DEF Rmdir
<1>7. CASE RmOpen(p)
  <2>1. UNCHANGED <<clock, fs>>
    BY <1>7 DEF RmOpen, fs
  <2>2. CASE victim[p] \in present /\ lk' = lk /\ dir' = [dir EXCEPT ![p] = victim[p]]
    BY <1>0, <2>1, <2>2 DEF Files, LockInv, fs
  <2>3. CASE CloseLock(p) /\ dir' = dir
    <3>1. dir' \in [Procs -> present \cup {NoEntry}]
      BY <1>0, <2>3 DEF Files
    <3> QED
      BY <1>0, <2>1, <2>3, <3>1, FilesKept, FilesClosed
  <2> QED
    BY <1>7, <2>2, <2>3 DEF RmOpen, Removed
<1>8. CASE RmLock(p)
  <2>1. UNCHANGED <<clock, present, comp, dir>>
    BY <1>8 DEF RmLock
  <2>2. CASE stamp' = stamp /\ lk' = lk
    BY <1>0, <2>1, <2>2 DEF Files, LockInv
  <2>3. CASE dir[p] # NoEntry /\ UnlinkLock(dir[p])
    <3>1. dir[p] \in Entries
      BY <1>0, <2>3 DEF Files
    <3>2. PICK e \in Entries : e = dir[p] /\ UnlinkLock(e)
      BY <2>3, <3>1
    <3>3. /\ stamp' \in [Entries -> 0..MaxTime]
          /\ stamp'[e] = 0 /\ \A f \in Entries \ {e} : stamp'[f] = stamp[f]
          /\ lk' \in [Procs -> Entries \cup Orphans \cup {NoEntry}]
          /\ \A q \in Procs : lk'[q] \in Entries => lk'[q] = lk[q] /\ lk[q] # e
      BY <1>0, <3>2, Unlinked
    <3>4. LockInv'
      BY <1>0, <3>3 DEF LockInv
    <3>5. \A f \in Entries \ present' : stamp'[f] = 0
      BY <1>0, <2>1, <3>3 DEF Files
    <3> QED
      BY <1>0, <2>1, <3>3, <3>4, <3>5 DEF Files
  <2> QED
    BY <1>8, <2>2, <2>3 DEF RmLock
<1>9. CASE RmComponents(p)
  <2>1. /\ clock' = clock /\ present' = present /\ stamp' = stamp /\ lk' = lk
        /\ comp' \subseteq comp /\ dir' = [dir EXCEPT ![p] = NoEntry]
    BY <1>9 DEF RmComponents
  <2> QED
    BY <1>0, <2>1 DEF Files, LockInv
<1>10. CASE RmError(p)
  <2>1. UNCHANGED <<clock, fs>> /\ CloseLock(p) /\ dir' = [dir EXCEPT ![p] = NoEntry]
    BY <1>10 DEF RmError, fs
  <2>2. dir' \in [Procs -> present \cup {NoEntry}]
    BY <1>0, <2>1 DEF Files
  <2> QED
    BY <1>0, <2>1, <2>2, FilesKept, FilesClosed
<1>11. CASE MakeEntry(p)
  <2>1. /\ clock' = clock /\ stamp' = stamp /\ comp' = comp /\ dir' = dir /\ lk' = lk
        /\ present' = present \cup {want[p]}
    BY <1>11 DEF MakeEntry
  <2>2. want[p] \in Entries
    BY <1>11 DEF MakeEntry, IInv, LocalsInv
  <2> QED
    BY <1>0, <2>1, <2>2 DEF Files, LockInv
<1>12. CASE OpenEntry(p)
  <2>1. UNCHANGED <<clock, fs>>
    BY <1>12 DEF OpenEntry
  <2>2. CASE want[p] \in present /\ lk' = lk /\ dir' = [dir EXCEPT ![p] = want[p]]
    BY <1>0, <2>1, <2>2 DEF Files, LockInv, fs
  <2>3. CASE ReturnError(p)
    BY <1>0, <2>1, <2>3, FilesDropped DEF ReturnError
  <2> QED
    BY <1>12, <2>2, <2>3 DEF OpenEntry
<1>13. CASE OpenEntryLock(p)
  <2>1. CASE dir[p] # NoEntry /\ OpenLock(p, dir[p]) /\ UNCHANGED <<clock, present, comp, dir>>
    <3>1. dir[p] \in present
      BY <1>0, <2>1 DEF Files
    <3> QED
      BY <1>0, <2>1, <3>1, FilesOpened
  <2>2. CASE ReturnError(p) /\ UNCHANGED <<clock, fs>>
    BY <1>0, <2>2, FilesDropped DEF ReturnError
  <2> QED
    BY <1>13, <2>1, <2>2 DEF OpenEntryLock, fs
<1>14. CASE UpdateTimes(p)
  <2>1. UNCHANGED <<clock, present, comp, dir, lk>>
    BY <1>14 DEF UpdateTimes
  <2>2. CASE stamp' = stamp
    BY <1>0, <2>1, <2>2 DEF Files, LockInv
  <2>3. CASE lk[p] \in Entries /\ stamp' = [stamp EXCEPT ![lk[p]] = clock]
    <3>1. PICK e \in Entries : e = lk[p] /\ stamp' = [stamp EXCEPT ![e] = clock]
      BY <2>3
    <3>2. e \in present
      BY <1>0, <3>1 DEF Files, LockInv
    <3>3. clock \in 0..MaxTime /\ clock # 0
      BY <1>0, AgesAssumption DEF Files
    <3>4. /\ stamp' \in [Entries -> 0..MaxTime]
          /\ \A f \in Entries : stamp'[f] = IF f = e THEN clock ELSE stamp[f]
      BY <1>0, <3>1, <3>3 DEF Files
    <3>5. LockInv'
      BY <1>0, <2>1, <3>3, <3>4 DEF LockInv
    <3> QED
      BY <1>0, <2>1, <3>2, <3>4, <3>5 DEF Files
  <2> QED
    BY <1>14, <2>2, <2>3 DEF UpdateTimes
<1>15. CASE LockEntry(p)
  <2>1. UNCHANGED <<clock, fs>>
    BY <1>15 DEF LockEntry
  <2>2. CASE lk' = lk /\ dir' = dir
    BY <1>0, <2>1, <2>2 DEF Files, LockInv, fs
  <2>3. CASE ReturnError(p)
    BY <1>0, <2>1, <2>3, FilesDropped DEF ReturnError
  <2> QED
    BY <1>15, <2>2, <2>3 DEF LockEntry
<1>16. CASE LookupError(p)
  BY <1>0, <1>16, FilesDropped DEF LookupError, ReturnError
<1>17. CASE Destroy(p) \/ Crash(p)
  BY <1>0, <1>17, FilesDropped DEF Destroy, Crash, Leave
<1>18. CASE BuildComponent(p)
  <2>1. /\ clock' = clock /\ present' = present /\ stamp' = stamp /\ dir' = dir /\ lk' = lk
        /\ comp' = comp \cup {dir[p]} /\ dir[p] # NoEntry
    BY <1>18 DEF BuildComponent
  <2> QED
    BY <1>0, <2>1 DEF Files, LockInv
<1> QED
  BY <1>2, <1>3, <1>4, <1>5, <1>6, <1>7, <1>8, <1>9, <1>10, <1>11, <1>12, <1>13, <1>14,
     <1>15, <1>16, <1>17, <1>18 DEF Progress

----------------------------------------------------------------------------
(* The prunes and the ledger                                                *)

\* The locals of the others stay as they are.
StepOf(p) ==
  \A q \in Procs \ {p} :
    /\ pc'[q] = pc[q] /\ want'[q] = want[q] /\ ages'[q] = ages[q]
    /\ entries'[q] = entries[q] /\ todo'[q] = todo[q] /\ num'[q] = num[q]
    /\ victim'[q] = victim[q]

\* Then so does what holds of them.
LEMMA OthersKept ==
  ASSUME IInv, NEW p \in Procs, StepOf(p), contended => contended'
  PROVE  \A q \in Procs \ {p} :
           /\ (LocalsInv(q) /\ EvictInv(q) /\ NumInv(q))'
           /\ Accounted(q)' = Accounted(q)
           /\ q \in Making' <=> q \in Making
           /\ q \in Pruning' <=> q \in Pruning
<1> SUFFICES ASSUME NEW q \in Procs \ {p}
             PROVE  /\ (LocalsInv(q) /\ EvictInv(q) /\ NumInv(q))'
                    /\ Accounted(q)' = Accounted(q)
                    /\ q \in Making' <=> q \in Making
                    /\ q \in Pruning' <=> q \in Pruning
  OBVIOUS
<1>1. /\ pc'[q] = pc[q] /\ want'[q] = want[q] /\ ages'[q] = ages[q]
      /\ entries'[q] = entries[q] /\ todo'[q] = todo[q] /\ num'[q] = num[q]
      /\ victim'[q] = victim[q]
  BY DEF StepOf
<1>2. LocalsInv(q) /\ EvictInv(q) /\ NumInv(q)
  BY DEF IInv
<1>3. /\ InLru(q)' <=> InLru(q)
      /\ LastLoop(q)' <=> LastLoop(q)
      /\ Accounted(q)' = Accounted(q)
  BY <1>1 DEF InLru, LastLoop, Accounted
<1>4. LocalsInv(q)'
  BY <1>1, <1>2, <1>3 DEF LocalsInv
<1>5. EvictInv(q)'
  BY <1>1, <1>2, <1>3 DEF EvictInv
<1>6. NumInv(q)'
  BY <1>1, <1>2, <1>3 DEF NumInv
<1>7. /\ q \in Making' <=> q \in Making
      /\ q \in Pruning' <=> q \in Pruning
  BY <1>1 DEF Making, Pruning
<1> QED
  BY <1>3, <1>4, <1>5, <1>6, <1>7

\* The sets that the ledger is about.
LEMMA LedgerSets ==
  ASSUME IInv
  PROVE  /\ Pruning \in SUBSET Procs /\ Making \in SUBSET Procs /\ Pruning \cap Making = {}
         /\ Settled \in SUBSET Entries
         /\ \A q \in Procs : Accounts[q] = Accounted(q) /\ Accounts'[q] = Accounted(q)'
  BY DEF IInv, TypeOK, Pruning, Making, Settled, Accounts, PruneSteps, Removing, RmtreeSteps

\* p creates nothing, lists nothing, and leaves nothing out of account that is
\* still there.
LEMMA QuietStep ==
  ASSUME IInv, NEW p \in Procs, StepOf(p), contended => contended',
         pc[p] # "mkdir", pc'[p] # "mkdir", pc'[p] \in PruneSteps => pc[p] \in PruneSteps,
         present' \subseteq present,
         pc'[p] \in PruneSteps => \A e \in present' : e \in Accounted(p) => e \in Accounted(p)'
  PROVE  LedgerInv'
<1> SUFFICES ASSUME ~contended' PROVE Ledger(Pruning, Making, Settled, Accounts)'
  BY DEF LedgerInv
<1>1. Ledger(Pruning, Making, Settled, Accounts)
  BY DEF IInv, LedgerInv
<1>2. Making' = Making /\ Pruning' \in SUBSET Pruning
  <2>1. p \notin Making /\ p \notin Making' /\ (p \in Pruning' => p \in Pruning)
    BY DEF Making, Pruning
  <2>2. Making' \subseteq Procs /\ Making \subseteq Procs /\ Pruning' \subseteq Procs
    BY DEF Making, Pruning
  <2> QED
    BY <2>1, <2>2, OthersKept
<1>3. \A q \in Making : want'[q] = want[q]
  BY DEF StepOf, Making
<1>4. Settled' \in SUBSET Settled
  BY <1>2, <1>3 DEF Settled
<1>5. ASSUME NEW q \in Pruning'
      PROVE  Settled' \ Accounts'[q] \subseteq Settled \ Accounts[q]
  <2>1. q \in Procs /\ Accounts[q] = Accounted(q) /\ Accounts'[q] = Accounted(q)'
    BY LedgerSets DEF Pruning
  <2>2. Settled' \subseteq present'
    BY DEF Settled
  <2>3. CASE q = p
    BY <1>4, <2>1, <2>2, <2>3 DEF Pruning
  <2>4. CASE q # p
    <3>1. Accounted(q)' = Accounted(q)
      BY <2>1, <2>4, OthersKept
    <3> QED
      BY <1>4, <2>1, <3>1
  <2> QED
    BY <2>3, <2>4
<1>6. Ledger(Pruning', Making', Settled', Accounts')
  BY <1>1, <1>2, <1>4, <1>5, LedgerSets, LedgerShrinks
<1> QED
  BY <1>6 DEF Ledger

\* p has made its entry, or gives up.
LEMMA MadeStep ==
  ASSUME IInv, NEW p \in Procs, StepOf(p), contended => contended',
         pc[p] = "mkdir", pc'[p] \notin {"mkdir"} \cup PruneSteps,
         present' \subseteq present \cup {want[p]}
  PROVE  LedgerInv'
<1> SUFFICES ASSUME ~contended' PROVE Ledger(Pruning, Making, Settled, Accounts)'
  BY DEF LedgerInv
<1>1. Ledger(Pruning, Making, Settled, Accounts)
  BY DEF IInv, LedgerInv
<1>2. p \in Making /\ p \notin Pruning /\ p \notin Making' /\ p \notin Pruning'
  BY DEF Making, Pruning, PruneSteps, Removing, RmtreeSteps
<1>3. Making' = Making \ {p} /\ Pruning' = Pruning
  <2>1. Making' \subseteq Procs /\ Making \subseteq Procs
    BY DEF Making
  <2>2. Pruning' \subseteq Procs /\ Pruning \subseteq Procs
    BY DEF Pruning
  <2> QED
    BY <1>2, <2>1, <2>2, OthersKept
<1>4. \A q \in Making \ {p} : want'[q] = want[q]
  BY DEF StepOf, Making
<1>5. Settled' \in SUBSET (Settled \cup {want[p]})
  <2> SUFFICES ASSUME NEW e \in Settled', e # want[p] PROVE e \in Settled
    OBVIOUS
  <2>1. e \in present
    BY DEF Settled
  <2> QED
    BY <1>3, <1>4, <2>1 DEF Settled
<1>6. want[p] \in Entries
  BY DEF IInv, LocalsInv
<1>7. \A q \in Pruning : Accounts'[q] = Accounts[q]
  <2>1. \A q \in Pruning : q \in Procs \ {p}
    BY <1>2, LedgerSets
  <2> QED
    BY <2>1, LedgerSets, OthersKept
<1>8. Ledger(Pruning, Making \ {p}, Settled', Accounts')
  BY <1>1, <1>2, <1>5, <1>6, <1>7, LedgerSets, LedgerMakes
<1> QED
  BY <1>3, <1>8 DEF Ledger

\* p has listed the entries.
LEMMA ListedStep ==
  ASSUME IInv, NEW p \in Procs, StepOf(p), contended' = contended,
         pc[p] = "list", pc'[p] = "now", present' = present, entries'[p] = present
  PROVE  LedgerInv'
<1> SUFFICES ASSUME ~contended' PROVE Ledger(Pruning, Making, Settled, Accounts)'
  BY DEF LedgerInv
<1>1. Ledger(Pruning, Making, Settled, Accounts)
  BY DEF IInv, LedgerInv
<1>2. p \notin Making /\ p \notin Pruning /\ p \notin Making' /\ p \in Pruning'
  BY DEF Making, Pruning, PruneSteps, Removing, RmtreeSteps
<1>3. Making' = Making /\ Pruning' = Pruning \cup {p}
  <2>1. Making' \subseteq Procs /\ Making \subseteq Procs
    BY DEF Making
  <2>2. Pruning' \subseteq Procs /\ Pruning \subseteq Procs
    BY DEF Pruning
  <2> QED
    BY <1>2, <2>1, <2>2, OthersKept
<1>4. \A q \in Making : want'[q] = want[q]
  BY DEF StepOf, Making
<1>5. Settled' = Settled
  BY <1>3, <1>4 DEF Settled
<1>6. Settled \subseteq Accounts'[p]
  <2>1. Accounts'[p] = Accounted(p)'
    BY LedgerSets
  <2>2. Accounted(p)' = entries'[p]
    BY DEF Accounted, LastLoop, Removing, RmtreeSteps
  <2> QED
    BY <2>1, <2>2 DEF Settled
<1>7. \A q \in Pruning : Accounts'[q] = Accounts[q]
  <2>1. \A q \in Pruning : q \in Procs \ {p}
    BY <1>2, LedgerSets
  <2> QED
    BY <2>1, LedgerSets, OthersKept
<1>8. Ledger(Pruning \cup {p}, Making, Settled, Accounts')
  BY <1>1, <1>2, <1>6, <1>7, LedgerSets, LedgerLists
<1> QED
  BY <1>3, <1>5, <1>8 DEF Ledger

\* p found room without pruning.
LEMMA SkippedStep ==
  ASSUME IInv, NEW p \in Procs, StepOf(p), contended' = contended,
         pc[p] = "list", pc'[p] = "mkdir", want'[p] = want[p], present' = present,
         Cardinality(present) < MinNumEntries
  PROVE  LedgerInv'
<1> SUFFICES ASSUME ~contended' PROVE Ledger(Pruning, Making, Settled, Accounts)'
  BY DEF LedgerInv
<1>1. Ledger(Pruning, Making, Settled, Accounts)
  BY DEF IInv, LedgerInv
<1>2. p \notin Making /\ p \notin Pruning /\ p \in Making' /\ p \notin Pruning'
  BY DEF Making, Pruning, PruneSteps, Removing, RmtreeSteps
<1>3. Making' = Making \cup {p} /\ Pruning' = Pruning
  <2>1. Making' \subseteq Procs /\ Making \subseteq Procs
    BY DEF Making
  <2>2. Pruning' \subseteq Procs /\ Pruning \subseteq Procs
    BY DEF Pruning
  <2> QED
    BY <1>2, <2>1, <2>2, OthersKept
<1>4. \A q \in Making : want'[q] = want[q]
  BY <1>2 DEF StepOf, Making
<1>5. Settled' \in SUBSET Settled
  BY <1>3, <1>4 DEF Settled
<1>6. Cardinality(Settled) <= MaxNumEntries - 1
  <2>1. IsFiniteSet(present)
    BY Limits, Counting DEF IInv, TypeOK
  <2>2. Settled \in SUBSET present
    BY DEF Settled
  <2>3. /\ Cardinality(present) \in Nat /\ Cardinality(Settled) \in Nat
        /\ Cardinality(Settled) <= Cardinality(present)
    BY <2>1, <2>2, Counting
  <2> QED
    BY <2>3, SizesAssumption
<1>7. Ledger(Pruning, Making \cup {p}, Settled', Accounts')
  BY <1>1, <1>2, <1>5, <1>6, LedgerSets, LedgerSkips
<1> QED
  BY <1>3, <1>7 DEF Ledger

\* p has done its pruning.
LEMMA PrunedStep ==
  ASSUME IInv, NEW p \in Procs, StepOf(p), contended' = contended,
         pc[p] = "lru", pc'[p] = "mkdir", want'[p] = want[p], present' = present,
         Pruned(p) \/ todo[p] = {}
  PROVE  LedgerInv'
<1> SUFFICES ASSUME ~contended' PROVE Ledger(Pruning, Making, Settled, Accounts)'
  BY DEF LedgerInv
<1>1. Ledger(Pruning, Making, Settled, Accounts)
  BY DEF IInv, LedgerInv
<1>2. p \notin Making /\ p \in Pruning /\ p \in Making' /\ p \notin Pruning'
  BY DEF Making, Pruning, PruneSteps, Removing, RmtreeSteps
<1>3. Making' = Making \cup {p} /\ Pruning' = Pruning \ {p}
  <2>1. Making' \subseteq Procs /\ Making \subseteq Procs
    BY DEF Making
  <2>2. Pruning' \subseteq Procs /\ Pruning \subseteq Procs
    BY DEF Pruning
  <2> QED
    BY <1>2, <2>1, <2>2, OthersKept
<1>4. \A q \in Making : want'[q] = want[q]
  BY <1>2 DEF StepOf, Making
<1>5. Settled' = Settled \ {want[p]}
  BY <1>3, <1>4 DEF Settled
<1>6. want[p] \in Entries /\ victim[p] = NoEntry /\ num[p] = Cardinality(Accounted(p))
  BY DEF IInv, LocalsInv, NumInv, LastLoop, Removing, RmtreeSteps
<1>7. /\ Accounted(p) = todo[p] \cup (entries[p] \cap {want[p], victim[p]})
      /\ entries[p] \subseteq Entries /\ todo[p] \subseteq Entries
  BY DEF Accounted, LastLoop, IInv, TypeOK
<1>8. Accounted(p) \subseteq Entries
  BY <1>7
<1>9. Cardinality(Accounted(p)) < MaxNumEntries \/ Accounted(p) \subseteq {want[p]}
  BY <1>6, <1>7, EntriesAssumption DEF Pruned
<1>10. \A q \in Pruning \ {p} : Accounts'[q] = Accounts[q]
  <2>1. \A q \in Pruning \ {p} : q \in Procs \ {p}
    BY <1>2, LedgerSets
  <2> QED
    BY <2>1, LedgerSets, OthersKept
<1>11. Accounts[p] = Accounted(p)
  BY LedgerSets
<1>12. Ledger(Pruning \ {p}, Making \cup {p}, Settled \ {want[p]}, Accounts')
  BY <1>1, <1>2, <1>6, <1>8, <1>9, <1>10, <1>11, LedgerSets, LedgerEnds
<1> QED
  BY <1>3, <1>5, <1>12 DEF Ledger

\* What the lemmas about the steps show, and what it takes to.
ProcInv(p) == LocalsInv(p) /\ EvictInv(p) /\ NumInv(p)
Kept == Locals /\ (\A p \in Procs : ProcInv(p)) /\ LedgerInv

\* It is enough to look at the process that took the step.
LEMMA StepKeeps ==
  ASSUME IInv, NEW p \in Procs, StepOf(p), contended => contended',
         Locals', ProcInv(p)', LedgerInv'
  PROVE  Kept'
<1>1. \A q \in Procs \ {p} : ProcInv(q)'
  BY OthersKept DEF ProcInv
<1> QED
  BY <1>1 DEF Kept

\* Once a removal has failed the ledger is no longer kept.
LEMMA ContendedStep ==
  ASSUME contended' = TRUE
  PROVE  LedgerInv' /\ \A p \in Procs : NumInv(p)'
  BY DEF LedgerInv, NumInv

\* A process drops what it has: an error, the end of its Runtimes, a crash.
LEMMA DropKeeps ==
  ASSUME IInv, NEW p \in Procs, NEW l \in {"idle", "aborted"}, Drop(p, l),
         present' = present, contended' = contended
  PROVE  Kept'
<1>0. Locals
  BY TypeParts DEF IInv
<1>1. NoAges \in [Entries -> (-MaxTime)..MaxTime] /\ 0 \in 0..Cardinality(Entries)
  BY AgesAssumption, Limits DEF NoAges
<1>2. Locals' /\ StepOf(p)
  BY <1>0, <1>1 DEF Locals, StepOf, Drop, Goto, CloseLock, PruneLocals, PCs, Resting
<1>3. pc'[p] = l /\ num'[p] = 0 /\ victim'[p] = NoEntry
  BY <1>0 DEF Locals, Drop, Goto, PruneLocals
<1>4. ProcInv(p)'
  BY <1>3 DEF ProcInv, LocalsInv, EvictInv, NumInv, LastLoop, InLru, PruneSteps, Removing,
              RmtreeSteps
<1>5. pc'[p] \notin {"mkdir"} \cup PruneSteps
  BY <1>3 DEF PruneSteps, Removing, RmtreeSteps
<1>6. LedgerInv'
  <2>1. CASE pc[p] = "mkdir"
    BY <1>2, <1>5, <2>1, MadeStep
  <2>2. CASE pc[p] # "mkdir"
    BY <1>2, <1>5, <2>2, QuietStep
  <2> QED
    BY <2>1, <2>2
<1> QED
  BY <1>2, <1>4, <1>6, StepKeeps

\* The first steps of a Lookup and those after the entry was made.
LEMMA LookupKeeps ==
  ASSUME IInv, NEW p \in Procs, NEW e \in Entries, Lookup(p, e)
  PROVE  Kept'
<1>0. Locals
  BY TypeParts DEF IInv
<1>1. PICK l \in {"list", "openlock"} : pc' = [pc EXCEPT ![p] = l]
  BY DEF Lookup, Goto
<1>2. /\ want' = [want EXCEPT ![p] = e] /\ pc[p] = "idle" /\ present' = present
      /\ UNCHANGED <<held, ages, entries, todo, num, victim, contended>>
  BY DEF Lookup, prune, fs
<1>3. Locals' /\ StepOf(p)
  BY <1>0, <1>1, <1>2 DEF Locals, StepOf, PCs
<1>4. pc'[p] = l /\ want'[p] = e
  BY <1>0, <1>1, <1>2 DEF Locals
<1>5. num'[p] = 0 /\ victim'[p] = NoEntry
  BY <1>2 DEF IInv, LocalsInv, Removing, RmtreeSteps
<1>6. ProcInv(p)'
  BY <1>4, <1>5 DEF ProcInv, LocalsInv, EvictInv, NumInv, LastLoop, InLru, PruneSteps, Removing,
              RmtreeSteps
<1>7. LedgerInv'
  <2>1. pc'[p] \notin {"mkdir"} \cup PruneSteps
    BY <1>4 DEF PruneSteps, Removing, RmtreeSteps
  <2> QED
    BY <1>2, <1>3, <2>1, QuietStep
<1> QED
  BY <1>2, <1>3, <1>6, <1>7, StepKeeps

\* Steps after pruning, with no locals but where the process is.
AfterPrune == {"opendir", "openlock", "touch", "lock", "using"}

\* A step to one of them, which at most gives back or takes the lock, keeps
\* the invariant.
LEMMA MoveKeeps ==
  ASSUME IInv, NEW p \in Procs, NEW l \in AfterPrune, pc' = [pc EXCEPT ![p] = l],
         pc[p] \in {"mkdir"} \cup AfterPrune,
         held' \in [Procs -> {"no", "shared", "exclusive"}],
         UNCHANGED <<want, ages, entries, todo, num, victim, contended>>,
         present' = present \/ (pc[p] = "mkdir" /\ present' = present \cup {want[p]})
  PROVE  Kept'
<1>0. Locals
  BY TypeParts DEF IInv
<1>1. Locals' /\ StepOf(p)
  BY <1>0 DEF Locals, StepOf, PCs, AfterPrune, Resting
<1>2. pc'[p] = l /\ l \notin {"mkdir"} \cup PruneSteps /\ l \notin {"idle", "aborted"}
  BY <1>0 DEF Locals, AfterPrune, PruneSteps, Removing, RmtreeSteps
<1>3. num'[p] = 0 /\ victim'[p] = NoEntry /\ want'[p] \in Entries
  BY DEF IInv, LocalsInv, Removing, RmtreeSteps, AfterPrune
<1>4. ProcInv(p)'
  BY <1>2, <1>3 DEF ProcInv, LocalsInv, EvictInv, NumInv, LastLoop, InLru, PruneSteps, Removing
<1>5. LedgerInv'
  <2>1. CASE pc[p] = "mkdir"
    BY <1>1, <1>2, <2>1, MadeStep
  <2>2. CASE pc[p] # "mkdir" /\ present' = present
    BY <1>1, <1>2, <2>2, QuietStep
  <2> QED
    BY <2>1, <2>2
<1> QED
  BY <1>1, <1>4, <1>5, StepKeeps

\* The steps of a process that has its directory listing, or never needed one.
LEMMA AfterPruneKeeps ==
  ASSUME IInv, NEW p \in Procs,
         \/ MakeEntry(p) \/ OpenEntry(p) \/ OpenEntryLock(p) \/ UpdateTimes(p) \/ LockEntry(p)
         \/ LookupError(p) \/ Destroy(p) \/ Crash(p) \/ BuildComponent(p)
  PROVE  Kept'
<1>0. Locals
  BY TypeParts DEF IInv
<1>1. CASE \E l \in {"idle", "aborted"} : Drop(p, l) /\ present' = present /\ contended' = contended
  BY <1>1, DropKeeps
<1>2. CASE ReturnError(p) /\ present' = present /\ contended' = contended
  BY <1>1, <1>2 DEF ReturnError
<1>3. CASE MakeEntry(p)
  <2>1. /\ pc' = [pc EXCEPT ![p] = "opendir"] /\ pc[p] = "mkdir"
        /\ present' = present \cup {want[p]}
        /\ UNCHANGED <<want, held, ages, entries, todo, num, victim, contended>>
    BY <1>3 DEF MakeEntry, Goto, prune
  <2> QED
    BY <1>0, <2>1, MoveKeeps DEF AfterPrune, Locals
<1>4. CASE OpenEntry(p)
  <2>1. pc[p] = "opendir" /\ present' = present /\ contended' = contended
    BY <1>4 DEF OpenEntry, fs
  <2>2. CASE /\ pc' = [pc EXCEPT ![p] = "openlock"]
             /\ UNCHANGED <<want, held, ages, entries, todo, num, victim>>
    BY <1>0, <2>1, <2>2, MoveKeeps DEF AfterPrune, Locals
  <2> QED
    BY <1>2, <1>4, <2>1, <2>2 DEF OpenEntry, Goto, prune
<1>5. CASE OpenEntryLock(p)
  <2>1. pc[p] = "openlock" /\ present' = present /\ contended' = contended
    BY <1>5 DEF OpenEntryLock
  <2>2. CASE /\ pc' = [pc EXCEPT ![p] = "touch"]
             /\ UNCHANGED <<want, held, ages, entries, todo, num, victim>>
    BY <1>0, <2>1, <2>2, MoveKeeps DEF AfterPrune, Locals
  <2> QED
    BY <1>2, <1>5, <2>1, <2>2 DEF OpenEntryLock, Goto, prune
<1>6. CASE UpdateTimes(p)
  <2>1. /\ pc' = [pc EXCEPT ![p] = "lock"] /\ pc[p] = "touch" /\ present' = present
        /\ UNCHANGED <<want, held, ages, entries, todo, num, victim, contended>>
    BY <1>6 DEF UpdateTimes, Goto, prune
  <2> QED
    BY <1>0, <2>1, MoveKeeps DEF AfterPrune, Locals
<1>7. CASE LockEntry(p)
  <2>1. pc[p] = "lock" /\ present' = present /\ contended' = contended
    BY <1>7 DEF LockEntry, fs
  <2>2. CASE /\ pc' = [pc EXCEPT ![p] = "using"] /\ held' = [held EXCEPT ![p] = "shared"]
             /\ UNCHANGED <<want, ages, entries, todo, num, victim>>
    <3>1. held' \in [Procs -> {"no", "shared", "exclusive"}]
      BY <1>0, <2>2 DEF Locals
    <3> QED
      BY <2>1, <2>2, <3>1, MoveKeeps DEF AfterPrune
  <2> QED
    BY <1>2, <1>7, <2>1, <2>2 DEF LockEntry, Goto, prune
<1>8. CASE BuildComponent(p)
  <2>1. /\ pc' = [pc EXCEPT ![p] = "using"] /\ pc[p] = "using" /\ present' = present
        /\ UNCHANGED <<want, held, ages, entries, todo, num, victim, contended>>
    BY <1>0, <1>8 DEF BuildComponent, prune, Locals
  <2> QED
    BY <1>0, <2>1, MoveKeeps DEF AfterPrune, Locals
<1>9. CASE LookupError(p)
  BY <1>2, <1>9 DEF LookupError, fs
<1>10. CASE Destroy(p) \/ Crash(p)
  BY <1>1, <1>10 DEF Destroy, Crash, Leave, fs
<1> QED
  BY <1>3, <1>4, <1>5, <1>6, <1>7, <1>8, <1>9, <1>10

----------------------------------------------------------------------------
(* The steps of PruneStaleRuntimes                                          *)

\* Listing the entries.
LEMMA ListKeeps ==
  ASSUME IInv, NEW p \in Procs, ListEntries(p) \/ ListError(p)
  PROVE  Kept'
<1>0. Locals /\ present \subseteq Entries
  BY TypeParts DEF IInv, Files
<1>1. /\ pc[p] = "list" /\ present' = present /\ want[p] \in Entries
      /\ num[p] = 0 /\ victim[p] = NoEntry
      /\ UNCHANGED <<want, held, ages, todo, num, victim>>
  BY DEF ListEntries, ListError, prune, fs, IInv, LocalsInv, Removing, RmtreeSteps
<1>2. CASE pc' = [pc EXCEPT ![p] = "mkdir"] /\ entries' = entries
  <2>1. contended' \in BOOLEAN
    BY <1>0 DEF ListEntries, ListError, Locals
  <2>2. Locals' /\ StepOf(p)
    BY <1>0, <1>1, <1>2, <2>1 DEF Locals, StepOf, PCs
  <2>3. pc'[p] = "mkdir"
    BY <1>0, <1>2 DEF Locals
  <2>4. ProcInv(p)'
    BY <1>1, <2>3 DEF ProcInv, LocalsInv, EvictInv, NumInv, LastLoop, InLru, PruneSteps,
                      Removing, RmtreeSteps
  <2>5. CASE contended' = TRUE
    BY <2>2, <2>4, <2>5, StepKeeps, ContendedStep
  <2>6. CASE Cardinality(present) < MinNumEntries /\ contended' = contended
    BY <1>1, <2>2, <2>3, <2>4, <2>6, StepKeeps, SkippedStep
  <2> QED
    BY <1>0, <2>3, <2>5, <2>6 DEF ListEntries, ListError, Goto, Locals
<1>3. CASE /\ pc' = [pc EXCEPT ![p] = "now"] /\ entries' = [entries EXCEPT ![p] = present]
           /\ contended' = contended
  <2>1. Locals' /\ StepOf(p)
    BY <1>0, <1>1, <1>3 DEF Locals, StepOf, PCs
  <2>2. pc'[p] = "now" /\ entries'[p] = present
    BY <1>0, <1>3 DEF Locals
  <2>3. ProcInv(p)'
    BY <1>1, <2>2 DEF ProcInv, LocalsInv, EvictInv, NumInv, LastLoop, InLru, PruneSteps,
                      Removing, RmtreeSteps
  <2> QED
    BY <1>1, <1>3, <2>1, <2>2, <2>3, StepKeeps, ListedStep
<1> QED
  BY <1>2, <1>3 DEF ListEntries, ListError, Goto, prune

\* Computing the ages.
LEMMA AgesKeeps ==
  ASSUME IInv, NEW p \in Procs, ReadClock(p) \/ ComputeEntryAges(p)
  PROVE  Kept'
<1>0. Locals /\ Files
  BY TypeParts DEF IInv
<1>1. /\ pc[p] \in {"now", "ages"} /\ present' = present /\ want[p] \in Entries
      /\ num[p] = 0 /\ victim[p] = NoEntry
      /\ UNCHANGED <<want, held, entries, num, victim, contended>>
  BY DEF ReadClock, ComputeEntryAges, fs, IInv, LocalsInv, Removing, RmtreeSteps
<1>2. PICK l \in {"ages", "ancient"} : pc' = [pc EXCEPT ![p] = l]
  BY <1>0 DEF ReadClock, ComputeEntryAges, Goto, Locals
<1>3. /\ ages' \in [Procs -> [Entries -> (-MaxTime)..MaxTime]]
      /\ todo' \in [Procs -> SUBSET Entries]
      /\ todo'[p] \subseteq entries[p]
      /\ pc'[p] = "ages" => \A e \in todo'[p] : ages'[p][e] >= 0
      /\ \A q \in Procs \ {p} : ages'[q] = ages[q] /\ todo'[q] = todo[q]
  <2>1. CASE ReadClock(p)
    <3>1. clock \in (-MaxTime)..MaxTime /\ 0 \in (-MaxTime)..MaxTime /\ clock >= 0
      BY <1>0, AgesAssumption DEF Files
    <3> DEFINE a == [e \in Entries |-> IF e \in entries[p] THEN clock ELSE 0]
    <3>2. a \in [Entries -> (-MaxTime)..MaxTime] /\ \A e \in Entries : a[e] >= 0
      BY <3>1
    <3>3. ages' = [ages EXCEPT ![p] = a] /\ todo' = [todo EXCEPT ![p] = entries[p]]
      BY <2>1 DEF ReadClock
    <3>4. entries[p] \in SUBSET Entries
      BY <1>0 DEF Locals
    <3> HIDE DEF a
    <3> QED
      BY <1>0, <3>2, <3>3, <3>4 DEF Locals
  <2>2. CASE /\ pc[p] = "ages" /\ UNCHANGED ages /\ pc' = [pc EXCEPT ![p] = "ancient"]
             /\ todo' = [todo EXCEPT ![p] = {e \in entries[p] : ages[p][e] > MaxEntryAge}]
    <3>1. entries[p] \in SUBSET Entries
      BY <1>0 DEF Locals
    <3>2. pc'[p] = "ancient"
      BY <1>0, <2>2 DEF Locals
    <3> QED
      BY <1>0, <2>2, <3>1, <3>2 DEF Locals
  <2>3. ASSUME NEW e \in todo[p], pc[p] = "ages",
               ages' = [ages EXCEPT ![p][e] = @ - stamp[e]],
               todo' = [todo EXCEPT ![p] = @ \ {e}]
        PROVE  /\ ages' \in [Procs -> [Entries -> (-MaxTime)..MaxTime]]
               /\ todo' \in [Procs -> SUBSET Entries]
               /\ todo'[p] \subseteq entries[p]
               /\ pc'[p] = "ages" => \A f \in todo'[p] : ages'[p][f] >= 0
               /\ \A q \in Procs \ {p} : ages'[q] = ages[q] /\ todo'[q] = todo[q]
    <3>1. todo[p] \subseteq entries[p] /\ \A f \in todo[p] : ages[p][f] >= 0
      BY <2>3 DEF IInv, LocalsInv, PruneSteps
    <3>2. e \in Entries /\ ages[p] \in [Entries -> (-MaxTime)..MaxTime]
      BY <1>0 DEF Locals
    <3>3. ages[p][e] - stamp[e] \in (-MaxTime)..MaxTime
      <4>1. stamp[e] \in 0..MaxTime /\ ages[p][e] \in (-MaxTime)..MaxTime /\ ages[p][e] >= 0
        BY <1>0, <3>1, <3>2 DEF Files
      <4> QED
        BY <4>1, AgesAssumption
    <3> DEFINE a == [ages[p] EXCEPT ![e] = ages[p][e] - stamp[e]]
    <3>4. a \in [Entries -> (-MaxTime)..MaxTime] /\ \A f \in Entries \ {e} : a[f] = ages[p][f]
      BY <3>2, <3>3
    <3>5. ages' = [ages EXCEPT ![p] = a]
      BY <2>3
    <3> HIDE DEF a
    <3>6. ages'[p] = a /\ todo'[p] = todo[p] \ {e} /\ todo[p] \subseteq Entries
      BY <1>0, <2>3, <3>5 DEF Locals
    <3>7. \A f \in todo'[p] : ages'[p][f] >= 0
      BY <3>1, <3>4, <3>6
    <3> QED
      BY <1>0, <2>3, <3>1, <3>4, <3>5, <3>6, <3>7 DEF Locals
  <2> QED
    BY <2>1, <2>2, <2>3 DEF ComputeEntryAges, Goto
<1>4. Locals' /\ StepOf(p)
  BY <1>0, <1>1, <1>2, <1>3 DEF Locals, StepOf, PCs
<1>5. pc'[p] = l
  BY <1>0, <1>2 DEF Locals
<1>6. ProcInv(p)'
  <2>1. LocalsInv(p)'
    BY <1>1, <1>3, <1>5 DEF LocalsInv, InLru, PruneSteps, Removing, RmtreeSteps
  <2>2. EvictInv(p)' /\ NumInv(p)'
    BY <1>5 DEF EvictInv, NumInv, LastLoop, Removing, RmtreeSteps
  <2> QED
    BY <2>1, <2>2 DEF ProcInv
<1>7. LedgerInv'
  <2>1. Accounted(p) = entries[p] /\ Accounted(p)' = entries'[p]
    BY <1>1, <1>5 DEF Accounted, LastLoop, Removing, RmtreeSteps
  <2>2. pc[p] # "mkdir" /\ pc'[p] # "mkdir" /\ pc[p] \in PruneSteps
    BY <1>1, <1>5 DEF PruneSteps
  <2> QED
    BY <1>1, <1>4, <2>1, <2>2, QuietStep
<1> QED
  BY <1>1, <1>4, <1>6, <1>7, StepKeeps

\* The loop over the entries past the age limit, and going on to the last one.
LEMMA AncientKeeps ==
  ASSUME IInv, NEW p \in Procs, RemoveAncient(p)
  PROVE  Kept'
<1>0. Locals
  BY TypeParts DEF IInv
<1>1. /\ pc[p] = "ancient" /\ present' = present /\ want[p] \in Entries
      /\ num[p] = 0 /\ victim[p] = NoEntry /\ todo[p] \subseteq entries[p]
      /\ UNCHANGED <<want, held, ages, entries, contended>>
  BY DEF RemoveAncient, fs, IInv, LocalsInv, Removing, RmtreeSteps, PruneSteps
<1>2. Accounted(p) = entries[p] /\ pc[p] \in PruneSteps /\ pc[p] # "mkdir"
  BY <1>1 DEF Accounted, LastLoop, Removing, RmtreeSteps, PruneSteps
<1>3. ASSUME NEW e \in todo[p], victim' = [victim EXCEPT ![p] = e],
             todo' = [todo EXCEPT ![p] = @ \ {e}], pc' = [pc EXCEPT ![p] = "rmdir"],
             num' = num
      PROVE  Kept'
  <2>1. e \in Entries /\ todo[p] \subseteq Entries
    BY <1>0 DEF Locals
  <2>2. Locals' /\ StepOf(p)
    BY <1>0, <1>1, <1>3, <2>1 DEF Locals, StepOf, PCs, RmtreeSteps
  <2>3. pc'[p] = "rmdir" /\ victim'[p] = e /\ todo'[p] = todo[p] \ {e} /\ num'[p] = 0
    BY <1>0, <1>1, <1>3 DEF Locals
  <2>4. ~InLru(p)' /\ ~LastLoop(p)' /\ Accounted(p)' = entries'[p]
    BY <2>3 DEF InLru, LastLoop, Accounted
  <2>5. ProcInv(p)'
    BY <1>1, <2>3, <2>4 DEF ProcInv, LocalsInv, EvictInv, NumInv, PruneSteps, Removing, RmtreeSteps
  <2>6. LedgerInv'
    BY <1>1, <1>2, <2>2, <2>3, <2>4, QuietStep
  <2> QED
    BY <1>1, <2>2, <2>5, <2>6, StepKeeps
<1>4. ASSUME todo' = [todo EXCEPT ![p] = entries[p]],
             num' = [num EXCEPT ![p] = Cardinality(entries[p])],
             pc' = [pc EXCEPT ![p] = "lru"], victim' = victim
      PROVE  Kept'
  <2>1. entries[p] \in SUBSET Entries /\ Cardinality(entries[p]) \in 0..Cardinality(Entries)
    <3>1. entries[p] \in SUBSET Entries
      BY <1>0 DEF Locals
    <3> QED
      BY <3>1, Limits, Counting
  <2>2. Locals' /\ StepOf(p)
    BY <1>0, <1>1, <1>4, <2>1 DEF Locals, StepOf, PCs
  <2>3. /\ pc'[p] = "lru" /\ victim'[p] = NoEntry /\ todo'[p] = entries[p]
        /\ num'[p] = Cardinality(entries[p])
    BY <1>0, <1>1, <1>4 DEF Locals
  <2>4. Accounted(p)' = entries'[p]
    BY <1>1, <2>3 DEF LastLoop, Accounted
  <2>5. ProcInv(p)'
    BY <1>1, <2>3, <2>4 DEF ProcInv, LocalsInv, EvictInv, NumInv, PruneSteps, Removing, RmtreeSteps
  <2>6. LedgerInv'
    BY <1>1, <1>2, <2>2, <2>3, <2>4, QuietStep
  <2> QED
    BY <1>1, <2>2, <2>5, <2>6, StepKeeps
<1> QED
  BY <1>3, <1>4 DEF RemoveAncient, Goto

\* What holds in the last loop before it looks at an entry.
LEMMA LoopFacts ==
  ASSUME IInv, NEW p \in Procs, pc[p] = "lru"
  PROVE  /\ Locals /\ want[p] \in Entries /\ victim[p] = NoEntry /\ todo[p] \subseteq entries[p]
         /\ entries[p] \subseteq Entries /\ num[p] \in 0..Cardinality(Entries)
         /\ LastLoop(p) /\ pc[p] \in PruneSteps
         /\ Accounted(p) = todo[p] \cup (entries[p] \cap {want[p]})
         /\ IsFiniteSet(Accounted(p))
         /\ ~contended => num[p] = Cardinality(Accounted(p))
         /\ ~Pruned(p) => num[p] >= MaxNumEntries
<1>0. Locals
  BY TypeParts DEF IInv
<1>1. /\ want[p] \in Entries /\ victim[p] = NoEntry /\ todo[p] \subseteq entries[p]
      /\ LastLoop(p) /\ pc[p] \in PruneSteps
  BY DEF IInv, LocalsInv, LastLoop, PruneSteps, Removing, RmtreeSteps
<1>2. entries[p] \subseteq Entries /\ num[p] \in 0..Cardinality(Entries)
  BY <1>0 DEF Locals
<1>3. Accounted(p) = todo[p] \cup (entries[p] \cap {want[p]})
  BY <1>1, <1>2, EntriesAssumption DEF Accounted
<1>4. IsFiniteSet(Accounted(p))
  <2>1. Accounted(p) \in SUBSET Entries
    BY <1>1, <1>2, <1>3
  <2> QED
    BY <2>1, Limits, Counting
<1>5. ~contended => num[p] = Cardinality(Accounted(p))
  BY <1>1 DEF IInv, NumInv
<1>6. ~Pruned(p) => num[p] >= MaxNumEntries
  BY <1>2, Limits DEF Pruned
<1> QED
  BY <1>0, <1>1, <1>2, <1>3, <1>4, <1>5, <1>6

\* The loop ends.
LEMMA LoopEnds ==
  ASSUME IInv, NEW p \in Procs, pc[p] = "lru", Pruned(p) \/ todo[p] = {},
         Goto(p, "mkdir"), PruneLocals(p, NoAges, {}, {}, 0),
         UNCHANGED <<present, want, held, victim, contended>>
  PROVE  Kept'
<1>0. Locals /\ want[p] \in Entries /\ victim[p] = NoEntry
  BY LoopFacts
<1>1. NoAges \in [Entries -> (-MaxTime)..MaxTime] /\ 0 \in 0..Cardinality(Entries)
  BY AgesAssumption, Limits DEF NoAges
<1>2. Locals' /\ StepOf(p)
  BY <1>0, <1>1 DEF Locals, StepOf, Goto, PruneLocals, PCs
<1>3. pc'[p] = "mkdir" /\ num'[p] = 0
  BY <1>0 DEF Locals, Goto, PruneLocals
<1>4. ProcInv(p)'
  BY <1>0, <1>3 DEF ProcInv, LocalsInv, EvictInv, NumInv, LastLoop, InLru, PruneSteps, Removing,
              RmtreeSteps
<1> QED
  BY <1>2, <1>3, <1>4, StepKeeps, PrunedStep

\* The entry that is looked up stays, and is accounted for.
LEMMA LoopSkips ==
  ASSUME IInv, NEW p \in Procs, pc[p] = "lru", NEW e \in todo[p], e = want[p],
         todo' = [todo EXCEPT ![p] = @ \ {e}],
         UNCHANGED <<pc, num, victim, ages, entries, present, want, held, contended>>
  PROVE  Kept'
<1>0. /\ Locals /\ want[p] \in Entries /\ victim[p] = NoEntry /\ todo[p] \subseteq entries[p]
      /\ Accounted(p) = todo[p] \cup (entries[p] \cap {want[p]}) /\ LastLoop(p)
      /\ ~contended => num[p] = Cardinality(Accounted(p))
      /\ pc[p] \in PruneSteps
  BY LoopFacts
<1>1. Locals' /\ StepOf(p) /\ todo'[p] = todo[p] \ {e}
  BY <1>0 DEF Locals, StepOf
<1>2. LastLoop(p)' /\ Accounted(p)' = todo'[p] \cup (entries[p] \cap {want[p], victim[p]})
  BY DEF LastLoop, Accounted
<1>3. Accounted(p)' = Accounted(p)
  BY <1>0, <1>1, <1>2 DEF Accounted
<1>4. ProcInv(p)'
  <2>1. LocalsInv(p)'
    BY <1>0, <1>1 DEF LocalsInv, InLru, PruneSteps, Removing, RmtreeSteps
  <2>2. EvictInv(p)'
    BY DEF EvictInv, Removing, RmtreeSteps
  <2>3. NumInv(p)'
    BY <1>0, <1>3 DEF NumInv
  <2> QED
    BY <2>1, <2>2, <2>3 DEF ProcInv
<1>5. LedgerInv'
  BY <1>0, <1>1, <1>3, QuietStep
<1> QED
  BY <1>1, <1>4, <1>5, StepKeeps

\* An entry that is gone counts as removed.
LEMMA LoopCounts ==
  ASSUME IInv, NEW p \in Procs, pc[p] = "lru", NEW e \in todo[p], e # want[p], e \notin present,
         ~Pruned(p), todo' = [todo EXCEPT ![p] = @ \ {e}], num' = [num EXCEPT ![p] = @ - 1],
         UNCHANGED <<pc, victim, ages, entries, present, want, held, contended>>
  PROVE  Kept'
<1>0. /\ Locals /\ want[p] \in Entries /\ victim[p] = NoEntry /\ todo[p] \subseteq entries[p]
      /\ entries[p] \subseteq Entries /\ num[p] \in 0..Cardinality(Entries)
      /\ Accounted(p) = todo[p] \cup (entries[p] \cap {want[p]}) /\ LastLoop(p)
      /\ IsFiniteSet(Accounted(p))
      /\ ~contended => num[p] = Cardinality(Accounted(p))
      /\ pc[p] \in PruneSteps /\ num[p] >= MaxNumEntries
  BY LoopFacts
<1>1. num[p] - 1 \in 0..Cardinality(Entries)
  BY <1>0, Limits
<1>2. Locals' /\ StepOf(p) /\ todo'[p] = todo[p] \ {e} /\ num'[p] = num[p] - 1
  BY <1>0, <1>1 DEF Locals, StepOf
<1>3. LastLoop(p)' /\ Accounted(p)' = todo'[p] \cup (entries[p] \cap {want[p], victim[p]})
  BY DEF LastLoop, Accounted
<1>4. Accounted(p)' = Accounted(p) \ {e} /\ e \in Accounted(p)
  BY <1>0, <1>2, <1>3, EntriesAssumption
<1>5. ProcInv(p)'
  <2>1. LocalsInv(p)'
    BY <1>0, <1>2 DEF LocalsInv, InLru, PruneSteps, Removing, RmtreeSteps
  <2>2. EvictInv(p)'
    BY DEF EvictInv, Removing, RmtreeSteps
  <2>3. Cardinality(Accounted(p) \ {e}) = Cardinality(Accounted(p)) - 1
    BY <1>0, <1>4, CountingOne
  <2>4. NumInv(p)'
    BY <1>0, <1>2, <1>4, <2>3 DEF NumInv
  <2> QED
    BY <2>1, <2>2, <2>4 DEF ProcInv
<1>6. LedgerInv'
  BY <1>0, <1>2, <1>4, QuietStep
<1> QED
  BY <1>2, <1>5, <1>6, StepKeeps

\* The oldest entry is to be removed.
LEMMA LoopPicks ==
  ASSUME IInv, NEW p \in Procs, pc[p] = "lru", NEW e \in todo[p], e # want[p], OldestOf(p, e),
         ~Pruned(p), todo' = [todo EXCEPT ![p] = @ \ {e}],
         victim' = [victim EXCEPT ![p] = e],
         NEW l \in {"rmdir", "victimlock"}, pc' = [pc EXCEPT ![p] = l],
         UNCHANGED <<num, ages, entries, present, want, held, contended>>
  PROVE  Kept'
<1>0. /\ Locals /\ want[p] \in Entries /\ victim[p] = NoEntry /\ todo[p] \subseteq entries[p]
      /\ entries[p] \subseteq Entries /\ num[p] \in 0..Cardinality(Entries)
      /\ Accounted(p) = todo[p] \cup (entries[p] \cap {want[p]}) /\ LastLoop(p)
      /\ ~contended => num[p] = Cardinality(Accounted(p))
      /\ pc[p] \in PruneSteps /\ num[p] >= MaxNumEntries
  BY LoopFacts
<1>1. e \in Entries
  BY <1>0
<1>2. Locals' /\ StepOf(p)
  BY <1>0, <1>1 DEF Locals, StepOf, PCs, RmtreeSteps
<1>3. todo'[p] = todo[p] \ {e} /\ victim'[p] = e /\ pc'[p] = l /\ l \in Removing
  BY <1>0 DEF Locals, Removing, RmtreeSteps
<1>4. InLru(p)' /\ LastLoop(p)'
  BY <1>0, <1>3, Limits DEF InLru, LastLoop
<1>5. Accounted(p)' = todo'[p] \cup (entries[p] \cap {want[p], victim'[p]})
  BY <1>4 DEF Accounted
<1>6. Accounted(p)' = Accounted(p)
  BY <1>0, <1>3, <1>5
<1>7. ProcInv(p)'
  <2>1. LocalsInv(p)'
    BY <1>0, <1>3, <1>4 DEF LocalsInv, PruneSteps, Removing, RmtreeSteps
  <2>2. EvictInv(p)'
    BY <1>0, <1>3 DEF EvictInv, OldestOf
  <2>3. NumInv(p)'
    BY <1>0, <1>6 DEF NumInv
  <2> QED
    BY <2>1, <2>2, <2>3 DEF ProcInv
<1>8. LedgerInv'
  <2>1. pc[p] # "mkdir" /\ pc'[p] # "mkdir"
    BY <1>3
  <2> QED
    BY <1>0, <1>2, <1>6, <2>1, QuietStep
<1> QED
  BY <1>2, <1>7, <1>8, StepKeeps

\* The last loop.
LEMMA LoopKeeps ==
  ASSUME IInv, NEW p \in Procs, PruneLoop(p)
  PROVE  Kept'
<1>1. pc[p] = "lru" /\ UNCHANGED <<present, want, held, contended>>
  BY DEF PruneLoop
<1>2. CASE /\ Pruned(p) \/ todo[p] = {}
           /\ Goto(p, "mkdir") /\ PruneLocals(p, NoAges, {}, {}, 0) /\ UNCHANGED victim
  BY <1>1, <1>2, LoopEnds
<1>3. ASSUME ~Pruned(p), UNCHANGED <<ages, entries>>, NEW e \in todo[p], OldestOf(p, e),
             todo' = [todo EXCEPT ![p] = @ \ {e}],
             \/ e = want[p] /\ UNCHANGED <<pc, num, victim>>
             \/ e # want[p] /\ e \notin present /\ num' = [num EXCEPT ![p] = @ - 1]
                /\ UNCHANGED <<pc, victim>>
             \/ /\ e # want[p] /\ victim' = [victim EXCEPT ![p] = e] /\ UNCHANGED num
                /\ \E l \in {"rmdir", "victimlock"} : pc' = [pc EXCEPT ![p] = l]
      PROVE  Kept'
  <2>1. CASE e = want[p] /\ UNCHANGED <<pc, num, victim>>
    BY <1>1, <1>3, <2>1, LoopSkips
  <2>2. CASE /\ e # want[p] /\ e \notin present /\ num' = [num EXCEPT ![p] = @ - 1]
             /\ UNCHANGED <<pc, victim>>
    BY <1>1, <1>3, <2>2, LoopCounts
  <2>3. ASSUME e # want[p], victim' = [victim EXCEPT ![p] = e], UNCHANGED num,
               NEW l \in {"rmdir", "victimlock"}, pc' = [pc EXCEPT ![p] = l]
        PROVE  Kept'
    BY <1>1, <1>3, <2>3, LoopPicks
  <2> QED
    BY <1>3, <2>1, <2>2, <2>3
<1> QED
  BY <1>2, <1>3 DEF PruneLoop, Goto

----------------------------------------------------------------------------
(* Removing an entry                                                        *)

\* What holds while an entry is being removed.
LEMMA RemovingFacts ==
  ASSUME IInv, NEW p \in Procs, pc[p] \in Removing
  PROVE  /\ Locals /\ want[p] \in Entries /\ victim[p] \in entries[p] \ todo[p]
         /\ todo[p] \subseteq entries[p] /\ entries[p] \subseteq Entries
         /\ num[p] \in 0..Cardinality(Entries)
         /\ pc[p] # "mkdir" /\ pc[p] \in PruneSteps
         /\ pc[p] = "victimlock" => InLru(p)
<1>0. Locals
  BY TypeParts DEF IInv
<1>1. pc[p] # "mkdir" /\ pc[p] \in PruneSteps \ {"now"} /\ pc[p] \notin {"idle", "aborted"}
  BY DEF PruneSteps, Removing, RmtreeSteps
<1>2. LocalsInv(p)
  BY DEF IInv
<1> QED
  BY <1>0, <1>1, <1>2 DEF Locals, LocalsInv

\* Rmtree goes on.
LEMMA RmtreeGoesOn ==
  ASSUME IInv, NEW p \in Procs, pc[p] \in Removing, NEW l \in RmtreeSteps,
         pc' = [pc EXCEPT ![p] = l], held' \in [Procs -> {"no", "shared", "exclusive"}],
         UNCHANGED <<want, ages, entries, todo, num, victim, present, contended>>
  PROVE  Kept'
<1>0. /\ Locals /\ want[p] \in Entries /\ victim[p] \in entries[p] \ todo[p]
      /\ todo[p] \subseteq entries[p] /\ entries[p] \subseteq Entries
      /\ pc[p] # "mkdir" /\ pc[p] \in PruneSteps
  BY RemovingFacts
<1>1. l \in Removing /\ l # "mkdir" /\ l \in PruneSteps /\ l \in PCs
  BY DEF Removing, RmtreeSteps, PruneSteps, PCs
<1>2. Locals' /\ StepOf(p) /\ pc'[p] = l
  BY <1>0, <1>1 DEF Locals, StepOf
<1>3. (InLru(p)' <=> InLru(p)) /\ (LastLoop(p)' <=> LastLoop(p))
  BY <1>1, <1>2 DEF InLru, LastLoop, Removing, RmtreeSteps
<1>4. Accounted(p)' = Accounted(p)
  BY <1>3 DEF Accounted
<1>5. LocalsInv(p)'
  BY <1>0, <1>1, <1>2 DEF LocalsInv, PruneSteps, Removing, RmtreeSteps
<1>6. EvictInv(p)' /\ NumInv(p)'
  <2>1. EvictInv(p) /\ NumInv(p)
    BY DEF IInv
  <2> QED
    BY <1>1, <1>2, <1>3, <1>4, <2>1 DEF EvictInv, NumInv
<1>7. LedgerInv'
  BY <1>0, <1>1, <1>2, <1>4, QuietStep
<1> QED
  BY <1>2, <1>5, <1>6, <1>7, StepKeeps DEF ProcInv

\* The victim is gone.
LEMMA RemovedKeeps ==
  ASSUME IInv, NEW p \in Procs, pc[p] \in Removing, Removed(p),
         present' \subseteq present, victim[p] \notin present',
         UNCHANGED <<want, ages, todo, contended>>
  PROVE  Kept'
<1>0. /\ Locals /\ want[p] \in Entries /\ victim[p] \in entries[p] \ todo[p]
      /\ todo[p] \subseteq entries[p] /\ entries[p] \subseteq Entries
      /\ num[p] \in 0..Cardinality(Entries)
      /\ pc[p] # "mkdir" /\ pc[p] \in PruneSteps
  BY RemovingFacts
<1>1. /\ held' \in [Procs -> {"no", "shared", "exclusive"}]
      /\ victim' = [victim EXCEPT ![p] = NoEntry]
  BY <1>0 DEF Removed, CloseLock, Locals
<1>2. CASE InLru(p)
  <2>1. num' = [num EXCEPT ![p] = @ - 1] /\ pc' = [pc EXCEPT ![p] = "lru"] /\ entries' = entries
    BY <1>2 DEF Removed, Goto
  <2>2. victim[p] # want[p] /\ num[p] >= MaxNumEntries
    BY <1>2 DEF IInv, EvictInv
  <2>3. num[p] - 1 \in 0..Cardinality(Entries)
    BY <1>0, <2>2, Limits
  <2>4. Locals' /\ StepOf(p)
    BY <1>0, <1>1, <2>1, <2>3 DEF Locals, StepOf, PCs
  <2>5. pc'[p] = "lru" /\ num'[p] = num[p] - 1 /\ victim'[p] = NoEntry
    BY <1>0, <1>1, <2>1 DEF Locals
  <2>6. Accounted(p) = todo[p] \cup (entries[p] \cap {want[p], victim[p]}) /\ LastLoop(p)
    BY <1>2 DEF Accounted, LastLoop
  <2>7. /\ Accounted(p)' = todo[p] \cup (entries[p] \cap {want[p], victim'[p]})
        /\ LastLoop(p)'
    BY <2>1, <2>5 DEF Accounted, LastLoop
  <2>8. Accounted(p)' = Accounted(p) \ {victim[p]} /\ victim[p] \in Accounted(p)
    BY <1>0, <2>2, <2>5, <2>6, <2>7, EntriesAssumption
  <2>9. Cardinality(Accounted(p) \ {victim[p]}) = Cardinality(Accounted(p)) - 1
    <3>1. Accounted(p) \in SUBSET Entries
      BY <1>0, <2>6
    <3>2. IsFiniteSet(Accounted(p))
      BY <3>1, Limits, Counting
    <3> QED
      BY <2>8, <3>2, CountingOne
  <2>10. NumInv(p)'
    <3>1. ~contended => num[p] = Cardinality(Accounted(p))
      BY <2>6 DEF IInv, NumInv
    <3> QED
      BY <2>5, <2>8, <2>9, <3>1 DEF NumInv
  <2>11. LocalsInv(p)' /\ EvictInv(p)'
    BY <1>0, <2>1, <2>5 DEF LocalsInv, EvictInv, InLru, PruneSteps, Removing, RmtreeSteps
  <2>12. LedgerInv'
    <3>1. \A e \in present' : e \in Accounted(p) => e \in Accounted(p)'
      BY <2>8
    <3> QED
      BY <1>0, <2>4, <2>5, <3>1, QuietStep
  <2> QED
    BY <2>4, <2>10, <2>11, <2>12, StepKeeps DEF ProcInv
<1>3. CASE ~InLru(p)
  <2>1. /\ num' = num /\ pc' = [pc EXCEPT ![p] = "ancient"]
        /\ entries' = [entries EXCEPT ![p] = @ \ {victim[p]}]
    BY <1>3 DEF Removed, Goto
  <2>2. Locals' /\ StepOf(p)
    BY <1>0, <1>1, <2>1 DEF Locals, StepOf, PCs
  <2>3. /\ pc'[p] = "ancient" /\ num'[p] = 0 /\ victim'[p] = NoEntry
        /\ entries'[p] = entries[p] \ {victim[p]}
    BY <1>0, <1>1, <1>3, <2>1 DEF Locals, InLru
  <2>4. Accounted(p) = entries[p] /\ Accounted(p)' = entries'[p] /\ ~LastLoop(p)'
    BY <1>3, <2>3 DEF Accounted, LastLoop, Removing, RmtreeSteps
  <2>5. ProcInv(p)'
    BY <1>0, <2>3, <2>4 DEF ProcInv, LocalsInv, EvictInv, NumInv, InLru, PruneSteps, Removing,
                            RmtreeSteps
  <2>6. LedgerInv'
    <3>1. \A e \in present' : e \in Accounted(p) => e \in Accounted(p)'
      BY <2>3, <2>4
    <3> QED
      BY <1>0, <2>2, <2>3, <3>1, QuietStep
  <2> QED
    BY <2>2, <2>5, <2>6, StepKeeps
<1> QED
  BY <1>2, <1>3

\* The entry stays.
LEMMA GivesUp ==
  ASSUME IInv, NEW p \in Procs, pc[p] \in {"lru"} \cup Removing,
         NEW l \in {"lru", "ancient"}, pc' = [pc EXCEPT ![p] = l],
         l = "ancient" => num[p] = 0,
         CloseLock(p), victim' = [victim EXCEPT ![p] = NoEntry],
         todo' \in [Procs -> SUBSET Entries], todo'[p] \subseteq todo[p],
         \A q \in Procs \ {p} : todo'[q] = todo[q],
         contended' = TRUE, UNCHANGED <<want, ages, entries, num>>
  PROVE  Kept'
<1>0. /\ Locals /\ want[p] \in Entries /\ todo[p] \subseteq entries[p]
  BY LoopFacts, RemovingFacts
<1>1. held' \in [Procs -> {"no", "shared", "exclusive"}]
  BY <1>0 DEF CloseLock, Locals
<1>2. Locals' /\ StepOf(p)
  BY <1>0, <1>1 DEF Locals, StepOf, PCs
<1>3. pc'[p] = l /\ victim'[p] = NoEntry
  BY <1>0 DEF Locals
<1>4. LocalsInv(p)' /\ EvictInv(p)'
  BY <1>0, <1>3 DEF LocalsInv, EvictInv, PruneSteps, Removing, RmtreeSteps
<1> QED
  BY <1>2, <1>4, StepKeeps, ContendedStep DEF ProcInv

\* The steps of removing an entry.
LEMMA RemovingKeeps ==
  ASSUME IInv, NEW p \in Procs,
         \/ LockVictim(p) \/ VictimError(p) \/ Rmdir(p) \/ RmOpen(p) \/ RmLock(p)
         \/ RmComponents(p) \/ RmError(p)
  PROVE  Kept'
<1>0. Locals
  BY TypeParts DEF IInv
<1>1. CASE LockVictim(p)
  <2>1. /\ pc[p] = "victimlock" /\ pc[p] \in Removing /\ present' = present
        /\ UNCHANGED <<want, ages, entries, todo, num>>
    BY <1>1 DEF LockVictim, fs, Removing
  <2>2. CASE /\ held' = [held EXCEPT ![p] = "exclusive"] /\ pc' = [pc EXCEPT ![p] = "rmdir"]
             /\ UNCHANGED <<victim, contended>>
    <3>1. held' \in [Procs -> {"no", "shared", "exclusive"}] /\ "rmdir" \in RmtreeSteps
      BY <1>0, <2>2 DEF Locals, RmtreeSteps
    <3> QED
      BY <2>1, <2>2, <3>1, RmtreeGoesOn
  <2>3. CASE /\ CloseLock(p) /\ victim' = [victim EXCEPT ![p] = NoEntry]
             /\ contended' = TRUE /\ pc' = [pc EXCEPT ![p] = "lru"]
    <3>1. todo' \in [Procs -> SUBSET Entries]
      BY <1>0, <2>1 DEF Locals
    <3> QED
      BY <2>1, <2>3, <3>1, GivesUp
  <2> QED
    BY <1>1, <2>2, <2>3 DEF LockVictim, Goto
<1>2. CASE VictimError(p)
  <2>1. /\ pc[p] \in {"lru"} \cup Removing /\ CloseLock(p)
        /\ victim' = [victim EXCEPT ![p] = NoEntry]
        /\ contended' = TRUE /\ pc' = [pc EXCEPT ![p] = "lru"]
        /\ UNCHANGED <<want, ages, entries, num>>
    BY <1>2 DEF VictimError, Goto, Removing
  <2>2. /\ todo' \in [Procs -> SUBSET Entries] /\ todo'[p] \subseteq todo[p]
        /\ \A q \in Procs \ {p} : todo'[q] = todo[q]
    BY <1>0, <1>2 DEF VictimError, Locals
  <2> QED
    BY <2>1, <2>2, GivesUp
<1>3. CASE Rmdir(p)
  <2>1. pc[p] = "rmdir" /\ pc[p] \in Removing /\ UNCHANGED <<want, ages, todo>>
    BY <1>3 DEF Rmdir, Removing, RmtreeSteps
  <2>2. CASE /\ Removed(p) /\ present' \subseteq present /\ victim[p] \notin present'
             /\ UNCHANGED contended
    BY <2>1, <2>2, RemovedKeeps
  <2>3. CASE /\ pc' = [pc EXCEPT ![p] = "rmopen"]
             /\ UNCHANGED <<present, held, entries, num, victim, contended>>
    <3>1. held' \in [Procs -> {"no", "shared", "exclusive"}] /\ "rmopen" \in RmtreeSteps
      BY <1>0, <2>3 DEF Locals, RmtreeSteps
    <3> QED
      BY <2>1, <2>3, <3>1, RmtreeGoesOn
  <2> QED
    BY <1>3, <2>2, <2>3 DEF Rmdir, Goto
<1>4. CASE RmOpen(p)
  <2>1. /\ pc[p] = "rmopen" /\ pc[p] \in Removing /\ present' = present
        /\ UNCHANGED <<want, ages, todo, contended>>
    BY <1>4 DEF RmOpen, Removing, RmtreeSteps, fs
  <2>2. CASE victim[p] \notin present /\ Removed(p)
    BY <2>1, <2>2, RemovedKeeps
  <2>3. CASE pc' = [pc EXCEPT ![p] = "rmlock"] /\ UNCHANGED <<held, entries, num, victim>>
    <3>1. held' \in [Procs -> {"no", "shared", "exclusive"}] /\ "rmlock" \in RmtreeSteps
      BY <1>0, <2>3 DEF Locals, RmtreeSteps
    <3> QED
      BY <2>1, <2>3, <3>1, RmtreeGoesOn
  <2> QED
    BY <1>4, <2>2, <2>3 DEF RmOpen, Goto
<1>5. CASE RmLock(p) \/ RmComponents(p)
  <2>1. PICK l \in {"rmcomp", "rmdir"} : pc' = [pc EXCEPT ![p] = l]
    BY <1>5 DEF RmLock, RmComponents, Goto
  <2>2. /\ pc[p] \in Removing
        /\ UNCHANGED <<want, held, ages, entries, todo, num, victim, present, contended>>
    BY <1>5 DEF RmLock, RmComponents, Removing, RmtreeSteps, prune
  <2>3. held' \in [Procs -> {"no", "shared", "exclusive"}] /\ l \in RmtreeSteps
    BY <1>0, <2>1, <2>2 DEF Locals, RmtreeSteps
  <2> QED
    BY <2>1, <2>2, <2>3, RmtreeGoesOn
<1>6. CASE RmError(p)
  <2>1. /\ pc[p] \in Removing /\ CloseLock(p) /\ victim' = [victim EXCEPT ![p] = NoEntry]
        /\ contended' = TRUE /\ UNCHANGED <<want, ages, entries, todo, num>>
    BY <1>6 DEF RmError, Removing
  <2>2. PICK l \in {"lru", "ancient"} :
          pc' = [pc EXCEPT ![p] = l] /\ (l = "ancient" => num[p] = 0)
    BY <1>6 DEF RmError, Goto, InLru
  <2>3. todo' \in [Procs -> SUBSET Entries]
    BY <1>0, <2>1 DEF Locals
  <2> QED
    BY <2>1, <2>2, <2>3, GivesUp
<1> QED
  BY <1>1, <1>2, <1>3, <1>4, <1>5, <1>6

----------------------------------------------------------------------------
(* The theorems                                                             *)

\* The invariant holds before the first Lookup.
LEMMA InitIInv == Init => IInv
<1> SUFFICES ASSUME Init PROVE IInv
  OBVIOUS
<1>1. Files /\ LockInv
  BY AgesAssumption, EntriesAssumption DEF Init, Files, LockInv
<1>2. Locals
  <2>1. NoAges \in [Entries -> (-MaxTime)..MaxTime] /\ 0 \in 0..Cardinality(Entries)
    BY AgesAssumption, Limits DEF NoAges
  <2>2. ages \in [Procs -> [Entries -> (-MaxTime)..MaxTime]] /\ "idle" \in PCs
    BY <2>1 DEF Init, PCs, Resting
  <2> QED
    BY <2>1, <2>2 DEF Init, Locals
<1>3. \A p \in Procs : pc[p] = "idle" /\ num[p] = 0 /\ victim[p] = NoEntry
  BY DEF Init
<1>4. \A p \in Procs : LocalsInv(p) /\ EvictInv(p) /\ NumInv(p)
  BY <1>3 DEF LocalsInv, EvictInv, NumInv, LastLoop, InLru, PruneSteps, Removing, RmtreeSteps
<1>5. LedgerInv
  <2>1. Making = {} /\ Pruning = {} /\ Settled = {}
    BY <1>3 DEF Making, Pruning, PruneSteps, Removing, RmtreeSteps, Settled, Init
  <2>2. Cardinality(Making) = 0 /\ Cardinality(Settled) = 0
    BY <2>1, FS_EmptySet
  <2>3. ListingOrder(Pruning, [p \in Procs |-> {}])
    BY <2>1 DEF ListingOrder
  <2>4. \A p \in Pruning : Room(Making, Settled, Accounts[p], [q \in Procs |-> {}][p])
    BY <2>1
  <2>5. Cardinality(Making) + Cardinality(Settled) <= MaxNumEntries - 1 + Cardinality(Procs)
    BY <2>2, Limits
  <2> QED
    BY <2>3, <2>4, <2>5 DEF LedgerInv, Ledger
<1> QED
  BY <1>1, <1>2, <1>4, <1>5, TypeParts DEF IInv

\* Every step of every process keeps it.
LEMMA NextIInv == IInv /\ [Next]_vars => IInv'
<1> SUFFICES ASSUME IInv, [Next]_vars PROVE IInv'
  OBVIOUS
<1>1. CASE Next
  <2>1. Files' /\ LockInv'
    BY <1>1, NextFiles
  <2>2. Kept'
    <3>1. CASE Tick
      <4>1. /\ UNCHANGED <<present, pc, want, held, ages, entries, todo, num, victim, contended>>
        BY <3>1 DEF Tick, fs, prune
      <4>2. Locals /\ Locals'
        BY <4>1, TypeParts DEF IInv, Locals
      <4>3. \A p \in Procs : ProcInv(p)'
        <5>1. \A p \in Procs : LocalsInv(p) /\ EvictInv(p) /\ NumInv(p)
          BY DEF IInv
        <5> QED
          BY <4>1, <5>1 DEF ProcInv, LocalsInv, EvictInv, NumInv, Accounted, LastLoop, InLru
      <4>4. LedgerInv'
        <5>1. /\ Making' = Making /\ Pruning' = Pruning /\ Accounts' = Accounts
              /\ Settled' = Settled
          BY <4>1 DEF Making, Pruning, Accounts, Accounted, LastLoop, InLru, Settled
        <5>2. LedgerInv
          BY DEF IInv
        <5> QED
          BY <4>1, <5>1, <5>2 DEF LedgerInv, Ledger
      <4> QED
        BY <4>2, <4>3, <4>4 DEF Kept
    <3>2. ASSUME NEW p \in Procs, NEW e \in Entries, Lookup(p, e)
          PROVE  Kept'
      BY <3>2, LookupKeeps
    <3>3. ASSUME NEW p \in Procs, ListEntries(p) \/ ListError(p)
          PROVE  Kept'
      BY <3>3, ListKeeps
    <3>4. ASSUME NEW p \in Procs, ReadClock(p) \/ ComputeEntryAges(p)
          PROVE  Kept'
      BY <3>4, AgesKeeps
    <3>5. ASSUME NEW p \in Procs, RemoveAncient(p)
          PROVE  Kept'
      BY <3>5, AncientKeeps
    <3>6. ASSUME NEW p \in Procs, PruneLoop(p)
          PROVE  Kept'
      BY <3>6, LoopKeeps
    <3>7. ASSUME NEW p \in Procs,
                 \/ LockVictim(p) \/ VictimError(p) \/ Rmdir(p) \/ RmOpen(p) \/ RmLock(p)
                 \/ RmComponents(p) \/ RmError(p)
          PROVE  Kept'
      BY <3>7, RemovingKeeps
    <3>8. ASSUME NEW p \in Procs,
                 \/ MakeEntry(p) \/ OpenEntry(p) \/ OpenEntryLock(p) \/ UpdateTimes(p)
                 \/ LockEntry(p) \/ LookupError(p) \/ Destroy(p) \/ Crash(p) \/ BuildComponent(p)
          PROVE  Kept'
      BY <3>8, AfterPruneKeeps
    <3> QED
      BY <1>1, <3>1, <3>2, <3>3, <3>4, <3>5, <3>6, <3>7, <3>8 DEF Next, Progress
  <2>3. TypeOK'
    BY <2>1, <2>2, TypeParts DEF Kept, TypeOK, Files, Locals
  <2> QED
    BY <2>1, <2>2, <2>3 DEF Kept, ProcInv, IInv
<1>2. CASE UNCHANGED vars
  <2>1. /\ UNCHANGED <<clock, present, stamp, comp, pc, want, dir, lk, held, ages>>
        /\ UNCHANGED <<entries, todo, num, victim, contended>>
    BY <1>2 DEF vars, fs, prune
  <2>2. TypeOK' /\ LockInv'
    BY <2>1 DEF IInv, TypeOK, LockInv
  <2>3. \A p \in Procs : (LocalsInv(p) /\ EvictInv(p) /\ NumInv(p))'
    <3>1. \A p \in Procs : LocalsInv(p) /\ EvictInv(p) /\ NumInv(p)
      BY DEF IInv
    <3> QED
      BY <2>1, <3>1 DEF LocalsInv, EvictInv, NumInv, Accounted, LastLoop, InLru
  <2>4. LedgerInv'
    <3>1. /\ Making' = Making /\ Pruning' = Pruning /\ Accounts' = Accounts /\ Settled' = Settled
      BY <2>1 DEF Making, Pruning, Accounts, Accounted, LastLoop, InLru, Settled
    <3>2. LedgerInv
      BY DEF IInv
    <3> QED
      BY <2>1, <3>1, <3>2 DEF LedgerInv, Ledger
  <2> QED
    BY <2>2, <2>3, <2>4 DEF IInv
<1> QED
  BY <1>1, <1>2

\* IInv holds in every reachable state, whatever the processes look up,
\* whichever calls fail and whoever crashes.
THEOREM Inductive == Spec => []IInv
<1> QED
  BY InitIInv, NextIInv, PTL DEF Spec

\* Every variable keeps its type: no lock file outlives its directory, and
\* num_entries stays within the entries there are.
THEOREM TypesHold == Spec => []TypeOK
<1>1. IInv => TypeOK
  BY DEF IInv
<1> QED
  BY <1>1, Inductive, PTL

\* Pruning bounds the cache for any number of concurrent Lookups: unless some
\* entry that was picked could not be removed, there are never more than
\* MaxNumEntries - 1 entries and one for every process.
THEOREM PruningBoundsCache == Spec => []CacheBounded
<1>1. IInv => CacheBounded
  <2> SUFFICES ASSUME IInv, ~contended
               PROVE  Cardinality(present) <= MaxNumEntries - 1 + Cardinality(Procs)
    BY DEF CacheBounded
  <2> DEFINE Wanted == {want[q] : q \in Making}
             f == [q \in Making |-> want[q]]
  <2>1. /\ IsFiniteSet(Making) /\ IsFiniteSet(Settled)
        /\ Cardinality(Making) \in Nat /\ Cardinality(Settled) \in Nat
    BY LedgerSets, Limits, Counting
  <2>2. f \in Surjection(Making, Wanted)
    BY DEF Surjection
  <2>3. IsFiniteSet(Wanted) /\ Cardinality(Wanted) <= Cardinality(Making)
    <3> HIDE DEF f, Wanted
    <3> QED
      BY <2>1, <2>2, FS_Surjection
  <2>4. present \in SUBSET (Settled \cup Wanted)
    BY DEF Settled
  <2> HIDE DEF Wanted, f
  <2>5. /\ IsFiniteSet(Settled \cup Wanted)
        /\ Cardinality(Settled \cup Wanted) =
             Cardinality(Settled) + Cardinality(Wanted) - Cardinality(Settled \cap Wanted)
    BY <2>1, <2>3, FS_Union
  <2>6. Cardinality(present) <= Cardinality(Settled \cup Wanted)
    BY <2>4, <2>5, Counting
  <2>7. Cardinality(Settled \cap Wanted) \in Nat /\ Cardinality(Wanted) \in Nat
    BY <2>1, <2>3, Counting
  <2>8. Cardinality(present) \in Nat /\ Cardinality(Settled \cup Wanted) \in Nat
    BY <2>4, <2>5, Counting
  <2>9. Cardinality(Making) + Cardinality(Settled) <= MaxNumEntries - 1 + Cardinality(Procs)
    BY DEF IInv, LedgerInv, Ledger
  <2> QED
    BY <2>1, <2>3, <2>5, <2>6, <2>7, <2>8, <2>9, Limits
<1> QED
  BY <1>1, Inductive, PTL

\* Below the age limit a prune removes the least recently used: whatever the
\* ages it computed, it removes an entry only if MaxNumEntries entries would
\* have to stay that are no older or are the one it looks up.
THEOREM PruningIsLRU == Spec => []PruneIsLRU
<1>1. IInv => PruneIsLRU
  <2> SUFFICES ASSUME IInv, NEW p \in Procs, pc[p] \in RmtreeSteps, InLru(p), ~contended
               PROVE  Cardinality({e \in entries[p] : e = want[p] \/ ages[p][e] <= ages[p][victim[p]]})
                        >= MaxNumEntries
    BY DEF PruneIsLRU
  <2> DEFINE S == {e \in entries[p] : e = want[p] \/ ages[p][e] <= ages[p][victim[p]]}
  <2>1. pc[p] \in Removing
    BY DEF Removing
  <2>2. /\ Locals /\ victim[p] \in entries[p] /\ todo[p] \subseteq entries[p]
        /\ entries[p] \subseteq Entries
    BY <2>1, RemovingFacts
  <2>3. /\ num[p] >= MaxNumEntries /\ \A f \in todo[p] : ages[p][f] <= ages[p][victim[p]]
    BY <2>1 DEF IInv, EvictInv
  <2>4. /\ Accounted(p) = todo[p] \cup (entries[p] \cap {want[p], victim[p]})
        /\ num[p] = Cardinality(Accounted(p))
    BY <2>1 DEF IInv, NumInv, LastLoop, Accounted
  <2>5. ages[p][victim[p]] <= ages[p][victim[p]]
    <3>1. ages[p][victim[p]] \in Int
      BY <2>2, AgesAssumption DEF Locals
    <3> QED
      BY <3>1
  <2>6. Accounted(p) \in SUBSET S
    BY <2>2, <2>3, <2>4, <2>5
  <2>7. IsFiniteSet(S)
    BY <2>2, Limits, Counting
  <2> HIDE DEF S
  <2>8. Cardinality(Accounted(p)) <= Cardinality(S) /\ Cardinality(S) \in Nat
    BY <2>6, <2>7, Counting
  <2>9. Cardinality(Accounted(p)) \in Nat
    BY <2>6, <2>7, Counting
  <2> QED
    BY <2>3, <2>4, <2>8, <2>9, Limits DEF S
<1> QED
  BY <1>1, Inductive, PTL
=============================================================================
