------------------------ MODULE CheckSchedulingProofs ------------------------
(***************************************************************************)
(* Proofs about CheckScheduling for any number of files and any programs:  *)
(* imports are checked first, every file is checked once, only cycles cost *)
(* imports and the records of imports agree.                               *)
(***************************************************************************)
EXTENDS CheckScheduling, FiniteSetTheorems, SequenceTheorems, TLAPS

----------------------------------------------------------------------------
(* The inductive invariant                                                  *)

\* The types of the per-unit tables, which are functions, and of the rest.
Tables ==
  /\ pkgs = [u \in Units |-> pkgs[u]]
  /\ imports = [u \in Units |-> imports[u]]
  /\ loadError = [u \in Units |-> loadError[u]]
  /\ remaining \in [Units -> Nat]
  /\ incoming \in [Units -> Seq(Units)]
  /\ apiFor \in [Units -> Units \cup {0}]
Scalars ==
  /\ program \in Programs
  /\ pc \in PCs
  /\ unit \in 1..(N + 1)
  /\ k \in Nat \ {0}
  /\ apis \in SUBSET Units
  /\ cppImports \in SUBSET Units
  /\ ready \in Seq(Units)
  /\ idx \in Nat \ {0}
  /\ j \in Nat \ {0}
  /\ order \in Seq(Units)
Types == Tables /\ Scalars

\* What is recorded about a package is about one in package_imports.
PkgInv ==
  \A u \in Units :
    /\ \A imp \in imports[u] : imp.unit \in Units /\ imp.pkg \in pkgs[u]
    /\ loadError[u] \subseteq pkgs[u]

\* A place in a list of incoming imports, of those there can be.
Places == Units \X (Nat \ {0})

\* u waits for the unit of a place that lists it.
Listed(e, u) == e[2] <= Len(incoming[e[1]]) /\ incoming[e[1]][e[2]] = u
WaitsFor(u, v) == \E i \in DOMAIN incoming[v] : incoming[v][i] = u

\* The places CheckReady and Notify have been through.
Processed(v) == \E m \in 1..Len(ready) : m < idx /\ ready[m] = v
Notified(e) == Processed(e[1]) \/ (pc = "notify" /\ e[1] = ready[idx] /\ e[2] < j)
Pending(u) == {e \in Places : Listed(e, u) /\ ~Notified(e)}

\* imports_remaining counts the notifications that are still to come.
CountInv ==
  \A u \in Units : IsFiniteSet(Pending(u)) /\ remaining[u] = Cardinality(Pending(u))

\* ready_to_check lists the units that wait for nothing, each once.
ReadyInv ==
  /\ \A m, n \in 1..Len(ready) : ready[m] = ready[n] => m = n
  /\ \A m \in 1..Len(ready) : remaining[ready[m]] = 0
  /\ pc = "apis" => ready = <<>>
  /\ pc = "track" => \A m \in 1..Len(ready) : ready[m] < unit
  /\ pc = "track" => \A u \in Units : u < unit /\ remaining[u] = 0 => u \in Range(ready)
  /\ pc \notin {"apis", "track"} =>
       \A u \in Units : remaining[u] = 0 => u \in Range(ready)

\* What has been checked: a prefix of ready_to_check, then the rest.
OrderInv ==
  /\ pc \in {"apis", "track"} => idx = 1 /\ order = <<>>
  /\ pc = "check" => idx <= Len(ready) + 1 /\ Len(order) = idx - 1
  /\ pc = "notify" => idx <= Len(ready) /\ Len(order) = idx
  /\ pc \in {"mask", "rest", "done"} => idx = Len(ready) + 1 /\ Len(order) >= Len(ready)
  /\ pc = "mask" => Len(order) = Len(ready)
  /\ \A m \in 1..Len(order) : m <= Len(ready) => order[m] = ready[m]
  /\ \A m \in 1..Len(order) : m > Len(ready) => remaining[order[m]] > 0
  /\ \A m, n \in 1..Len(order) : order[m] = order[n] => m = n
  /\ pc = "rest" => \A m \in 1..Len(order) : m > Len(ready) => order[m] < unit
  /\ pc = "rest" => \A u \in Units : u < unit /\ remaining[u] > 0 => u \in checked
  /\ pc = "done" => checked = Units

\* An import and the place that lists it exist together until it is masked.
Masked(u) == remaining[u] > 0 /\ (pc \in {"rest", "done"} \/ (pc = "mask" /\ u < unit))
LinkInv ==
  \A u, v \in Units :
    (\E imp \in imports[u] : imp.unit = v) <=>
       (WaitsFor(u, v) /\ (Masked(u) => v \in Range(ready)))

\* A set of units that wait for each other.
Closed(S) == \A u \in S : \E v \in S : WaitsFor(u, v)
CycleInv == \A S \in SUBSET Units : Closed(S) => S \cap Range(ready) = {}

RecordInv ==
  /\ \A u \in Units : apiFor[u] # 0 => \E imp \in imports[u] : imp.unit = apiFor[u]
  /\ \A u \in Units : \A p \in pkgs[u] :
       p \in loadError[u] \/ \E imp \in imports[u] : imp.pkg = p

IInv == Types /\ PkgInv /\ CountInv /\ ReadyInv /\ OrderInv /\ LinkInv /\ CycleInv /\ RecordInv

----------------------------------------------------------------------------
(* Types                                                                    *)

\* The types hold initially.
LEMMA InitTypes == Init => Types /\ PkgInv
  BY NAssumption DEF Init, Types, Tables, Scalars, PkgInv, Units, PCs

\* The place Notify goes through is still pending, so it was counted.
LEMMA NotifyCounted ==
  ASSUME Types, OrderInv, ReadyInv, CountInv, Notify
  PROVE  /\ idx \in 1..Len(ready) /\ ready[idx] \in Units
         /\ incoming[ready[idx]][j] \in Units
         /\ <<ready[idx], j>> \in Pending(incoming[ready[idx]][j])
         /\ remaining[incoming[ready[idx]][j]] > 0
<1>1. idx \in 1..Len(ready) /\ ready[idx] \in Units
  BY DEF Notify, Types, Scalars, OrderInv
<1> DEFINE r == ready[idx]  v == incoming[r][j]
<1>2. j \in 1..Len(incoming[r]) /\ v \in Units
  <2>1. incoming[r] \in Seq(Units)
    BY <1>1 DEF Types, Tables
  <2>2. j \in 1..Len(incoming[r])
    BY <2>1 DEF Notify, Types, Scalars
  <2> QED
    BY <2>1, <2>2
<1>3. ~Notified(<<r, j>>)
  BY <1>1, <1>2 DEF Notified, Processed, ReadyInv, Types, Scalars
<1>4. <<r, j>> \in Pending(v)
  BY <1>1, <1>2, <1>3 DEF Pending, Places, Listed
<1>5. Pending(v) # {} /\ IsFiniteSet(Pending(v)) /\ remaining[v] = Cardinality(Pending(v))
  BY <1>2, <1>4 DEF CountInv
<1>6. remaining[v] # 0 /\ remaining[v] \in Nat
  BY <1>2, <1>5, FS_EmptySet DEF Types, Tables
<1> QED
  BY <1>1, <1>2, <1>4, <1>6

\* Every step of CheckParseTrees keeps the types.
LEMMA NextTypes == IInv /\ [Next]_vars => Types'
<1> SUFFICES ASSUME IInv, [Next]_vars PROVE Types'
  OBVIOUS
<1> USE NAssumption DEF IInv, Types, PCs, tracking
<1>1. CASE BuildApiMap
  <2> USE <1>1 DEF BuildApiMap
  <2>1. Tables'
    BY DEF Tables
  <2>2. Scalars'
    <3>1. CASE unit <= N
      <4>1. unit \in Units /\ unit + 1 \in 1..(N + 1)
        BY <3>1 DEF Scalars, Units
      <4> QED
        BY <3>1, <4>1 DEF Scalars
    <3>2. CASE ~(unit <= N)
      BY <3>2 DEF Scalars
    <3> QED
      BY <3>1, <3>2
  <2> QED
    BY <2>1, <2>2
<1>2. CASE TrackCpp
  <2> USE <1>2 DEF TrackCpp, Tracking
  <2>1. Tables'
    BY DEF Tables
  <2>2. Scalars'
    <3>1. unit \in Units
      BY DEF Scalars, Units
    <3> QED
      BY <3>1 DEF Scalars
  <2> QED
    BY <2>1, <2>2
<1>3. CASE TrackRejected
  <2> USE <1>3 DEF TrackRejected, Tracking
  <2>1. Tables'
    BY DEF Tables
  <2>2. Scalars'
    BY DEF Scalars
  <2> QED
    BY <2>1, <2>2
<1>4. CASE TrackFound
  <2> USE <1>4 DEF TrackFound, Accepted, Tracking
  <2>1. Tables'
    <3> PICK v \in apis :
          /\ imports' = [imports EXCEPT ![unit] = @ \cup {[pkg |-> Import.pkg, unit |-> v]}]
          /\ remaining' = [remaining EXCEPT ![unit] = @ + 1]
          /\ incoming' = [incoming EXCEPT ![v] = Append(@, unit)]
          /\ apiFor' = IF Import.explicit THEN apiFor ELSE [apiFor EXCEPT ![unit] = v]
      OBVIOUS
    <3>1. v \in Units /\ unit \in Units
      BY DEF Scalars, Units
    <3>2. remaining' \in [Units -> Nat]
      BY <3>1 DEF Tables
    <3>3. incoming' \in [Units -> Seq(Units)]
      <4>1. Append(incoming[v], unit) \in Seq(Units)
        BY <3>1 DEF Tables
      <4> QED
        BY <4>1 DEF Tables
    <3>4. apiFor' \in [Units -> Units \cup {0}]
      BY <3>1 DEF Tables
    <3> QED
      BY <3>1, <3>2, <3>3, <3>4 DEF Tables
  <2>2. Scalars'
    BY DEF Scalars
  <2> QED
    BY <2>1, <2>2
<1>5. CASE TrackMissing
  <2> USE <1>5 DEF TrackMissing, Accepted, Tracking
  <2>1. Tables'
    BY DEF Tables, Scalars
  <2>2. Scalars'
    BY DEF Scalars
  <2> QED
    BY <2>1, <2>2
<1>6. CASE FinishTracking
  <2> USE <1>6 DEF FinishTracking
  <2>1. Tables'
    BY DEF Tables
  <2>2. Scalars'
    <3>1. unit \in Units /\ unit' \in 1..(N + 1)
      BY DEF Scalars, Units
    <3>2. ready' \in Seq(Units)
      BY <3>1 DEF Scalars
    <3> QED
      BY <3>1, <3>2 DEF Scalars
  <2> QED
    BY <2>1, <2>2
<1>7. CASE StartChecking
  <2> USE <1>7 DEF StartChecking
  <2>1. Tables'
    BY DEF Tables
  <2>2. Scalars'
    BY DEF Scalars
  <2> QED
    BY <2>1, <2>2
<1>8. CASE CheckReady
  <2> USE <1>8 DEF CheckReady
  <2>1. Tables'
    BY DEF Tables
  <2>2. Scalars'
    BY DEF Tables, Scalars
  <2> QED
    BY <2>1, <2>2
<1>9. CASE Notify
  <2> DEFINE v == incoming[ready[idx]][j]
  <2>0. v \in Units /\ remaining[v] > 0
    BY <1>9, NotifyCounted
  <2>1. Tables'
    <3>1. remaining[v] - 1 \in Nat
      BY <2>0 DEF Tables
    <3>2. remaining' \in [Units -> Nat]
      BY <1>9, <2>0, <3>1 DEF Notify, Tables
    <3> QED
      BY <1>9, <3>2 DEF Notify, Tables
  <2>2. Scalars'
    <3>1. ready' \in Seq(Units)
      BY <1>9, <2>0 DEF Notify, Scalars
    <3> QED
      BY <1>9, <3>1 DEF Notify, Scalars
  <2> QED
    BY <2>1, <2>2
<1>10. CASE FinishNotify
  <2> USE <1>10 DEF FinishNotify
  <2>1. Tables'
    BY DEF Tables
  <2>2. Scalars'
    BY DEF Scalars
  <2> QED
    BY <2>1, <2>2
<1>11. CASE FinishReady
  <2> USE <1>11 DEF FinishReady
  <2>1. Tables'
    BY DEF Tables
  <2>2. Scalars'
    BY DEF Scalars
  <2> QED
    BY <2>1, <2>2
<1>12. CASE MaskUnit
  <2> USE <1>12 DEF MaskUnit, Unchecked
  <2>1. Tables'
    BY DEF Tables, Scalars
  <2>2. Scalars'
    BY DEF Scalars
  <2> QED
    BY <2>1, <2>2
<1>13. CASE FinishMask
  <2> USE <1>13 DEF FinishMask
  <2>1. Tables'
    BY DEF Tables
  <2>2. Scalars'
    BY DEF Scalars
  <2> QED
    BY <2>1, <2>2
<1>14. CASE CheckRest
  <2> USE <1>14 DEF CheckRest
  <2>1. Tables'
    BY DEF Tables
  <2>2. Scalars'
    <3>1. unit \in Units /\ unit' \in 1..(N + 1)
      BY DEF Scalars, Units
    <3>2. order' \in Seq(Units)
      BY <3>1 DEF Scalars
    <3> QED
      BY <3>1, <3>2 DEF Scalars
  <2> QED
    BY <2>1, <2>2
<1>15. CASE Finish
  <2> USE <1>15 DEF Finish
  <2>1. Tables'
    BY DEF Tables
  <2>2. Scalars'
    BY DEF Scalars
  <2> QED
    BY <2>1, <2>2
<1>16. CASE UNCHANGED vars
  BY <1>16 DEF vars, Tables, Scalars
<1> QED
  BY <1>1, <1>2, <1>3, <1>4, <1>5, <1>6, <1>7, <1>8, <1>9, <1>10, <1>11, <1>12, <1>13, <1>14, <1>15, <1>16 DEF Next

----------------------------------------------------------------------------
(* imports_remaining                                                        *)

\* Steps that touch neither the lists of incoming imports nor the loop over
\* ready_to_check leave what is pending as it is.
LEMMA QuietCount ==
  ASSUME CountInv, UNCHANGED <<incoming, ready, idx, remaining>>,
         pc # "notify", pc' # "notify"
  PROVE  CountInv'
<1>1. \A u \in Units : Pending(u)' = Pending(u)
  BY DEF Pending, Listed, Notified, Processed
<1> QED
  BY <1>1 DEF CountInv

\* Every step keeps the count of notifications to come.
LEMMA NextCount == ASSUME IInv, Types', [Next]_vars PROVE CountInv'
<1> USE DEF IInv
<1>1. CASE \/ BuildApiMap \/ TrackCpp \/ TrackRejected \/ TrackMissing
           \/ StartChecking \/ FinishReady \/ MaskUnit \/ FinishMask
           \/ CheckRest \/ Finish
  <2>1. UNCHANGED <<incoming, ready, idx, remaining>> /\ pc # "notify" /\ pc' # "notify"
    BY <1>1 DEF BuildApiMap, TrackCpp, TrackRejected, TrackMissing, StartChecking,
         FinishReady, MaskUnit, FinishMask, CheckRest, Finish, Tracking, Accepted
  <2> QED
    BY <2>1, QuietCount
<1>2. CASE TrackFound
  <2>1. PICK v \in apis :
          /\ remaining' = [remaining EXCEPT ![unit] = @ + 1]
          /\ incoming' = [incoming EXCEPT ![v] = Append(@, unit)]
    BY <1>2 DEF TrackFound
  <2>2. v \in Units /\ unit \in Units /\ incoming[v] \in Seq(Units)
    BY <1>2, NAssumption DEF TrackFound, Accepted, Tracking, Types, Tables, Scalars, Units
  <2>3. PICK x \in Units, n \in Nat \ {0} : x = unit /\ n = Len(incoming[v]) + 1
    BY <2>2
  <2> DEFINE e == <<v, n>>
  <2>4. e \in Places
    BY <2>2 DEF Places
  <2>5. \A f \in Places : ~Notified(f) /\ ~Notified(f)'
    BY <1>2 DEF TrackFound, Accepted, Tracking, Notified, Processed, OrderInv
  <2>6. \A f \in Places, u \in Units :
          Listed(f, u)' <=> Listed(f, u) \/ (f = e /\ u = x)
    <3> SUFFICES ASSUME NEW f \in Places, NEW u \in Units
                 PROVE  Listed(f, u)' <=> Listed(f, u) \/ (f = e /\ u = x)
      OBVIOUS
    <3>1. f = <<f[1], f[2]>> /\ f[1] \in Units /\ f[2] \in Nat \ {0}
      BY DEF Places
    <3>2. CASE f[1] # v
      BY <2>1, <2>2, <3>1, <3>2 DEF Listed, Types, Tables
    <3>3. CASE f[1] = v
      <4>1. incoming'[v] = Append(incoming[v], x)
        BY <2>1, <2>2, <2>3 DEF Types, Tables
      <4>2. CASE f[2] <= Len(incoming[v])
        BY <2>2, <2>3, <3>1, <3>3, <4>1, <4>2 DEF Listed
      <4>3. CASE f[2] = n
        BY <2>2, <2>3, <3>1, <3>3, <4>1, <4>3 DEF Listed
      <4>4. CASE f[2] > n
        BY <2>2, <2>3, <3>1, <3>3, <4>1, <4>4 DEF Listed
      <4> QED
        BY <2>2, <2>3, <3>1, <4>2, <4>3, <4>4
    <3> QED
      BY <3>2, <3>3
  <2>7. ~Listed(e, x)
    BY <2>2, <2>3 DEF Listed
  <2>8. Pending(x)' = Pending(x) \cup {e} /\ e \notin Pending(x)
    BY <2>4, <2>5, <2>6, <2>7 DEF Pending
  <2>9. \A u \in Units : u # x => Pending(u)' = Pending(u)
    BY <2>5, <2>6 DEF Pending
  <2>10. /\ IsFiniteSet(Pending(x) \cup {e})
         /\ Cardinality(Pending(x) \cup {e}) = Cardinality(Pending(x)) + 1
    BY <2>8, FS_AddElement DEF CountInv
  <2>11. \A u \in Units : remaining'[u] = IF u = x THEN remaining[u] + 1 ELSE remaining[u]
    BY <2>1, <2>3 DEF Types, Tables
  <2> HIDE DEF e
  <2> QED
    BY <2>8, <2>9, <2>10, <2>11 DEF CountInv
<1>3. CASE FinishTracking
  <2>1. \A f \in Places : ~Notified(f) /\ ~Notified(f)'
    BY <1>3 DEF FinishTracking, Notified, Processed, OrderInv
  <2>2. \A f \in Places, u \in Units : Listed(f, u)' <=> Listed(f, u)
    BY <1>3 DEF FinishTracking, Listed
  <2>3. \A u \in Units : Pending(u)' = Pending(u)
    BY <2>1, <2>2 DEF Pending
  <2> QED
    BY <1>3, <2>3 DEF FinishTracking, CountInv
<1>4. CASE CheckReady
  <2>1. \A f \in Places : Notified(f)' <=> Notified(f)
    BY <1>4 DEF CheckReady, Notified, Processed, Places
  <2>2. \A f \in Places, u \in Units : Listed(f, u)' <=> Listed(f, u)
    BY <1>4 DEF CheckReady, Listed
  <2>3. \A u \in Units : Pending(u)' = Pending(u)
    BY <2>1, <2>2 DEF Pending
  <2> QED
    BY <1>4, <2>3 DEF CheckReady, CountInv
<1>5. CASE Notify
  <2>1. PICK r \in Units, n \in Nat, v \in Units :
          /\ idx \in 1..Len(ready) /\ r = ready[idx] /\ n = j /\ v = incoming[r][n]
          /\ <<r, n>> \in Pending(v)
    BY <1>5, NotifyCounted DEF Types, Scalars
  <2> DEFINE e == <<r, n>>
  <2>2. \A m \in 1..Len(ready) : ready'[m] = ready[m]
    BY <1>5, <2>1 DEF Notify, Types, Scalars
  <2>3. Len(ready') \in {Len(ready), Len(ready) + 1} /\ idx' = idx
    BY <1>5, <2>1 DEF Notify, Types, Scalars
  <2>4. \A w : Processed(w)' <=> Processed(w)
    <3>1. idx \in Nat /\ Len(ready) \in Nat
      BY DEF Types, Scalars
    <3>2. \A m : m \in 1..Len(ready') /\ m < idx' <=> m \in 1..Len(ready) /\ m < idx
      BY <2>1, <2>3, <3>1
    <3> QED
      BY <2>2, <3>2 DEF Processed
  <2>5. \A f \in Places : Notified(f)' <=> Notified(f) \/ f = e
    <3> SUFFICES ASSUME NEW f \in Places PROVE Notified(f)' <=> Notified(f) \/ f = e
      OBVIOUS
    <3>1. f = <<f[1], f[2]>> /\ f[2] \in Nat
      BY DEF Places
    <3>2. ready'[idx'] = r /\ j' = n + 1 /\ pc' = "notify" /\ pc = "notify"
      BY <1>5, <2>1, <2>2 DEF Notify
    <3>3. Notified(f)' <=> Processed(f[1]) \/ (f[1] = r /\ f[2] < n + 1)
      BY <2>4, <3>2 DEF Notified
    <3>4. Notified(f) <=> Processed(f[1]) \/ (f[1] = r /\ f[2] < n)
      BY <2>1, <3>2 DEF Notified
    <3> QED
      BY <3>1, <3>3, <3>4
  <2>6. \A f \in Places, u \in Units : Listed(f, u)' <=> Listed(f, u)
    BY <1>5 DEF Notify, Listed
  <2>7. Pending(v)' = Pending(v) \ {e}
    BY <2>5, <2>6 DEF Pending
  <2>8. \A u \in Units : u # v => Pending(u)' = Pending(u)
    BY <2>1, <2>5, <2>6 DEF Pending, Listed
  <2>9. /\ IsFiniteSet(Pending(v) \ {e})
        /\ Cardinality(Pending(v) \ {e}) = Cardinality(Pending(v)) - 1
    BY <2>1, FS_RemoveElement DEF CountInv
  <2>10. \A u \in Units : remaining'[u] = IF u = v THEN remaining[u] - 1 ELSE remaining[u]
    BY <1>5, <2>1 DEF Notify, Types, Tables
  <2> HIDE DEF e
  <2> QED
    BY <2>7, <2>8, <2>9, <2>10 DEF CountInv
<1>6. CASE FinishNotify
  <2>1. idx \in 1..Len(ready)
    BY <1>6 DEF FinishNotify, Types, Scalars, OrderInv
  <2>2. \A w : Processed(w)' <=> Processed(w) \/ w = ready[idx]
    BY <1>6, <2>1 DEF FinishNotify, Processed
  <2>3. \A f \in Places, u \in Units :
          Listed(f, u) => (Notified(f)' <=> Notified(f))
    <3> SUFFICES ASSUME NEW f \in Places, NEW u \in Units, Listed(f, u)
                 PROVE  Notified(f)' <=> Notified(f)
      OBVIOUS
    <3>1. f[1] \in Units /\ f[2] \in Nat /\ f[2] <= Len(incoming[f[1]])
      BY DEF Places, Listed
    <3>2. pc = "notify" /\ pc' = "check"
      BY <1>6 DEF FinishNotify
    <3>3. f[1] = ready[idx] => f[2] < j
      <4>1. Len(incoming[f[1]]) \in Nat /\ j \in Nat
        BY <3>1 DEF Types, Tables, Scalars
      <4> QED
        BY <1>6, <3>1, <4>1 DEF FinishNotify
    <3> QED
      BY <2>2, <3>2, <3>3 DEF Notified
  <2>4. \A f \in Places, u \in Units : Listed(f, u)' <=> Listed(f, u)
    BY <1>6 DEF FinishNotify, Listed
  <2>5. \A u \in Units : Pending(u)' = Pending(u)
    BY <2>3, <2>4 DEF Pending
  <2> QED
    BY <1>6, <2>5 DEF FinishNotify, CountInv
<1>7. CASE UNCHANGED vars
  <2>1. \A u \in Units : Pending(u)' = Pending(u)
    BY <1>7 DEF vars, Pending, Listed, Notified, Processed
  <2> QED
    BY <1>7, <2>1 DEF vars, CountInv
<1> QED
  BY <1>1, <1>2, <1>3, <1>4, <1>5, <1>6, <1>7 DEF Next

----------------------------------------------------------------------------
(* ready_to_check and the order of checking                                 *)

\* What a sequence lists.
LEMMA RangeDef ==
  ASSUME NEW S, NEW s \in Seq(S), NEW u
  PROVE  u \in Range(s) <=> \E m \in 1..Len(s) : s[m] = u
BY DEF Range

\* push_back adds its element to what a vector holds, and nothing else.
LEMMA RangeAppend ==
  ASSUME NEW S, NEW s \in Seq(S), NEW e \in S
  PROVE  \A u : u \in Range(Append(s, e)) <=> u \in Range(s) \/ u = e
<1>1. Append(s, e) \in Seq(S) /\ Len(Append(s, e)) = Len(s) + 1 /\ Len(s) \in Nat
  OBVIOUS
<1>2. /\ \A m \in 1..Len(s) : Append(s, e)[m] = s[m]
      /\ Append(s, e)[Len(s) + 1] = e
  OBVIOUS
<1> SUFFICES ASSUME NEW u PROVE u \in Range(Append(s, e)) <=> u \in Range(s) \/ u = e
  OBVIOUS
<1>3. u \in Range(Append(s, e)) <=> \E m \in 1..(Len(s) + 1) : Append(s, e)[m] = u
  BY <1>1, RangeDef
<1>4. u \in Range(s) <=> \E m \in 1..Len(s) : s[m] = u
  BY RangeDef
<1> QED
  BY <1>1, <1>2, <1>3, <1>4

\* Two vectors that push_back made equal were given the same element.
LEMMA AppendLast ==
  ASSUME NEW S, NEW s \in Seq(S), NEW e \in S, NEW f \in S, Append(s, e) = Append(s, f)
  PROVE  e = f
<1>1. Append(s, e)[Len(s) + 1] = e
  OBVIOUS
<1>2. Append(s, f)[Len(s) + 1] = f
  OBVIOUS
<1> QED
  BY <1>1, <1>2

\* A list of units without repetitions that is as long as there are units
\* lists them all.
LEMMA ReadyIsAll ==
  ASSUME Types, ReadyInv, Len(ready) >= N
  PROVE  Range(ready) = Units
<1>1. ready \in Injection(1..Len(ready), Units) /\ Len(ready) \in Nat
  BY DEF Types, Scalars, ReadyInv, Injection, IsInjective
<1>2. IsFiniteSet(Units) /\ Cardinality(Units) = N
  BY NAssumption, FS_Interval DEF Units
<1>3. Cardinality(1..Len(ready)) = Len(ready)
  <2>1. \A n \in Nat : Cardinality(1..n) = n
    BY FS_Interval
  <2> QED
    BY <1>1, <2>1
<1>4. ready \in Surjection(1..Len(ready), Units)
  BY <1>1, <1>2, <1>3, NAssumption, FS_Injection
<1> QED
  BY <1>1, <1>4 DEF Range, Surjection, Types, Scalars

\* Every step keeps ready_to_check a list of exactly the units that wait for
\* nothing, without repetitions.
LEMMA NextReady == ASSUME IInv, Types', [Next]_vars PROVE ReadyInv'
<1> USE DEF IInv
<1> USE NAssumption DEF Types, Units, tracking
<1>1. CASE BuildApiMap
  BY <1>1 DEF BuildApiMap, ReadyInv, Scalars
<1>2. CASE TrackCpp \/ TrackRejected \/ TrackMissing
  <2>1. UNCHANGED <<pc, unit, remaining, ready>>
    BY <1>2 DEF TrackCpp, TrackRejected, TrackMissing, Tracking, Accepted
  <2> QED
    BY <2>1 DEF ReadyInv
<1>3. CASE TrackFound
  <2>1. UNCHANGED <<pc, unit, ready>> /\ pc = "track" /\ unit \in Units
    BY <1>3 DEF TrackFound, Accepted, Tracking, Scalars
  <2>2. remaining' = [remaining EXCEPT ![unit] = @ + 1]
    BY <1>3 DEF TrackFound
  <2>3. \A u \in Units : u # unit => remaining'[u] = remaining[u]
    BY <2>1, <2>2 DEF Tables
  <2>4. \A m \in 1..Len(ready) : ready[m] \in Units /\ ready[m] < unit
    BY <2>1 DEF ReadyInv, Scalars
  <2> QED
    BY <2>1, <2>3, <2>4 DEF ReadyInv
<1>4. CASE FinishTracking
  <2>1. UNCHANGED <<pc, remaining>> /\ pc = "track" /\ unit \in Units /\ unit' = unit + 1
    BY <1>4 DEF FinishTracking, Scalars
  <2>2. CASE remaining[unit] = 0
    <3>1. ready' = Append(ready, unit) /\ ready \in Seq(Units)
      BY <1>4, <2>2 DEF FinishTracking, Scalars
    <3>2. /\ Len(ready') = Len(ready) + 1 /\ ready'[Len(ready) + 1] = unit
          /\ \A m \in 1..Len(ready) : ready'[m] = ready[m] /\ ready[m] \in Units
                                     /\ ready[m] < unit
          /\ Len(ready) \in Nat
      BY <2>1, <3>1 DEF ReadyInv
    <3>3. \A u : u \in Range(ready') <=> u \in Range(ready) \/ u = unit
      BY <2>1, <3>1, RangeAppend
    <3>4. \A m, n \in 1..Len(ready') : ready'[m] = ready'[n] => m = n
      BY <3>2 DEF ReadyInv
    <3>5. \A m \in 1..Len(ready') : remaining'[ready'[m]] = 0 /\ ready'[m] < unit'
      BY <2>1, <2>2, <3>2 DEF ReadyInv
    <3> QED
      BY <2>1, <3>3, <3>4, <3>5 DEF ReadyInv
  <2>3. CASE remaining[unit] # 0
    <3>1. ready' = ready
      BY <1>4, <2>3 DEF FinishTracking
    <3> QED
      BY <2>1, <2>3, <3>1 DEF ReadyInv, Scalars
  <2> QED
    BY <2>2, <2>3
<1>5. CASE StartChecking
  BY <1>5 DEF StartChecking, ReadyInv, Scalars
<1>6. CASE Notify
  <2>1. PICK v \in Units : v = incoming[ready[idx]][j] /\ remaining[v] > 0
    BY <1>6, NotifyCounted
  <2>2. remaining' = [remaining EXCEPT ![v] = @ - 1] /\ UNCHANGED pc /\ pc = "notify"
    BY <1>6, <2>1 DEF Notify
  <2>3. \A m \in 1..Len(ready) : ready[m] \in Units /\ ready[m] # v
    <3>1. \A m \in 1..Len(ready) : ready[m] \in Units
      BY DEF Scalars
    <3>2. \A m \in 1..Len(ready) : remaining[ready[m]] = 0
      BY DEF ReadyInv
    <3> QED
      BY <2>1, <3>1, <3>2
  <2>4. \A u \in Units : remaining'[u] = IF u = v THEN remaining[u] - 1 ELSE remaining[u]
    BY <2>2 DEF Tables
  <2>5. CASE remaining[v] = 1
    <3>1. ready' = Append(ready, v) /\ ready \in Seq(Units)
      BY <1>6, <2>1, <2>5 DEF Notify, Scalars
    <3>2. /\ Len(ready') = Len(ready) + 1 /\ ready'[Len(ready) + 1] = v
          /\ \A m \in 1..Len(ready) : ready'[m] = ready[m]
          /\ Len(ready) \in Nat
      BY <3>1
    <3>3. \A u : u \in Range(ready') <=> u \in Range(ready) \/ u = v
      BY <2>1, <3>1, RangeAppend
    <3>4. \A m, n \in 1..Len(ready') : ready'[m] = ready'[n] => m = n
      BY <2>3, <3>2 DEF ReadyInv
    <3>5. \A m \in 1..Len(ready') : remaining'[ready'[m]] = 0
      BY <2>3, <2>4, <2>5, <3>2 DEF ReadyInv
    <3> QED
      BY <2>2, <2>4, <2>5, <3>3, <3>4, <3>5 DEF ReadyInv
  <2>6. CASE remaining[v] # 1
    <3>1. ready' = ready
      BY <1>6, <2>1, <2>6 DEF Notify
    <3> QED
      BY <2>1, <2>2, <2>3, <2>4, <2>6, <3>1 DEF ReadyInv, Tables
  <2> QED
    BY <2>5, <2>6
<1>7. CASE \/ CheckReady \/ FinishNotify \/ FinishReady \/ MaskUnit \/ FinishMask
           \/ CheckRest \/ Finish
  <2>1. /\ UNCHANGED <<remaining, ready>>
        /\ pc \notin {"apis", "track"} /\ pc' \notin {"apis", "track"}
    BY <1>7 DEF CheckReady, FinishNotify, FinishReady, MaskUnit, FinishMask, CheckRest,
         Finish
  <2> QED
    BY <2>1 DEF ReadyInv
<1>8. CASE UNCHANGED vars
  BY <1>8 DEF vars, ReadyInv
<1> QED
  BY <1>1, <1>2, <1>3, <1>4, <1>5, <1>6, <1>7, <1>8 DEF Next

\* Every step keeps the order of checking what it should be.
LEMMA NextOrder == ASSUME IInv, Types', [Next]_vars PROVE OrderInv'
<1> USE DEF IInv
<1>0. ready \in Seq(Units) /\ order \in Seq(Units) /\ idx \in Nat \ {0} /\ unit \in Nat
  BY NAssumption DEF Types, Scalars
<1>1. CASE \/ BuildApiMap \/ TrackCpp \/ TrackRejected \/ TrackMissing \/ TrackFound
           \/ FinishTracking \/ StartChecking
  <2>1. /\ UNCHANGED <<idx, order>>
        /\ pc \in {"apis", "track"} /\ pc' \in {"apis", "track", "check"}
    BY <1>1 DEF BuildApiMap, TrackCpp, TrackRejected, TrackMissing, TrackFound,
         FinishTracking, StartChecking, Tracking, Accepted
  <2>2. idx' = 1 /\ order' = <<>> /\ Len(ready') \in Nat
    BY <2>1 DEF OrderInv, Types, Scalars
  <2> QED
    BY <2>1, <2>2 DEF OrderInv
<1>2. CASE CheckReady
  <2>1. /\ order' = Append(order, ready[idx]) /\ pc' = "notify"
        /\ UNCHANGED <<ready, idx, remaining>>
        /\ idx <= Len(ready) /\ Len(order) = idx - 1
    BY <1>2 DEF CheckReady, OrderInv
  <2>2. ready[idx] \in Units /\ idx \in 1..Len(ready)
    BY <1>0, <2>1
  <2>3. /\ Len(order') = idx /\ order'[idx] = ready[idx]
        /\ \A m \in 1..(idx - 1) : order'[m] = order[m]
    BY <1>0, <2>1, <2>2
  <2>4. \A m \in 1..Len(order') : order'[m] = ready[m]
    BY <1>0, <2>1, <2>3 DEF OrderInv
  <2>5. \A m, n \in 1..Len(order') : order'[m] = order'[n] => m = n
    BY <1>0, <2>1, <2>3, <2>4 DEF ReadyInv
  <2> QED
    BY <1>0, <2>1, <2>3, <2>4, <2>5 DEF OrderInv
<1>3. CASE Notify
  <2>1. PICK v \in Units : v = incoming[ready[idx]][j]
    BY <1>3, NotifyCounted
  <2>2. /\ UNCHANGED <<idx, order, pc>> /\ pc = "notify"
        /\ ready' \in {ready, Append(ready, v)}
    BY <1>3, <2>1 DEF Notify
  <2>3. /\ Len(ready') >= Len(ready) /\ Len(ready') \in Nat /\ Len(ready) \in Nat
        /\ \A m \in 1..Len(ready) : ready'[m] = ready[m]
    BY <1>0, <2>1, <2>2
  <2>4. idx <= Len(ready) /\ Len(order) = idx
    BY <2>2 DEF OrderInv
  <2> QED
    BY <1>0, <2>2, <2>3, <2>4 DEF OrderInv
<1>4. CASE FinishNotify
  <2>1. /\ UNCHANGED <<order, ready, remaining>> /\ idx' = idx + 1
        /\ pc = "notify" /\ pc' = "check"
    BY <1>4 DEF FinishNotify
  <2> QED
    BY <1>0, <2>1 DEF OrderInv
<1>5. CASE FinishReady
  <2>1. /\ UNCHANGED <<order, ready, remaining, idx>> /\ idx = Len(ready) + 1
        /\ pc = "check" /\ pc' = IF Len(ready) < N THEN "mask" ELSE "done"
        /\ Len(order) = Len(ready) /\ Len(ready) \in Nat
    BY <1>0, <1>5 DEF FinishReady, OrderInv
  <2>2. pc' = "done" => checked' = Units
    <3> SUFFICES ASSUME pc' = "done" PROVE checked = Units
      BY <2>1 DEF checked
    <3>1. Range(ready) = Units
      BY <2>1, NAssumption, ReadyIsAll
    <3>2. \A m \in 1..Len(ready) : order[m] = ready[m]
      BY <2>1 DEF OrderInv
    <3> QED
      BY <1>0, <2>1, <3>1, <3>2, RangeEquality DEF checked
  <2> QED
    BY <1>0, <2>1, <2>2 DEF OrderInv
<1>6. CASE MaskUnit
  <2>1. UNCHANGED <<pc, order, ready, remaining, idx>> /\ pc = "mask"
    BY <1>6 DEF MaskUnit
  <2> QED
    BY <2>1 DEF OrderInv
<1>7. CASE FinishMask
  <2>1. /\ UNCHANGED <<order, ready, remaining, idx>> /\ pc = "mask"
        /\ pc' = "rest" /\ unit' = 1
    BY <1>7 DEF FinishMask
  <2> QED
    BY <1>0, <2>1, NAssumption DEF OrderInv, Units
<1>8. CASE CheckRest
  <2>1. /\ UNCHANGED <<pc, ready, remaining, idx>> /\ pc = "rest" /\ unit' = unit + 1
        /\ unit \in Units
    BY <1>8, NAssumption DEF CheckRest, Types, Scalars, Units
  <2>2. CASE remaining[unit] > 0
    <3>1. order' = Append(order, unit)
      BY <1>8, <2>2 DEF CheckRest
    <3>2. /\ Len(order') = Len(order) + 1 /\ order'[Len(order) + 1] = unit
          /\ \A m \in 1..Len(order) : order'[m] = order[m] /\ order[m] \in Units
          /\ Len(order) \in Nat /\ Len(ready) \in Nat
      BY <1>0, <2>1, <3>1
    <3>3. \A m \in 1..Len(order) : order[m] # unit
      BY <1>0, <2>1, <2>2, <3>2 DEF OrderInv, ReadyInv
    <3>4. \A u : u \in checked' <=> u \in checked \/ u = unit
      BY <1>0, <2>1, <3>1, RangeAppend DEF checked
    <3>5. \A u \in Units : u < unit' /\ remaining[u] > 0 => u \in checked'
      BY <2>1, <2>2, <3>4 DEF OrderInv, Units
    <3>6. \A m \in 1..Len(order') :
            /\ m <= Len(ready) => order'[m] = ready[m]
            /\ m > Len(ready) => remaining[order'[m]] > 0 /\ order'[m] < unit'
      BY <1>0, <2>1, <2>2, <3>2 DEF OrderInv, Units
    <3>7. \A m, n \in 1..Len(order') : order'[m] = order'[n] => m = n
      BY <3>2, <3>3 DEF OrderInv
    <3> QED
      BY <1>0, <2>1, <3>2, <3>5, <3>6, <3>7 DEF OrderInv
  <2>3. CASE ~(remaining[unit] > 0)
    <3>1. order' = order
      BY <1>8, <2>3 DEF CheckRest
    <3>2. \A u \in Units : u < unit' /\ remaining[u] > 0 => u \in checked'
      BY <2>1, <2>3, <3>1 DEF OrderInv, Units, checked
    <3>3. \A m \in 1..Len(order) : m > Len(ready) => order[m] < unit'
      <4>1. \A m \in 1..Len(order) : order[m] \in Nat
        BY <1>0, NAssumption DEF Units
      <4>2. \A m \in 1..Len(order) : m > Len(ready) => order[m] < unit
        BY <2>1 DEF OrderInv
      <4> QED
        BY <1>0, <2>1, <4>1, <4>2
    <3> QED
      BY <2>1, <3>1, <3>2, <3>3 DEF OrderInv
  <2> QED
    BY <2>2, <2>3
<1>9. CASE Finish
  <2>1. /\ UNCHANGED <<order, ready, remaining, idx>> /\ pc = "rest" /\ pc' = "done"
        /\ unit > N
    BY <1>9 DEF Finish
  <2>2. \A u \in Units : u \in checked
    <3> SUFFICES ASSUME NEW u \in Units PROVE u \in checked
      OBVIOUS
    <3>1. CASE remaining[u] > 0
      BY <1>0, <2>1, <3>1, NAssumption DEF OrderInv, Units
    <3>2. CASE remaining[u] = 0
      <4>1. PICK m \in 1..Len(ready) : ready[m] = u
        BY <1>0, <2>1, <3>2, RangeDef DEF ReadyInv
      <4>2. m \in 1..Len(order) /\ order[m] = u
        BY <1>0, <2>1, <4>1 DEF OrderInv
      <4> QED
        BY <1>0, <4>2, RangeDef DEF checked
    <3> QED
      BY <3>1, <3>2 DEF Types, Tables
  <2>3. checked \subseteq Units
    BY <1>0, RangeOfSeq DEF checked
  <2>4. checked' = Units
    BY <2>1, <2>2, <2>3 DEF checked
  <2> QED
    BY <2>1, <2>4 DEF OrderInv
<1>10. CASE UNCHANGED vars
  BY <1>10 DEF vars, OrderInv, checked
<1> QED
  BY <1>1, <1>2, <1>3, <1>4, <1>5, <1>6, <1>7, <1>8, <1>9, <1>10 DEF Next

----------------------------------------------------------------------------
(* Imports and what waits for them                                          *)

\* A unit that waits for nothing any more was notified by everything it
\* imports: each was taken from ready_to_check.
LEMMA NothingPending ==
  ASSUME Types, CountInv, NEW u \in Units, NEW v \in Units, WaitsFor(u, v),
         remaining[u] = 0
  PROVE  Processed(v) \/ (pc = "notify" /\ v = ready[idx])
<1>1. PICK i \in DOMAIN incoming[v] : incoming[v][i] = u
  BY DEF WaitsFor
<1>2. <<v, i>> \in Places /\ Listed(<<v, i>>, u)
  BY <1>1 DEF Places, Listed, Types, Tables
<1>3. Pending(u) = {}
  BY FS_EmptySet DEF CountInv
<1> QED
  BY <1>2, <1>3 DEF Pending, Notified

\* What was checked before the rest is ready_to_check.
LEMMA CheckedIsReady ==
  ASSUME Types, OrderInv, pc = "mask"
  PROVE  checked = Range(ready)
<1>1. Len(order) = Len(ready) /\ \A m \in 1..Len(order) : order[m] = ready[m]
  BY DEF OrderInv, Types, Scalars
<1> QED
  BY <1>1, RangeEquality DEF checked, Types, Scalars

\* Every step keeps imports and incoming imports in step.
LEMMA NextLink == ASSUME IInv, Types', [Next]_vars PROVE LinkInv'
<1> USE DEF IInv
<1>1. CASE \/ BuildApiMap \/ TrackCpp \/ TrackRejected \/ TrackMissing
           \/ FinishTracking \/ StartChecking \/ CheckReady \/ Notify \/ FinishNotify
  <2>1. /\ UNCHANGED <<imports, incoming>>
        /\ pc \notin {"mask", "rest", "done"} /\ pc' \notin {"mask", "rest", "done"}
    BY <1>1 DEF BuildApiMap, TrackCpp, TrackRejected, TrackMissing, FinishTracking,
         StartChecking, CheckReady, Notify, FinishNotify, Tracking, Accepted
  <2>2. \A u \in Units : ~Masked(u) /\ ~Masked(u)'
    BY <2>1 DEF Masked
  <2>3. \A u, v \in Units : WaitsFor(u, v)' <=> WaitsFor(u, v)
    BY <2>1 DEF WaitsFor
  <2> QED
    BY <2>1, <2>2, <2>3 DEF LinkInv
<1>2. CASE TrackFound
  <2>1. PICK v \in apis :
          /\ imports' = [imports EXCEPT ![unit] = @ \cup {[pkg |-> Import.pkg, unit |-> v]}]
          /\ incoming' = [incoming EXCEPT ![v] = Append(@, unit)]
    BY <1>2 DEF TrackFound
  <2>2. /\ v \in Units /\ unit \in Units /\ incoming[v] \in Seq(Units)
        /\ pc = "track" /\ pc' = "track"
    BY <1>2, NAssumption DEF TrackFound, Accepted, Tracking, Types, Tables, Scalars, Units
  <2>3. \A u \in Units : ~Masked(u) /\ ~Masked(u)'
    BY <2>2 DEF Masked
  <2>4. \A u, w \in Units : WaitsFor(u, w)' <=> WaitsFor(u, w) \/ (u = unit /\ w = v)
    <3>1. \A u, w \in Units : WaitsFor(u, w) <=> u \in Range(incoming[w])
      BY DEF WaitsFor, Range
    <3>2. \A u, w \in Units : WaitsFor(u, w)' <=> u \in Range(incoming'[w])
      BY DEF WaitsFor, Range
    <3>3. \A w \in Units : incoming'[w] = IF w = v THEN Append(incoming[v], unit) ELSE incoming[w]
      BY <2>1, <2>2 DEF Types, Tables
    <3>4. \A u : u \in Range(Append(incoming[v], unit)) <=> u \in Range(incoming[v]) \/ u = unit
      BY <2>2, RangeAppend
    <3> QED
      BY <2>2, <3>1, <3>2, <3>3, <3>4
  <2>5. \A u, w \in Units :
          (\E imp \in imports'[u] : imp.unit = w) <=>
             (\E imp \in imports[u] : imp.unit = w) \/ (u = unit /\ w = v)
    <3>1. PICK rec : rec = [pkg |-> Import.pkg, unit |-> v]
      OBVIOUS
    <3>2. rec.unit = v
      BY <3>1
    <3>3. \A u \in Units : imports'[u] = IF u = unit THEN imports[u] \cup {rec} ELSE imports[u]
      BY <2>1, <2>2, <3>1 DEF Types, Tables
    <3> QED
      BY <2>2, <3>2, <3>3
  <2> QED
    BY <2>3, <2>4, <2>5 DEF LinkInv
<1>3. CASE FinishReady
  <2>1. /\ UNCHANGED <<imports, incoming, ready, remaining>>
        /\ pc = "check" /\ pc' = (IF Len(ready) < N THEN "mask" ELSE "done") /\ unit' = 1
    BY <1>3 DEF FinishReady
  <2>2. \A u \in Units : ~Masked(u)
    BY <2>1 DEF Masked
  <2>3. \A u \in Units : ~Masked(u)'
    <3>1. CASE Len(ready) < N
      BY <2>1, <3>1, NAssumption DEF Masked, Units
    <3>2. CASE ~(Len(ready) < N)
      <4>1. Range(ready) = Units
        BY <3>2, NAssumption, ReadyIsAll DEF Types, Scalars
      <4>2. \A u \in Units : remaining[u] = 0
        <5> SUFFICES ASSUME NEW u \in Units PROVE remaining[u] = 0
          OBVIOUS
        <5>1. PICK m \in 1..Len(ready) : ready[m] = u
          BY <4>1, RangeDef DEF Types, Scalars
        <5> QED
          BY <5>1 DEF ReadyInv
      <4> QED
        BY <2>1, <4>2 DEF Masked
    <3> QED
      BY <3>1, <3>2
  <2>4. \A u, v \in Units : WaitsFor(u, v)' <=> WaitsFor(u, v)
    BY <2>1 DEF WaitsFor
  <2> QED
    BY <2>1, <2>2, <2>3, <2>4 DEF LinkInv
<1>4. CASE MaskUnit
  <2>1. /\ UNCHANGED <<pc, incoming, ready, remaining>> /\ pc = "mask"
        /\ unit \in Units /\ unit' = unit + 1
    BY <1>4, NAssumption DEF MaskUnit, Types, Scalars, Units
  <2>2. \A u \in Units : Masked(u)' <=> Masked(u) \/ (u = unit /\ remaining[u] > 0)
    BY <2>1, NAssumption DEF Masked, Units
  <2>3. \A u, v \in Units : WaitsFor(u, v)' <=> WaitsFor(u, v)
    BY <2>1 DEF WaitsFor
  <2>4. ~Masked(unit)
    BY <2>1, NAssumption DEF Masked, Units
  <2>5. CASE remaining[unit] > 0
    <3>1. imports' = [imports EXCEPT ![unit] = @ \ Unchecked(unit)]
      BY <1>4, <2>5 DEF MaskUnit
    <3>2. imports'[unit] = {imp \in imports[unit] : imp.unit \in Range(ready)}
      BY <2>1, <3>1, CheckedIsReady DEF Unchecked, Types, Tables
    <3>3. \A u \in Units : u # unit => imports'[u] = imports[u]
      BY <2>1, <3>1 DEF Types, Tables
    <3>4. \A v \in Units :
            (\E imp \in imports'[unit] : imp.unit = v) <=>
              WaitsFor(unit, v) /\ v \in Range(ready)
      BY <2>1, <2>4, <3>2 DEF LinkInv
    <3> QED
      BY <2>1, <2>2, <2>3, <2>5, <3>3, <3>4 DEF LinkInv
  <2>6. CASE ~(remaining[unit] > 0)
    <3>1. imports' = imports
      BY <1>4, <2>6 DEF MaskUnit
    <3> QED
      BY <2>1, <2>2, <2>3, <2>6, <3>1 DEF LinkInv
  <2> QED
    BY <2>5, <2>6
<1>5. CASE FinishMask \/ CheckRest \/ Finish
  <2>1. UNCHANGED <<imports, incoming, ready, remaining>>
    BY <1>5 DEF FinishMask, CheckRest, Finish
  <2>2. \A u \in Units : Masked(u)' <=> Masked(u)
    BY <1>5, NAssumption DEF FinishMask, CheckRest, Finish, Masked, Types, Scalars, Units
  <2>3. \A u, v \in Units : WaitsFor(u, v)' <=> WaitsFor(u, v)
    BY <2>1 DEF WaitsFor
  <2> QED
    BY <2>1, <2>2, <2>3 DEF LinkInv
<1>6. CASE UNCHANGED vars
  BY <1>6 DEF vars, LinkInv, WaitsFor, Masked
<1> QED
  BY <1>1, <1>2, <1>3, <1>4, <1>5, <1>6 DEF Next

\* Every step keeps ready_to_check clear of units that wait for each other.
LEMMA NextCycle == ASSUME IInv, Types', [Next]_vars PROVE CycleInv'
<1> USE DEF IInv
<1>0. ready \in Seq(Units) /\ \A m \in 1..Len(ready) : ready[m] \in Units
  BY DEF Types, Scalars
<1>1. CASE \/ BuildApiMap \/ TrackCpp \/ TrackRejected \/ TrackMissing \/ StartChecking
           \/ CheckReady \/ FinishNotify \/ FinishReady \/ MaskUnit \/ FinishMask
           \/ CheckRest \/ Finish \/ UNCHANGED vars
  <2>1. UNCHANGED <<incoming, ready>>
    BY <1>1 DEF BuildApiMap, TrackCpp, TrackRejected, TrackMissing, StartChecking,
         CheckReady, FinishNotify, FinishReady, MaskUnit, FinishMask, CheckRest, Finish,
         vars
  <2>2. \A S \in SUBSET Units : Closed(S)' <=> Closed(S)
    BY <2>1 DEF Closed, WaitsFor
  <2> QED
    BY <2>1, <2>2 DEF CycleInv
<1>2. CASE TrackFound
  <2>1. PICK v \in apis : incoming' = [incoming EXCEPT ![v] = Append(@, unit)]
    BY <1>2 DEF TrackFound
  <2>2. /\ v \in Units /\ unit \in Units /\ incoming[v] \in Seq(Units)
        /\ pc = "track" /\ ready' = ready /\ idx = 1
    BY <1>2, NAssumption DEF TrackFound, Accepted, Tracking, Types, Tables, Scalars,
         Units, OrderInv
  <2> SUFFICES ASSUME NEW S \in SUBSET Units, Closed(S)', NEW x \in S, x \in Range(ready)
               PROVE  FALSE
    BY <2>2 DEF CycleInv
  <2>3. x \in Units /\ x # unit /\ remaining[x] = 0
    <3>1. PICK m \in 1..Len(ready) : ready[m] = x
      BY <1>0, RangeDef
    <3>2. x < unit /\ remaining[x] = 0
      BY <2>2, <3>1 DEF ReadyInv
    <3> QED
      BY <2>2, <3>2, NAssumption DEF Units
  <2>4. PICK w \in S : WaitsFor(x, w)'
    BY DEF Closed
  <2>5. PICK i \in DOMAIN incoming'[w] : incoming'[w][i] = x
    BY <2>4 DEF WaitsFor
  <2>6. WaitsFor(x, w)
    <3>1. CASE w # v
      BY <2>1, <2>2, <2>5, <3>1 DEF WaitsFor, Types, Tables
    <3>2. CASE w = v
      <4>1. incoming'[w] = Append(incoming[w], unit)
        BY <2>1, <2>2, <3>2 DEF Types, Tables
      <4>2. i \in 1..(Len(incoming[w]) + 1) /\ Append(incoming[w], unit)[i] = x
        BY <2>2, <2>5, <3>2, <4>1
      <4>3. i \in 1..Len(incoming[w]) /\ incoming[w][i] = x
        BY <2>2, <2>3, <3>2, <4>2
      <4> QED
        BY <2>2, <3>2, <4>3 DEF WaitsFor
    <3> QED
      BY <3>1, <3>2
  <2>7. Processed(w)
    BY <2>2, <2>3, <2>6, NothingPending
  <2> QED
    BY <1>0, <2>2, <2>7 DEF Processed
<1>3. CASE FinishTracking
  <2>1. /\ incoming' = incoming /\ pc = "track" /\ idx = 1 /\ unit \in Units
        /\ ready' = IF remaining[unit] = 0 THEN Append(ready, unit) ELSE ready
    BY <1>3, NAssumption DEF FinishTracking, Types, Scalars, Units, OrderInv
  <2> SUFFICES ASSUME NEW S \in SUBSET Units, Closed(S)', NEW x \in S, x \in Range(ready')
               PROVE  FALSE
    BY DEF CycleInv
  <2>2. Closed(S)
    BY <2>1 DEF Closed, WaitsFor
  <2>3. x = unit /\ remaining[x] = 0
    <3>1. x \notin Range(ready)
      BY <2>2 DEF CycleInv
    <3> QED
      BY <1>0, <2>1, <3>1, RangeAppend
  <2>4. PICK w \in S : WaitsFor(x, w)
    BY <2>2 DEF Closed
  <2>5. Processed(w)
    BY <2>1, <2>3, <2>4, NothingPending
  <2> QED
    BY <1>0, <2>1, <2>5 DEF Processed
<1>4. CASE Notify
  <2>1. PICK r \in Units, n \in Nat, v \in Units :
          /\ idx \in 1..Len(ready) /\ r = ready[idx] /\ n = j /\ v = incoming[r][n]
          /\ <<r, n>> \in Pending(v)
    BY <1>4, NotifyCounted DEF Types, Scalars
  <2>2. incoming' = incoming /\ ready' = IF remaining[v] = 1 THEN Append(ready, v) ELSE ready
    BY <1>4, <2>1 DEF Notify
  <2> SUFFICES ASSUME NEW S \in SUBSET Units, Closed(S)', NEW x \in S, x \in Range(ready')
               PROVE  FALSE
    BY DEF CycleInv
  <2>3. Closed(S)
    BY <2>2 DEF Closed, WaitsFor
  <2>4. S \cap Range(ready) = {}
    BY <2>3 DEF CycleInv
  <2>5. x = v /\ remaining[v] = 1
    BY <1>0, <2>1, <2>2, <2>4, RangeAppend
  <2>6. PICK w \in S : WaitsFor(v, w)
    BY <2>3, <2>5 DEF Closed
  <2>7. PICK i \in DOMAIN incoming[w] : incoming[w][i] = v
    BY <2>6 DEF WaitsFor
  <2>8. <<w, i>> \in Places /\ Listed(<<w, i>>, v)
    <3>1. w \in Units /\ incoming[w] \in Seq(Units)
      BY DEF Types, Tables
    <3>2. i \in Nat \ {0} /\ i <= Len(incoming[w])
      BY <2>7, <3>1
    <3> QED
      BY <2>7, <3>1, <3>2 DEF Places, Listed
  <2>9. Pending(v) = {<<r, n>>}
    <3>1. Cardinality(Pending(v)) = 1 /\ IsFiniteSet(Pending(v))
      BY <2>5 DEF CountInv
    <3>2. PICK y : Pending(v) = {y}
      BY <3>1, FS_Singleton
    <3> QED
      BY <2>1, <3>2
  <2>10. Notified(<<w, i>>) \/ w = r
    BY <2>8, <2>9 DEF Pending
  <2>11. w \in Range(ready)
    <3>1. Processed(w) \/ w = r
      BY <2>1, <2>10 DEF Notified
    <3> QED
      BY <1>0, <2>1, <3>1, RangeDef DEF Processed
  <2> QED
    BY <2>4, <2>11
<1> QED
  BY <1>1, <1>2, <1>3, <1>4 DEF Next

----------------------------------------------------------------------------
(* The records of imports                                                   *)

\* Every step keeps them consistent.
LEMMA NextRecord == ASSUME IInv, Types', [Next]_vars PROVE PkgInv' /\ RecordInv'
<1> USE DEF IInv
<1>1. CASE \/ BuildApiMap \/ TrackCpp \/ TrackRejected \/ FinishTracking \/ StartChecking
           \/ CheckReady \/ Notify \/ FinishNotify \/ FinishReady \/ FinishMask
           \/ CheckRest \/ Finish \/ UNCHANGED vars
  <2>1. UNCHANGED <<imports, pkgs, loadError, apiFor>>
    BY <1>1 DEF BuildApiMap, TrackCpp, TrackRejected, FinishTracking, StartChecking,
         CheckReady, Notify, FinishNotify, FinishReady, FinishMask, CheckRest, Finish,
         vars, tracking
  <2> QED
    BY <2>1 DEF PkgInv, RecordInv
<1>2. CASE TrackFound
  <2>1. PICK v, rec :
          /\ v \in apis
          /\ rec = [pkg |-> Import.pkg, unit |-> v]
          /\ imports' = [imports EXCEPT ![unit] = @ \cup {rec}]
          /\ apiFor' = IF Import.explicit THEN apiFor ELSE [apiFor EXCEPT ![unit] = v]
    BY <1>2 DEF TrackFound
  <2>2. v \in Units /\ unit \in Units /\ rec.pkg = Import.pkg /\ rec.unit = v
    BY <1>2, <2>1, NAssumption DEF TrackFound, Accepted, Tracking, Types, Scalars, Units
  <2>3. \A u \in Units :
          /\ imports'[u] = IF u = unit THEN imports[u] \cup {rec} ELSE imports[u]
          /\ pkgs'[u] = IF u = unit THEN pkgs[u] \cup {rec.pkg} ELSE pkgs[u]
          /\ apiFor'[u] = apiFor[u] \/ (u = unit /\ apiFor'[u] = v)
          /\ loadError'[u] = loadError[u]
    BY <1>2, <2>1, <2>2 DEF TrackFound, Types, Tables
  <2>4. PkgInv'
    <3> SUFFICES ASSUME NEW u \in Units
                 PROVE  /\ \A imp \in imports'[u] : imp.unit \in Units /\ imp.pkg \in pkgs'[u]
                        /\ loadError'[u] \subseteq pkgs'[u]
      BY DEF PkgInv
    <3>1. /\ \A imp \in imports[u] : imp.unit \in Units /\ imp.pkg \in pkgs[u]
          /\ loadError[u] \subseteq pkgs[u] /\ loadError'[u] = loadError[u]
      BY <2>3 DEF PkgInv
    <3>2. CASE u = unit
      <4>1. imports'[u] = imports[u] \cup {rec} /\ pkgs'[u] = pkgs[u] \cup {rec.pkg}
        BY <2>3, <3>2
      <4> QED
        BY <2>2, <3>1, <4>1
    <3>3. CASE u # unit
      <4>1. imports'[u] = imports[u] /\ pkgs'[u] = pkgs[u]
        BY <2>3, <3>3
      <4> QED
        BY <3>1, <4>1
    <3> QED
      BY <3>2, <3>3
  <2>5. \A u \in Units : apiFor'[u] # 0 => \E imp \in imports'[u] : imp.unit = apiFor'[u]
    <3> SUFFICES ASSUME NEW u \in Units, apiFor'[u] # 0
                 PROVE  \E imp \in imports'[u] : imp.unit = apiFor'[u]
      OBVIOUS
    <3>1. CASE apiFor'[u] = apiFor[u]
      <4>1. PICK imp \in imports[u] : imp.unit = apiFor[u]
        BY <3>1 DEF RecordInv
      <4> QED
        BY <2>3, <3>1, <4>1
    <3>2. CASE u = unit /\ apiFor'[u] = v
      BY <2>2, <2>3, <3>2
    <3> QED
      BY <2>3, <3>1, <3>2
  <2>6. \A u \in Units : \A p \in pkgs'[u] :
          p \in loadError'[u] \/ \E imp \in imports'[u] : imp.pkg = p
    <3> SUFFICES ASSUME NEW u \in Units, NEW p \in pkgs'[u], p \notin loadError'[u]
                 PROVE  \E imp \in imports'[u] : imp.pkg = p
      OBVIOUS
    <3>1. CASE p \in pkgs[u]
      <4>1. PICK imp \in imports[u] : imp.pkg = p
        BY <2>3, <3>1 DEF RecordInv
      <4> QED
        BY <2>3, <4>1
    <3>2. CASE p \notin pkgs[u]
      BY <2>2, <2>3, <3>2
    <3> QED
      BY <3>1, <3>2
  <2> QED
    BY <2>4, <2>5, <2>6 DEF RecordInv
<1>3. CASE TrackMissing
  <2>1. unit \in Units
    BY <1>3, NAssumption DEF TrackMissing, Accepted, Tracking, Types, Scalars, Units
  <2>2. PICK q : q = Import.pkg
    OBVIOUS
  <2>3. \A u \in Units :
          /\ imports'[u] = imports[u] /\ apiFor'[u] = apiFor[u]
          /\ pkgs'[u] = IF u = unit THEN pkgs[u] \cup {q} ELSE pkgs[u]
          /\ loadError'[u] = IF u = unit THEN loadError[u] \cup {q} ELSE loadError[u]
    BY <1>3, <2>1, <2>2 DEF TrackMissing, Types, Tables
  <2>4. PkgInv'
    BY <2>1, <2>3 DEF PkgInv
  <2>5. \A u \in Units : apiFor'[u] # 0 => \E imp \in imports'[u] : imp.unit = apiFor'[u]
    BY <2>3 DEF RecordInv
  <2>6. \A u \in Units : \A p \in pkgs'[u] :
          p \in loadError'[u] \/ \E imp \in imports'[u] : imp.pkg = p
    <3> SUFFICES ASSUME NEW u \in Units, NEW p \in pkgs'[u], p \notin loadError'[u]
                 PROVE  \E imp \in imports'[u] : imp.pkg = p
      OBVIOUS
    <3>1. p \in pkgs[u] /\ p \notin loadError[u]
      BY <2>3
    <3>2. PICK imp \in imports[u] : imp.pkg = p
      BY <3>1 DEF RecordInv
    <3> QED
      BY <2>3, <3>2
  <2> QED
    BY <2>4, <2>5, <2>6 DEF RecordInv
<1>4. CASE MaskUnit
  <2>1. unit \in Units /\ pkgs' = pkgs
    BY <1>4, NAssumption DEF MaskUnit, Types, Scalars, Units
  <2>2. CASE remaining[unit] > 0
    <3>1. \A u \in Units :
            /\ imports'[u] = IF u = unit THEN imports[u] \ Unchecked(unit) ELSE imports[u]
            /\ loadError'[u] = IF u = unit
                               THEN loadError[u] \cup {imp.pkg : imp \in Unchecked(unit)}
                               ELSE loadError[u]
      BY <1>4, <2>1, <2>2 DEF MaskUnit, Types, Tables
    <3>2. apiFor' = IF \E imp \in Unchecked(unit) : imp.unit = apiFor[unit]
                    THEN [apiFor EXCEPT ![unit] = 0] ELSE apiFor
      BY <1>4, <2>2 DEF MaskUnit
    <3>3. Unchecked(unit) \subseteq imports[unit]
      BY DEF Unchecked
    <3>4. PkgInv'
      <4>1. \A u \in Units : \A imp \in imports'[u] : imp.unit \in Units /\ imp.pkg \in pkgs[u]
        BY <3>1 DEF PkgInv
      <4>2. \A u \in Units : loadError'[u] \subseteq pkgs[u]
        <5> SUFFICES ASSUME NEW u \in Units, NEW q \in loadError'[u] PROVE q \in pkgs[u]
          OBVIOUS
        <5>1. CASE q \in loadError[u]
          BY <5>1 DEF PkgInv
        <5>2. CASE q \notin loadError[u]
          <6>1. u = unit
            BY <3>1, <5>2
          <6>2. q \in {imp.pkg : imp \in Unchecked(unit)}
            BY <3>1, <5>2, <6>1
          <6>3. PICK imp \in Unchecked(unit) : q = imp.pkg
            BY <6>2
          <6> QED
            BY <3>3, <6>1, <6>3 DEF PkgInv
        <5> QED
          BY <5>1, <5>2
      <4> QED
        BY <2>1, <4>1, <4>2 DEF PkgInv
    <3>5. \A u \in Units : apiFor'[u] # 0 => \E imp \in imports'[u] : imp.unit = apiFor'[u]
      <4> SUFFICES ASSUME NEW u \in Units, apiFor'[u] # 0
                   PROVE  \E imp \in imports'[u] : imp.unit = apiFor'[u]
        OBVIOUS
      <4>1. apiFor'[u] = apiFor[u]
        BY <2>1, <3>2 DEF Types, Tables
      <4>2. PICK imp \in imports[u] : imp.unit = apiFor[u]
        BY <4>1 DEF RecordInv
      <4>3. u = unit => imp \notin Unchecked(unit)
        BY <2>1, <3>2, <4>2 DEF Types, Tables
      <4> QED
        BY <3>1, <4>1, <4>2, <4>3
    <3>6. \A u \in Units : \A p \in pkgs'[u] :
            p \in loadError'[u] \/ \E imp \in imports'[u] : imp.pkg = p
      <4> SUFFICES ASSUME NEW u \in Units, NEW p \in pkgs[u], p \notin loadError'[u]
                   PROVE  \E imp \in imports'[u] : imp.pkg = p
        BY <2>1
      <4>1. PICK imp \in imports[u] : imp.pkg = p
        BY <3>1 DEF RecordInv
      <4>2. u = unit => imp \notin Unchecked(unit)
        BY <3>1, <4>1
      <4> QED
        BY <3>1, <4>1, <4>2
    <3> QED
      BY <3>4, <3>5, <3>6 DEF RecordInv
  <2>3. CASE ~(remaining[unit] > 0)
    BY <1>4, <2>3 DEF MaskUnit, PkgInv, RecordInv
  <2> QED
    BY <2>2, <2>3
<1> QED
  BY <1>1, <1>2, <1>3, <1>4 DEF Next

----------------------------------------------------------------------------
(* The inductive invariant holds                                            *)

\* The invariant holds before the first loop of CheckParseTrees.
LEMMA InitIInv == Init => IInv
<1> SUFFICES ASSUME Init PROVE IInv
  OBVIOUS
<1>1. Types /\ PkgInv
  BY InitTypes
<1>2. /\ pc = "apis" /\ order = <<>> /\ ready = <<>> /\ idx = 1
      /\ incoming = [u \in Units |-> <<>>] /\ imports = [u \in Units |-> {}]
      /\ remaining = [u \in Units |-> 0]
  BY DEF Init
<1>3. \A u, v \in Units : ~WaitsFor(u, v)
  BY <1>2 DEF WaitsFor
<1>4. CountInv
  <2>1. \A u \in Units : Pending(u) = {}
    BY <1>2 DEF Pending, Places, Listed
  <2> QED
    BY <1>2, <2>1, FS_EmptySet DEF CountInv
<1>5. ReadyInv /\ OrderInv
  BY <1>2 DEF ReadyInv, OrderInv
<1>6. LinkInv
  BY <1>2, <1>3 DEF LinkInv
<1>7. CycleInv
  BY <1>2 DEF CycleInv, Range
<1>8. RecordInv
  BY DEF Init, RecordInv
<1> QED
  BY <1>1, <1>4, <1>5, <1>6, <1>7, <1>8 DEF IInv

\* Every step of CheckParseTrees keeps the invariant.
LEMMA NextIInv == IInv /\ [Next]_vars => IInv'
<1> SUFFICES ASSUME IInv, [Next]_vars PROVE IInv'
  OBVIOUS
<1>1. Types'
  BY NextTypes
<1> QED
  BY <1>1, NextCount, NextReady, NextOrder, NextLink, NextCycle, NextRecord DEF IInv

\* Whatever the files import, IInv holds in every reachable state.
THEOREM Inductive == Spec => []IInv
  BY InitIInv, NextIInv, PTL DEF Spec

----------------------------------------------------------------------------
(* The properties                                                           *)

\* Every variable keeps its type and the records of CheckParseTrees stay
\* within the packages and units there are.
THEOREM TypesHold == Spec => []TypeOK
<1>1. IInv => TypeOK
  BY DEF IInv, Types, Tables, Scalars, PkgInv, TypeOK
<1> QED
  BY <1>1, Inductive, PTL

\* For any number of files and any imports, CheckParseTrees checks no file
\* twice, and every file by the time it is done.
THEOREM ChecksOnce == Spec => []CheckedOnce
<1>1. IInv => CheckedOnce
  BY DEF IInv, Types, Scalars, OrderInv, CheckedOnce
<1> QED
  BY <1>1, Inductive, PTL

\* An impl file's api is among its imports, and a package that a checked file
\* imports from has something to import or failed to load.
THEOREM RecordsAgree == Spec => []ImportRecordsAgree
<1>1. IInv => ImportRecordsAgree
  <2>1. IInv => checked \subseteq Units
    BY RangeOfSeq DEF IInv, Types, Scalars, checked
  <2> QED
    BY <2>1 DEF IInv, RecordInv, ImportRecordsAgree
<1> QED
  BY <1>1, Inductive, PTL

\* When a file is checked, so was every import it still has.
THEOREM ImportsFirst == Spec => ImportsCheckedFirst
<1> DEFINE First == \A u \in Units : order' = Append(order, u) =>
                      \A imp \in imports[u] : imp.unit \in checked
<1>1. IInv /\ [Next]_vars => [First]_vars
  <2> SUFFICES ASSUME IInv, Next, NEW u \in Units, order' = Append(order, u),
                      NEW imp \in imports[u]
               PROVE  imp.unit \in checked
    OBVIOUS
  <2> USE DEF IInv
  <2>1. order \in Seq(Units) /\ ready \in Seq(Units) /\ Len(order) \in Nat
    BY DEF Types, Scalars
  <2>2. order' # order
    <3>1. Len(Append(order, u)) = Len(order) + 1
      BY <2>1
    <3> QED
      BY <2>1, <3>1
  <2>3. CheckReady \/ (CheckRest /\ remaining[unit] > 0)
    BY <2>2 DEF Next, BuildApiMap, TrackCpp, TrackRejected, TrackMissing, TrackFound,
         FinishTracking, StartChecking, Notify, FinishNotify, FinishReady, MaskUnit,
         FinishMask, CheckRest, Finish
  <2>4. imp.unit \in Units /\ WaitsFor(u, imp.unit)
    BY DEF PkgInv, LinkInv
  <2>5. CASE CheckReady
    <3>1. /\ idx \in 1..Len(ready) /\ order' = Append(order, ready[idx])
          /\ pc = "check" /\ Len(order) = idx - 1
      BY <2>1, <2>5 DEF CheckReady, OrderInv, Types, Scalars
    <3>2. u = ready[idx]
      <4>1. ready[idx] \in Units
        BY <2>1, <3>1
      <4> QED
        BY <2>1, <3>1, <4>1, AppendLast
    <3>3. remaining[u] = 0
      BY <3>1, <3>2 DEF ReadyInv
    <3>4. Processed(imp.unit)
      BY <2>4, <3>1, <3>3, NothingPending
    <3>5. PICK m \in 1..Len(ready) : m < idx /\ ready[m] = imp.unit
      BY <3>4 DEF Processed
    <3>6. m \in 1..Len(order) /\ order[m] = imp.unit
      BY <2>1, <3>1, <3>5 DEF OrderInv
    <3> QED
      BY <2>1, <3>6, RangeDef DEF checked
  <2>6. CASE CheckRest /\ remaining[unit] > 0
    <3>1. order' = Append(order, unit) /\ pc = "rest" /\ unit \in Units
      BY <2>6, NAssumption DEF CheckRest, Types, Scalars, Units
    <3>2. u = unit
      BY <2>1, <3>1, AppendLast
    <3>3. imp.unit \in Range(ready)
      BY <2>4, <2>6, <3>1, <3>2 DEF LinkInv, Masked
    <3>4. PICK m \in 1..Len(ready) : ready[m] = imp.unit
      BY <2>1, <3>3, RangeDef
    <3>5. m \in 1..Len(order) /\ order[m] = imp.unit
      BY <2>1, <3>1, <3>4 DEF OrderInv
    <3> QED
      BY <2>1, <3>5, RangeDef DEF checked
  <2> QED
    BY <2>3, <2>5, <2>6
<1>2. ImportsCheckedFirst <=> [][First]_vars
  BY DEF ImportsCheckedFirst
<1> QED
  BY <1>1, <1>2, Inductive, PTL DEF Spec

\* Masking costs nothing but cycles: when checking is done a file has lost
\* exactly its imports of files that wait, directly or not, on a cycle.
THEOREM OnlyCycles == Spec => []OnlyCyclesAreMasked
<1>1. IInv => OnlyCyclesAreMasked
  <2> SUFFICES ASSUME IInv, pc = "done", NEW u \in Units, NEW v \in Units, WaitsFor(u, v)
               PROVE  (\E imp \in imports[u] : imp.unit = v) <=> v \notin OnCycle
    BY DEF OnlyCyclesAreMasked, WaitsFor
  <2> USE DEF IInv
  <2>1. ready \in Seq(Units) /\ idx = Len(ready) + 1
    BY DEF Types, Scalars, OrderInv
  <2>2. \A w \in Units : Processed(w) => w \in Range(ready)
    BY <2>1, RangeDef DEF Processed
  <2>3. (\E imp \in imports[u] : imp.unit = v) <=> v \in Range(ready)
    <3>1. CASE remaining[u] > 0
      BY <3>1 DEF LinkInv, Masked
    <3>2. CASE remaining[u] = 0
      <4>1. v \in Range(ready)
        BY <2>2, <3>2, NothingPending
      <4> QED
        BY <3>2, <4>1 DEF LinkInv, Masked
    <3> QED
      BY <3>1, <3>2 DEF Types, Tables
  <2>4. OnCycle = UNION {S \in SUBSET Units : Closed(S)}
    BY DEF OnCycle, Closed, WaitsFor
  <2>5. v \in OnCycle => v \notin Range(ready)
    BY <2>4 DEF CycleInv
  <2>6. v \notin Range(ready) => v \in OnCycle
    <3> DEFINE W == Units \ Range(ready)
    <3>1. Closed(W)
      <4> SUFFICES ASSUME NEW w \in W PROVE \E x \in W : WaitsFor(w, x)
        BY DEF Closed
      <4>1. remaining[w] # 0
        BY DEF ReadyInv
      <4>2. PICK e \in Places : Listed(e, w) /\ ~Notified(e)
        <5>1. Pending(w) # {}
          BY <4>1, FS_EmptySet DEF CountInv
        <5> QED
          BY <5>1 DEF Pending
      <4>3. e[1] \in Units /\ e[2] \in Nat \ {0}
        BY <4>2 DEF Places
      <4>4. WaitsFor(w, e[1])
        <5>1. incoming[e[1]] \in Seq(Units)
          BY <4>3 DEF Types, Tables
        <5>2. e[2] \in DOMAIN incoming[e[1]]
          BY <4>2, <4>3, <5>1 DEF Listed
        <5> QED
          BY <4>2, <5>2 DEF WaitsFor, Listed
      <4>5. e[1] \notin Range(ready)
        <5> SUFFICES ASSUME e[1] \in Range(ready) PROVE FALSE
          OBVIOUS
        <5>1. PICK m \in 1..Len(ready) : ready[m] = e[1]
          BY <2>1, RangeDef
        <5>2. m < idx
          BY <2>1, <5>1
        <5> QED
          BY <4>2, <5>1, <5>2 DEF Notified, Processed
      <4> QED
        BY <4>3, <4>4, <4>5
    <3> QED
      BY <2>4, <3>1
  <2> QED
    BY <2>3, <2>5, <2>6
<1> QED
  BY <1>1, Inductive, PTL
=============================================================================
