---------------------------- MODULE RawHashtable ----------------------------
(***************************************************************************)
(* The open-addressed hash table of common/raw_hashtable.h that Map and    *)
(* Set are made of.                                                        *)
(*                                                                         *)
(* A table is an array of slots in groups of GroupSize.  A key is looked   *)
(* for in the groups of its probe sequence until a group has an empty      *)
(* slot.  Erasing therefore leaves a deletion marker where a probe may     *)
(* have gone past, inserting reuses the first marker it met, and a budget  *)
(* of empty slots that may still be filled decides when the table grows.   *)
(*                                                                         *)
(* A slot is its metadata and entry in one: Empty, Deleted or the key that *)
(* is present.  The seven tag bits of the metadata only save comparisons   *)
(* of keys (equal keys have equal tags), and a value moves with its key.   *)
(* Tables are not shared between threads, so an operation is one step, but *)
(* for growing, which is one step per entry that is inserted again.        *)
(***************************************************************************)
EXTENDS Integers, FiniteSets, FiniteSetsExt

CONSTANTS
  GroupSize,         \* 8 or 16 in the code
  MinAllocatedSize,  \* 64 in the code
  LoadDenominator,   \* a table grows when 1 / LoadDenominator is left; 8 in the code
  MaxAllocSize,      \* bound on the size of a table
  MaxReserve,        \* bound on the count given to GrowForInsertCount
  Empty, Deleted,    \* the metadata of a slot without an entry
  Setups             \* records: tables, SmallSize, hash index of every key

\* llvm::isPowerOf2_64: no odd number but 1 divides n.
IsPowerOf2(n) == n > 0 /\ \A d \in 2..n : n % d = 0 => d % 2 = 0

\* A group is no larger than a table, and at least one slot of a table stays
\* empty. Every entry of a table has its hash, whatever that is.
ASSUME SizesAssumption ==
  /\ {GroupSize, MinAllocatedSize, LoadDenominator, MaxAllocSize, MaxReserve} \subseteq Nat
  /\ IsPowerOf2(GroupSize) /\ IsPowerOf2(MinAllocatedSize) /\ IsPowerOf2(LoadDenominator)
  /\ LoadDenominator >= 2
  /\ GroupSize <= MinAllocatedSize /\ LoadDenominator <= MinAllocatedSize
  /\ Empty # Deleted

ASSUME SetupsAssumption ==
  \A s \in Setups :
    /\ IsFiniteSet(s.tables)
    /\ s.small \in Nat
    /\ s.small > 0 =>
         IsPowerOf2(s.small) /\ GroupSize <= s.small /\ LoadDenominator <= s.small
    /\ s.hash \in [DOMAIN s.hash -> Nat]
    /\ {Empty, Deleted} \cap DOMAIN s.hash = {}

VARIABLES
  setup,      \* the tables, their SmallSize, and the keys with their hashes
  table,      \* the table objects
  growing,    \* the table that is moving into a larger storage, if any
  old,        \* its previous storage
  left,       \* the slots there whose entries are yet to be inserted again
  inserting,  \* the key that is inserted once the table has grown, if any
  heap,       \* allocated and not yet deallocated storages
  live,       \* entries constructed and not yet destroyed
  contents,   \* history: the keys each table ought to have
  reserved    \* history: insertions GrowForInsertCount has made room for

growthVars == <<growing, old, left, inserting>>
vars == <<setup, table, growthVars, heap, live, contents, reserved>>

Tables == setup.tables
Keys == DOMAIN setup.hash

EmptySlots(size) == [i \in 0..(size - 1) |-> Empty]

\* No object, and an object that was moved from. The other members of a table
\* of size 0 are not read before they are set again.
NoTable == [alloc |-> 0, budget |-> 0, storage |-> "none", slots |-> EmptySlots(0)]
MovedFrom == [NoTable EXCEPT !.storage = "null"]

Usable(t) == table[t].alloc > 0
Constructed(t) == table[t].storage # "none"

----------------------------------------------------------------------------
(* Groups and probing                                                       *)

\* The index of the group of i: i & ComputeProbeMaskFromSize(size).
Masked(i, size) == GroupSize * ((i \div GroupSize) % (size \div GroupSize))

\* ProbeSequence::Next, for the n-th time.
NextProbe(p, n, size) == Masked(p + n * GroupSize, size)

\* The index after n calls, by the formula of Next's DCHECK.
Probe(start, size, n) == Masked(start + GroupSize * ((n * (n + 1)) \div 2), size)

\* Before it is back where it started.
Probes(T) == 0..(T.alloc \div GroupSize - 1)

Group(g) == g..(g + GroupSize - 1)

Match(T, g, v) == {i \in Group(g) : T.slots[i] = v}

Probed(T, k, n, v) == Match(T, Probe(setup.hash[k], T.alloc, n), v)

\* The probes at which a search for k ends: at its entry, or at an empty slot.
Stops(T, k) == {n \in Probes(T) : Probed(T, k, n, k) # {} \/ Probed(T, k, n, Empty) # {}}
LastProbe(T, k) == Min(Stops(T, k))

NotFound == -1

LookupEntry(T, k) ==
  LET found == Probed(T, k, LastProbe(T, k), k)
  IN IF found = {} THEN NotFound ELSE Min(found)

GrowthThresholdForAllocSize(size) == size - size \div LoadDenominator

NextPowerOf2(n) == Min({s \in (n + 1)..(2 * n + 1) : IsPowerOf2(s)})

PresentSlots(T) == {i \in DOMAIN T.slots : T.slots[i] \in Keys}

----------------------------------------------------------------------------
(* Inserting and erasing                                                    *)

\* For a key that is not there, in a table without deletion markers.
InsertIntoEmpty(T, k) ==
  LET n == Min({m \in Probes(T) : Probed(T, k, m, Empty) # {}})
  IN [T EXCEPT !.slots[Min(Probed(T, k, n, Empty))] = k]

\* The probes for k, while it is not found, that met a deletion marker.
Markers(T, k) == {n \in 0..LastProbe(T, k) : Probed(T, k, n, Deleted) # {}}

\* Without a budget for the empty slot that ended the search the table grows
\* first (only then: a budget of 0 by itself does not grow a table).
MustGrow(T, k) == LookupEntry(T, k) = NotFound /\ Markers(T, k) = {} /\ T.budget = 0

InsertChargedForDeleted(T, k) ==
  LET into(v, n) == [T EXCEPT !.slots[Min(Probed(T, k, n, v))] = k, !.budget = @ - 1]
  IN IF LookupEntry(T, k) # NotFound \/ T.budget = 0 THEN T
     ELSE IF Markers(T, k) # {} THEN into(Deleted, Min(Markers(T, k)))
     ELSE into(Empty, LastProbe(T, k))

\* A new key goes over the first deletion marker met, at no cost, or into the
\* empty slot that ended the search.
InsertImpl(T, k) ==
  LET into(v, n) == [T EXCEPT !.slots[Min(Probed(T, k, n, v))] = k]
  IN IF LookupEntry(T, k) # NotFound THEN T
     ELSE IF Markers(T, k) # {} THEN into(Deleted, Min(Markers(T, k)))
     ELSE [into(Empty, LastProbe(T, k)) EXCEPT !.budget = @ - 1]

EraseToEmpty(T, k) ==
  LET i == LookupEntry(T, k)
  IN IF i = NotFound THEN T ELSE [T EXCEPT !.slots[i] = Empty, !.budget = @ + 1]

\* A group with an empty slot ends every probe, so one more does no harm.
EraseImpl(T, k) ==
  LET i == LookupEntry(T, k)
  IN IF i = NotFound THEN T
     ELSE IF Match(T, Masked(i, T.alloc), Empty) # {}
          THEN [T EXCEPT !.slots[i] = Empty, !.budget = @ + 1]
          ELSE [T EXCEPT !.slots[i] = Deleted]

----------------------------------------------------------------------------
(* Storage and entries                                                      *)

IsSmall(T) == T.alloc = setup.small

\* Destroy deallocates, and so does growing, unless the storage was small.
Deallocated(T) == IF T.alloc = 0 \/ IsSmall(T) THEN 0 ELSE 1

\* The orders in which a range may walk the groups of a table: in a debug
\* build from any group and with a stride of any odd number of groups.
Walks(T) ==
  LET n == T.alloc \div GroupSize
  IN {walk \in (0..(n - 1)) \X (1..n) : walk[2] % 2 = 1}

\* The present slots of the group that a walk visits after n others.
EntriesImpl(T, walk, n) ==
  {i \in Group(Masked((walk[1] + n * walk[2]) * GroupSize, T.alloc)) : T.slots[i] \in Keys}

\* The possible numbers of entries that DestroyEntries destroys, one by one.
DestroyEntries(T) ==
  IF T.alloc = 0 THEN {0}
  ELSE {Cardinality(UNION {{n} \X EntriesImpl(T, walk, n) : n \in Probes(T)}) :
          walk \in Walks(T)}

NewTable ==
  LET size == IF setup.small > 0 THEN setup.small ELSE MinAllocatedSize
  IN [alloc |-> size, slots |-> EmptySlots(size),
      storage |-> IF setup.small > 0 THEN "small" ELSE "heap",
      budget |-> GrowthThresholdForAllocSize(size)]

Allocated(T) == IF T.alloc = 0 \/ T.storage = "small" THEN 0 ELSE 1

Init ==
  /\ setup \in Setups
  /\ table = [t \in Tables |-> NoTable]
  /\ growing = {} /\ old = NoTable /\ left = {} /\ inserting = {}
  /\ heap = 0
  /\ live = 0
  /\ contents = [t \in Tables |-> {}]
  /\ reserved = [t \in Tables |-> 0]

----------------------------------------------------------------------------
(* Growing                                                                  *)

\* When the size doubles an entry in its first group stays at its index, in
\* the lower or in the higher half; deletion markers go.
AtHome(T, i) == Masked(setup.hash[T.slots[i]], T.alloc) = Masked(i, T.alloc)
Keeps(T, i) ==
  LET j == i % T.alloc
  IN /\ j \in PresentSlots(T) /\ AtHome(T, j)
     /\ Masked(setup.hash[T.slots[j]], 2 * T.alloc) = Masked(i, 2 * T.alloc)
Kept(T) ==
  [i \in 0..(2 * T.alloc - 1) |-> IF Keeps(T, i) THEN T.slots[i % T.alloc] ELSE Empty]

\* A new storage, into which all other entries are then inserted again, and
\* after them the given keys.
StartGrowth(t, size, keys) ==
  LET T == table[t]
      next == size = 2 * T.alloc
  IN /\ size <= MaxAllocSize
     /\ table' = [table EXCEPT ![t] =
          [alloc |-> size, budget |-> GrowthThresholdForAllocSize(size), storage |-> "heap",
           slots |-> IF next THEN Kept(T) ELSE EmptySlots(size)]]
     /\ growing' = {t} /\ old' = T /\ inserting' = keys
     /\ left' = {i \in PresentSlots(T) : next => ~AtHome(T, i)}
     /\ heap' = heap + 1
     /\ UNCHANGED live

Reinsert(t) ==
  /\ left # {}
  /\ table' = [table EXCEPT ![t] = InsertIntoEmpty(@, old.slots[Min(left)])]
  /\ left' = left \ {Min(left)}
  /\ UNCHANGED <<setup, growing, old, inserting, heap, live, contents, reserved>>

\* The table with the budget that its entries leave.
Charged(T) == [T EXCEPT !.budget = @ - Cardinality(PresentSlots(old))]

EndGrowth(t, T) ==
  /\ left = {}
  /\ table' = [table EXCEPT ![t] = T]
  /\ growing' = {} /\ old' = NoTable /\ left' = {} /\ inserting' = {}
  /\ heap' = heap - Deallocated(old)
  /\ UNCHANGED <<setup, contents, reserved>>

FinishGrowth(t) ==
  /\ inserting = {}
  /\ EndGrowth(t, Charged(table[t]))
  /\ UNCHANGED live

\* The end of GrowAndInsert: the key that found no budget has one now.
FinishInsert(t, k) ==
  /\ inserting = {k}
  /\ EndGrowth(t, InsertIntoEmpty([Charged(table[t]) EXCEPT !.budget = @ - 1], k))
  /\ live' = live + 1

GrowToAllocSizeImpl(t, target) ==
  \/ target > table[t].alloc /\ StartGrowth(t, target, {})
  \/ target <= table[t].alloc /\ UNCHANGED <<table, growthVars, heap, live>>

TargetForCountOnly(T, count) == NextPowerOf2(count + count \div (LoadDenominator - 1))

\* Deletion markers count as used here, though growing would clear them.
TargetForInsertCount(T, count) ==
  LET used == GrowthThresholdForAllocSize(T.alloc) - T.budget
      needed == used + count
  IN NextPowerOf2(needed + needed \div (LoadDenominator - 1))

GrowForInsertCountImpl(t, count) ==
  \/ count < table[t].budget /\ UNCHANGED <<table, growthVars, heap, live>>
  \/ /\ count >= table[t].budget
     /\ GrowToAllocSizeImpl(t, TargetForInsertCount(table[t], count))

----------------------------------------------------------------------------
(* The operations of Map and Set                                            *)

Insert(t, k) ==
  /\ Usable(t)
  /\ \/ /\ MustGrow(table[t], k)
        /\ StartGrowth(t, 2 * table[t].alloc, {k})
     \/ /\ ~MustGrow(table[t], k)
        /\ table' = [table EXCEPT ![t] = InsertImpl(@, k)]
        /\ live' = live + IF LookupEntry(table[t], k) = NotFound THEN 1 ELSE 0
        /\ UNCHANGED <<growthVars, heap>>
  /\ contents' = [contents EXCEPT ![t] = @ \cup {k}]
  /\ reserved' = IF k \in contents[t] \/ reserved[t] = 0 THEN reserved
                 ELSE [reserved EXCEPT ![t] = @ - 1]
  /\ UNCHANGED setup

Erase(t, k) ==
  /\ Usable(t)
  /\ table' = [table EXCEPT ![t] = EraseImpl(@, k)]
  /\ live' = live - IF LookupEntry(table[t], k) = NotFound THEN 0 ELSE 1
  /\ contents' = [contents EXCEPT ![t] = @ \ {k}]
  /\ UNCHANGED <<setup, growthVars, heap, reserved>>

GrowToAllocSize(t, size) ==
  /\ Usable(t) /\ IsPowerOf2(size)
  /\ GrowToAllocSizeImpl(t, size)
  /\ UNCHANGED <<setup, contents, reserved>>

GrowForInsertCount(t, count) ==
  /\ Usable(t)
  /\ GrowForInsertCountImpl(t, count)
  /\ reserved' = [reserved EXCEPT ![t] = count]
  /\ UNCHANGED <<setup, contents>>

\* Also a table that was moved from may be cleared, and stays as it is.
Clear(t) ==
  /\ Constructed(t)
  /\ table' = [table EXCEPT ![t].slots = EmptySlots(table[t].alloc),
                            ![t].budget = GrowthThresholdForAllocSize(table[t].alloc)]
  /\ \E n \in DestroyEntries(table[t]) : live' = live - n
  /\ contents' = [contents EXCEPT ![t] = {}]
  /\ UNCHANGED <<setup, growthVars, heap, reserved>>

----------------------------------------------------------------------------
(* Constructing, copying, moving and destroying                             *)

\* t is given table T and its keys; nothing is promised about insertions.
Replace(t, T, keys) ==
  /\ table' = [table EXCEPT ![t] = T]
  /\ contents' = [contents EXCEPT ![t] = keys]
  /\ reserved' = [reserved EXCEPT ![t] = 0]
  /\ UNCHANGED <<setup, growthVars>>

Construct(t) ==
  /\ ~Constructed(t)
  /\ Replace(t, NewTable, {})
  /\ heap' = heap + Allocated(NewTable)
  /\ UNCHANGED live

Destruct(t, T) ==
  /\ Constructed(t)
  /\ Replace(t, T, {})
  /\ heap' = heap - Deallocated(table[t]) + Allocated(T)
  /\ \E n \in DestroyEntries(table[t]) : live' = live - n

Reset(t) == Destruct(t, NewTable)

\* SetUpStorage and CopySlotsFrom: every entry in its slot, markers included.
CopyOf(u) ==
  [table[u] EXCEPT !.storage = IF table[u].alloc = 0 THEN "null"
                               ELSE IF IsSmall(table[u]) THEN "small" ELSE "heap"]

CopyConstruct(t, u) ==
  /\ ~Constructed(t) /\ Constructed(u)
  /\ Replace(t, CopyOf(u), contents[u])
  /\ heap' = heap + Allocated(CopyOf(u))
  /\ live' = live + Cardinality(PresentSlots(table[u]))

\* A storage of the right size is kept. From a table that was moved from, the
\* copy is as unusable.
CopyAssign(t, u) ==
  /\ Constructed(t) /\ Constructed(u)
  /\ t # u /\ (Usable(t) \/ Usable(u))
  /\ Replace(t, CopyOf(u), contents[u])
  /\ heap' = IF table[t].alloc = table[u].alloc THEN heap
             ELSE heap - Deallocated(table[t]) + Allocated(CopyOf(u))
  /\ \E n \in DestroyEntries(table[t]) :
       live' = live - n + Cardinality(PresentSlots(table[u]))

\* MoveFrom: a storage on the heap changes hands, a small one is moved slot by
\* slot; either way u is left without.
Moved(t, u) ==
  /\ table' = [table EXCEPT ![t] = table[u], ![u] = MovedFrom]
  /\ contents' = [contents EXCEPT ![t] = contents[u], ![u] = {}]
  /\ reserved' = [reserved EXCEPT ![t] = 0, ![u] = 0]
  /\ UNCHANGED <<setup, growthVars>>

MoveConstruct(t, u) ==
  /\ ~Constructed(t) /\ Constructed(u)
  /\ Moved(t, u)
  /\ UNCHANGED <<heap, live>>

MoveAssignLeaking(t, u) ==
  /\ Constructed(t) /\ Constructed(u)
  /\ Moved(t, u)
  /\ \E n \in DestroyEntries(table[t]) : live' = live - n
  /\ UNCHANGED heap

\* Moving a table onto itself destroys what it had.
MoveAssign(t, u) ==
  /\ Constructed(t) /\ Constructed(u)
  /\ Moved(t, u)
  /\ heap' = heap - Deallocated(table[t])
  /\ \E n \in DestroyEntries(table[t]) : live' = live - n

Operation(t) ==
  \/ \E k \in Keys : Insert(t, k) \/ Erase(t, k)
  \/ \E size \in GroupSize..MaxAllocSize : GrowToAllocSize(t, size)
  \/ \E n \in 1..MaxReserve : GrowForInsertCount(t, n)
  \/ Clear(t) \/ Construct(t) \/ Reset(t) \/ Destruct(t, NoTable)
  \/ \E u \in Tables : \/ CopyConstruct(t, u) \/ CopyAssign(t, u)
                       \/ MoveConstruct(t, u) \/ MoveAssign(t, u)

Idle == growing = {}

Next ==
  \/ Idle /\ \E t \in Tables : Operation(t)
  \/ \E t \in growing :
       Reinsert(t) \/ FinishGrowth(t) \/ \E k \in inserting : FinishInsert(t, k)

Spec == Init /\ [][Next]_vars

----------------------------------------------------------------------------
(* Properties                                                               *)

\* A table has the shape the header promises, and what it has been given is
\* given back: there is a storage on the heap for every table that is neither
\* small nor moved from (and, while a table grows, the one it leaves), and a
\* constructed entry for every slot that is present or yet to be moved,
\* whatever was copied, moved onto, cleared or destroyed.
TypeOK ==
  /\ setup \in Setups
  /\ \A t \in Tables :
       /\ table[t].alloc = 0 \/ IsPowerOf2(table[t].alloc)
       /\ table[t].slots \in [0..(table[t].alloc - 1) -> {Empty, Deleted} \cup Keys]
       /\ Usable(t) => table[t].storage = IF IsSmall(table[t]) THEN "small" ELSE "heap"
       /\ contents[t] \subseteq Keys
       /\ reserved[t] \in 0..MaxReserve
  /\ growing \subseteq Tables /\ left \subseteq PresentSlots(old)
  /\ heap = Cardinality({t \in Tables : table[t].storage = "heap"})
            + IF old.storage = "heap" THEN 1 ELSE 0
  /\ live = Cardinality(UNION {{t} \X PresentSlots(table[t]) : t \in Tables})
            + Cardinality(left)

\* Whatever the hashes and the history of collisions, deletions and growth, a
\* lookup finds exactly the keys that were inserted and not erased since, and
\* no key is there twice.
FindsWhatIsThere ==
  Idle => \A t \in Tables : Usable(t) =>
    /\ \A k \in Keys : (LookupEntry(table[t], k) # NotFound) <=> (k \in contents[t])
    /\ Cardinality(PresentSlots(table[t])) = Cardinality(contents[t])

\* growth_budget "is always GrowthThresholdForAllocSize(alloc_size) minus the
\* number of non-empty (filled or deleted) slots", and never negative, so that
\* deletion markers cannot use up the empty slots: every probe ends.
BudgetIsExact ==
  Idle => \A t \in Tables : Usable(t) =>
    LET T == table[t]
        nonEmpty == {i \in DOMAIN T.slots : T.slots[i] # Empty}
    IN /\ T.budget = GrowthThresholdForAllocSize(T.alloc) - Cardinality(nonEmpty)
       /\ T.budget >= 0
       /\ \A k \in Keys : Stops(T, k) # {}

\* GrowForInsertCount grows "sufficiently to allow inserting the specified
\* number of keys": the next so many new keys find a budget, whatever else is
\* erased, inserted again or cleared in between, and an insertion grows a
\* table only without one.
GrowthIsReserved ==
  Idle => \A t \in Tables : Usable(t) => reserved[t] <= table[t].budget

=============================================================================
