--------------------------- MODULE CheckScheduling ---------------------------
(***************************************************************************)
(* CheckParseTrees of toolchain/check/check.cpp: the files of one compile  *)
(* are registered by package and library, their imports are tracked, and   *)
(* each file is checked once the files it imports have been, with import   *)
(* cycles broken by dropping imports.                                      *)
(*                                                                         *)
(* A unit is its position in unit_infos.  A file is abstracted to its      *)
(* packaging declaration and its imports, and checking it to the moment it *)
(* is marked as checked; diagnostics and C++ domains are left out.         *)
(***************************************************************************)
EXTENDS Naturals, Sequences, FiniteSets, Functions

CONSTANTS
  N,            \* the number of units
  Programs,     \* the inputs: what the files declare and the options
  PreludeLibs   \* the library names that start with "prelude"

Units == 1..N

\* Package names; "" is PackageNameId::None, and as a library the default one.
None == ""
Main == "Main"
Cpp == "Cpp"
Core == "Core"
Prelude == "prelude"

ASSUME NAssumption == N \in Nat
ASSUME ProgramsAssumption ==
  \A prog \in Programs :
    /\ prog.prelude_import \in BOOLEAN
    /\ prog.fuzzing \in BOOLEAN
    /\ \A u \in Units :
         /\ prog.files[u].pkg \in STRING
         /\ prog.files[u].lib \in STRING
         /\ prog.files[u].impl \in BOOLEAN
         /\ prog.files[u].imports \in
              Seq([pkg : STRING, lib : STRING, inline : BOOLEAN, explicit : {TRUE}])

VARIABLES
  program,     \* the input
  pc,
  unit,        \* the unit a loop over unit_infos is at
  k,           \* the import of that unit TrackImport is at
  seen,        \* its explicit_import_map
  apis,        \* the units in api_map
  pkgs,        \* per unit, the packages of package_imports
  imports,     \* per unit, its Import entries: [pkg, unit]
  loadError,   \* per unit, the packages with has_load_error
  cppImports,  \* the units with cpp_imports
  remaining,   \* imports_remaining
  incoming,    \* incoming_imports
  apiFor,      \* api_for_impl, 0 if none
  ready,       \* ready_to_check
  idx,         \* check_index
  j,           \* the incoming import whose counter is decremented next
  order        \* history: the units checked so far, in order

tracking == <<apis, pkgs, loadError, cppImports, apiFor>>
vars == <<program, pc, unit, k, seen, tracking, imports, remaining, incoming,
          ready, idx, j, order>>

checked == Range(order)

----------------------------------------------------------------------------
(* Packaging names                                                          *)

File(u) == program.files[u]

\* The key of an import made in file u: its own package if none is named.
GetImportKey(u, imp) ==
  <<IF imp.pkg # None THEN imp.pkg ELSE File(u).pkg, imp.lib>>
KeyOf(u) == <<File(u).pkg, File(u).lib>>

\* What TrackImport is called with for a unit, in that order: the api of an
\* impl file, the prelude, and the import declarations.
ImplicitApi(u) ==
  IF File(u).impl
  THEN <<[pkg |-> None, lib |-> File(u).lib, inline |-> FALSE, explicit |-> FALSE]>>
  ELSE <<>>

ImplicitPrelude(u) ==
  IF program.prelude_import /\ ~(File(u).pkg = Core /\ File(u).lib \in PreludeLibs)
  THEN <<[pkg |-> IF File(u).pkg = Core THEN None ELSE Core, lib |-> Prelude,
          inline |-> FALSE, explicit |-> TRUE]>>
  ELSE <<>>

ImportsOf(u) == ImplicitApi(u) \o ImplicitPrelude(u) \o File(u).imports

\* The reasons to reject an explicit import that is not a repetition.
SamePackage(u, imp) == imp.pkg = None \/ imp.pkg = File(u).pkg
ImportSelf(u, imp) == SamePackage(u, imp) /\ imp.lib = File(u).lib
ImportMainDefaultLibrary(u, imp) ==
  File(u).pkg = None /\ imp.pkg = None /\ imp.lib = None
ImportCurrentPackageByName(u, imp) ==
  imp.pkg # None /\ (SamePackage(u, imp) \/ (File(u).pkg = None /\ imp.pkg = Main))
ImportMainPackage(u, imp) == imp.pkg # None /\ imp.pkg = Main

Rejected(u, imp) ==
  \/ imp.inline
  \/ imp.explicit /\ \/ GetImportKey(u, imp) \in seen
                     \/ ImportSelf(u, imp)
                     \/ ImportMainDefaultLibrary(u, imp)
                     \/ ImportCurrentPackageByName(u, imp)
                     \/ ImportMainPackage(u, imp)
  \/ ~imp.explicit /\ GetImportKey(u, imp)[1] = Main

----------------------------------------------------------------------------
Init ==
  /\ program \in Programs
  /\ pc = "apis"
  /\ unit = 1
  /\ k = 1
  /\ seen = {}
  /\ apis = {}
  /\ pkgs = [u \in Units |-> {}]
  /\ imports = [u \in Units |-> {}]
  /\ loadError = [u \in Units |-> {}]
  /\ cppImports = {}
  /\ remaining = [u \in Units |-> 0]
  /\ incoming = [u \in Units |-> <<>>]
  /\ apiFor = [u \in Units |-> 0]
  /\ ready = <<>>
  /\ idx = 1
  /\ j = 1
  /\ order = <<>>

(* BuildApiMapAndDiagnosePackaging, one unit at a time                      *)

IsApi(u) ==
  /\ File(u).pkg \notin {Main, Cpp}
  /\ ~File(u).impl
  /\ \A v \in apis : KeyOf(v) # KeyOf(u)      \* a duplicate is not inserted

BuildApiMap ==
  /\ pc = "apis"
  /\ IF unit <= N
     THEN /\ apis' = IF IsApi(unit) THEN apis \cup {unit} ELSE apis
          /\ unit' = unit + 1
          /\ UNCHANGED pc
     ELSE pc' = "track" /\ unit' = 1 /\ UNCHANGED apis
  /\ UNCHANGED <<program, k, seen, pkgs, loadError, cppImports, apiFor, imports,
                 remaining, incoming, ready, idx, j, order>>

----------------------------------------------------------------------------
(* TrackImport of the k-th import of a unit                                 *)

Tracking == pc = "track" /\ unit <= N /\ k <= Len(ImportsOf(unit))
Import == ImportsOf(unit)[k]

\* explicit_import_map keeps the key of an import that is rejected later.
SeenAfter ==
  IF Import.explicit /\ ~Import.inline
  THEN seen \cup {GetImportKey(unit, Import)} ELSE seen

TrackCpp ==
  /\ Tracking
  /\ Import.pkg = Cpp
  /\ cppImports' = IF Import.explicit /\ ~program.fuzzing
                   THEN cppImports \cup {unit} ELSE cppImports
  /\ k' = k + 1
  /\ UNCHANGED <<program, pc, unit, seen, apis, pkgs, loadError, apiFor, imports,
                 remaining, incoming, ready, idx, j, order>>

TrackRejected ==
  /\ Tracking
  /\ Import.pkg # Cpp
  /\ Rejected(unit, Import)
  /\ seen' = SeenAfter
  /\ k' = k + 1
  /\ UNCHANGED <<program, pc, unit, tracking, imports, remaining, incoming,
                 ready, idx, j, order>>

Accepted == Tracking /\ Import.pkg # Cpp /\ ~Rejected(unit, Import)

FoundUncounted ==
  /\ Accepted
  /\ \E v \in apis :
       /\ KeyOf(v) = GetImportKey(unit, Import)
       /\ imports' = [imports EXCEPT ![unit] = @ \cup {[pkg |-> Import.pkg, unit |-> v]}]
       /\ incoming' = [incoming EXCEPT ![v] = Append(@, unit)]
       /\ apiFor' = IF Import.explicit THEN apiFor ELSE [apiFor EXCEPT ![unit] = v]
  /\ pkgs' = [pkgs EXCEPT ![unit] = @ \cup {Import.pkg}]
  /\ seen' = SeenAfter
  /\ k' = k + 1
  /\ UNCHANGED <<program, pc, unit, apis, loadError, cppImports, remaining,
                 ready, idx, j, order>>

\* The api exists: link it both ways.
TrackFound ==
  /\ Accepted
  /\ \E v \in apis :
       /\ KeyOf(v) = GetImportKey(unit, Import)
       /\ imports' = [imports EXCEPT ![unit] = @ \cup {[pkg |-> Import.pkg, unit |-> v]}]
       /\ remaining' = [remaining EXCEPT ![unit] = @ + 1]
       /\ incoming' = [incoming EXCEPT ![v] = Append(@, unit)]
       /\ apiFor' = IF Import.explicit THEN apiFor ELSE [apiFor EXCEPT ![unit] = v]
  /\ pkgs' = [pkgs EXCEPT ![unit] = @ \cup {Import.pkg}]
  /\ seen' = SeenAfter
  /\ k' = k + 1
  /\ UNCHANGED <<program, pc, unit, apis, loadError, cppImports, ready, idx, j, order>>

TrackMissing ==
  /\ Accepted
  /\ \A v \in apis : KeyOf(v) # GetImportKey(unit, Import)
  /\ loadError' = [loadError EXCEPT ![unit] = @ \cup {Import.pkg}]
  /\ pkgs' = [pkgs EXCEPT ![unit] = @ \cup {Import.pkg}]
  /\ seen' = SeenAfter
  /\ k' = k + 1
  /\ UNCHANGED <<program, pc, unit, apis, cppImports, apiFor, imports, remaining,
                 incoming, ready, idx, j, order>>

----------------------------------------------------------------------------
(* CheckParseTrees                                                          *)

\* A unit without imports to wait for is ready at once.
FinishTracking ==
  /\ pc = "track"
  /\ unit <= N
  /\ k > Len(ImportsOf(unit))
  /\ ready' = IF remaining[unit] = 0 THEN Append(ready, unit) ELSE ready
  /\ unit' = unit + 1
  /\ k' = 1
  /\ seen' = {}
  /\ UNCHANGED <<program, pc, tracking, imports, remaining, incoming, idx, j, order>>

StartChecking ==
  /\ pc = "track"
  /\ unit > N
  /\ pc' = "check"
  /\ UNCHANGED <<program, unit, k, seen, tracking, imports, remaining, incoming,
                 ready, idx, j, order>>

CheckReady ==
  /\ pc = "check"
  /\ idx <= Len(ready)
  /\ order' = Append(order, ready[idx])
  /\ pc' = "notify"
  /\ j' = 1
  /\ UNCHANGED <<program, unit, k, seen, tracking, imports, remaining, incoming,
                 ready, idx>>

NotifyEarly ==
  /\ pc = "notify"
  /\ j <= Len(incoming[ready[idx]])
  /\ LET v == incoming[ready[idx]][j] IN
       /\ remaining' = [remaining EXCEPT ![v] = @ - 1]
       /\ ready' = IF remaining[v] <= 2 THEN Append(ready, v) ELSE ready
  /\ j' = j + 1
  /\ UNCHANGED <<program, pc, unit, k, seen, tracking, imports, incoming, idx, order>>

\* A file that waited for the checked one waits for one less.
Notify ==
  /\ pc = "notify"
  /\ j <= Len(incoming[ready[idx]])
  /\ LET v == incoming[ready[idx]][j] IN
       /\ remaining' = [remaining EXCEPT ![v] = @ - 1]
       /\ ready' = IF remaining[v] = 1 THEN Append(ready, v) ELSE ready
  /\ j' = j + 1
  /\ UNCHANGED <<program, pc, unit, k, seen, tracking, imports, incoming, idx, order>>

FinishNotify ==
  /\ pc = "notify"
  /\ j > Len(incoming[ready[idx]])
  /\ pc' = "check"
  /\ idx' = idx + 1
  /\ UNCHANGED <<program, unit, k, seen, tracking, imports, remaining, incoming,
                 ready, j, order>>

DoneWhenReadyIsEmpty ==
  /\ pc = "check"
  /\ idx > Len(ready)
  /\ pc' = "done"
  /\ unit' = 1
  /\ UNCHANGED <<program, k, seen, tracking, imports, remaining, incoming, ready,
                 idx, j, order>>

WaitForAll == Len(ready) = N /\ DoneWhenReadyIsEmpty

\* Everything reachable is checked; what is left waits on a cycle.
FinishReady ==
  /\ pc = "check"
  /\ idx > Len(ready)
  /\ pc' = IF Len(ready) < N THEN "mask" ELSE "done"
  /\ unit' = 1
  /\ UNCHANGED <<program, k, seen, tracking, imports, remaining, incoming, ready,
                 idx, j, order>>

Unchecked(u) == {imp \in imports[u] : imp.unit \notin checked}

MaskKeepsApi ==
  /\ pc = "mask"
  /\ unit <= N
  /\ IF remaining[unit] > 0
     THEN /\ imports' = [imports EXCEPT ![unit] = @ \ Unchecked(unit)]
          /\ loadError' = [loadError EXCEPT ![unit] =
                             @ \cup {imp.pkg : imp \in Unchecked(unit)}]
     ELSE UNCHANGED <<imports, loadError>>
  /\ unit' = unit + 1
  /\ UNCHANGED <<program, pc, k, seen, apis, pkgs, cppImports, apiFor, remaining,
                 incoming, ready, idx, j, order>>

MaskAll ==
  /\ pc = "mask"
  /\ unit <= N
  /\ IF remaining[unit] > 0
     THEN /\ imports' = [imports EXCEPT ![unit] = {}]
          /\ loadError' = [loadError EXCEPT ![unit] =
                             @ \cup {imp.pkg : imp \in imports[unit]}]
          /\ apiFor' = [apiFor EXCEPT ![unit] = 0]
     ELSE UNCHANGED <<imports, loadError, apiFor>>
  /\ unit' = unit + 1
  /\ UNCHANGED <<program, pc, k, seen, apis, pkgs, cppImports, remaining, incoming,
                 ready, idx, j, order>>

\* Drop the imports that were not checked, as if they had not been found.
MaskUnit ==
  /\ pc = "mask"
  /\ unit <= N
  /\ IF remaining[unit] > 0
     THEN /\ imports' = [imports EXCEPT ![unit] = @ \ Unchecked(unit)]
          /\ loadError' = [loadError EXCEPT ![unit] =
                             @ \cup {imp.pkg : imp \in Unchecked(unit)}]
          /\ apiFor' = IF \E imp \in Unchecked(unit) : imp.unit = apiFor[unit]
                       THEN [apiFor EXCEPT ![unit] = 0] ELSE apiFor
     ELSE UNCHANGED <<imports, loadError, apiFor>>
  /\ unit' = unit + 1
  /\ UNCHANGED <<program, pc, k, seen, apis, pkgs, cppImports, remaining, incoming,
                 ready, idx, j, order>>

FinishMask ==
  /\ pc = "mask"
  /\ unit > N
  /\ pc' = "rest"
  /\ unit' = 1
  /\ UNCHANGED <<program, k, seen, tracking, imports, remaining, incoming, ready,
                 idx, j, order>>

RecheckAll ==
  /\ pc = "rest"
  /\ unit <= N
  /\ order' = Append(order, unit)
  /\ unit' = unit + 1
  /\ UNCHANGED <<program, pc, k, seen, tracking, imports, remaining, incoming,
                 ready, idx, j>>

\* Check the remaining files, in the order of unit_infos.
CheckRest ==
  /\ pc = "rest"
  /\ unit <= N
  /\ order' = IF remaining[unit] > 0 THEN Append(order, unit) ELSE order
  /\ unit' = unit + 1
  /\ UNCHANGED <<program, pc, k, seen, tracking, imports, remaining, incoming,
                 ready, idx, j>>

Finish ==
  /\ pc = "rest"
  /\ unit > N
  /\ pc' = "done"
  /\ UNCHANGED <<program, unit, k, seen, tracking, imports, remaining, incoming,
                 ready, idx, j, order>>

Next ==
  \/ BuildApiMap
  \/ TrackCpp \/ TrackRejected \/ TrackFound \/ TrackMissing
  \/ FinishTracking \/ StartChecking
  \/ CheckReady \/ Notify \/ FinishNotify \/ FinishReady
  \/ MaskUnit \/ FinishMask \/ CheckRest \/ Finish

Spec == Init /\ [][Next]_vars
FairSpec == Spec /\ WF_vars(Next)

----------------------------------------------------------------------------
(* Properties                                                               *)

PCs == {"apis", "track", "check", "notify", "mask", "rest", "done"}

TypeOK ==
  /\ program \in Programs
  /\ pc \in PCs
  /\ unit \in 1..(N + 1)
  /\ k \in Nat \ {0}
  /\ apis \subseteq Units
  /\ \A u \in Units :
       /\ \A imp \in imports[u] : imp.unit \in Units /\ imp.pkg \in pkgs[u]
       /\ loadError[u] \subseteq pkgs[u]
       /\ remaining[u] \in Nat
       /\ incoming[u] \in Seq(Units)
  /\ cppImports \subseteq Units
  /\ apiFor \in [Units -> Units \cup {0}]
  /\ ready \in Seq(Units)
  /\ order \in Seq(Units)
  /\ idx \in Nat \ {0}
  /\ j \in Nat \ {0}

\* "Requires that all dependencies have been checked": whatever the import
\* graph, a file is checked only when every import it still has was checked.
ImportsCheckedFirst ==
  [][\A u \in Units : order' = Append(order, u) =>
       \A imp \in imports[u] : imp.unit \in checked]_vars

\* No file is checked twice, whether it was ready or waiting on a cycle, and
\* when checking is done every file was checked.
CheckedOnce ==
  /\ \A m, n \in DOMAIN order : order[m] = order[n] => m = n
  /\ pc = "done" => checked = Units

\* The units an import graph reaches a cycle from, by definition: those in
\* the largest set of which every member waits for another.
OnCycle ==
  LET Waits(u) == {v \in Units : \E i \in DOMAIN incoming[v] : incoming[v][i] = u}
      Closed(S) == \A u \in S : Waits(u) \cap S # {}
  IN  UNION {S \in SUBSET Units : Closed(S)}

\* Only cycles cost imports: when checking is done, a file has lost exactly
\* its imports of files that are on a cycle or import one that is.
OnlyCyclesAreMasked ==
  pc = "done" =>
    \A u, v \in Units :
      (\E i \in DOMAIN incoming[v] : incoming[v][i] = u) =>
        ((\E imp \in imports[u] : imp.unit = v) <=> v \notin OnCycle)

\* What is recorded about imports keeps up with rejecting and masking them: an
\* impl file's api, if it is set, is among its imports, as UnitAndImports says,
\* so it was checked before the impl file, which reads it; and a package that a
\* checked file imports from has something to import or is marked as failed to
\* load, which ImportLibrariesFromOtherPackage asserts.
ImportRecordsAgree ==
  /\ \A u \in Units : apiFor[u] # 0 => \E imp \in imports[u] : imp.unit = apiFor[u]
  /\ \A u \in checked : \A p \in pkgs[u] :
       p \in loadError[u] \/ \E imp \in imports[u] : imp.pkg = p

\* Checking ends, cycles or not.
CheckingEnds == <>(pc = "done")

=============================================================================
