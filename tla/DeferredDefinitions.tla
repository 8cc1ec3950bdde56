------------------------- MODULE DeferredDefinitions -------------------------
(***************************************************************************)
(* The order in which the nodes of one file's parse tree are checked.      *)
(*                                                                         *)
(* The body of a function that is defined inline in a class (or an impl,   *)
(* interface, constraint or union: here a "scope") is skipped when it is   *)
(* reached and checked when the outermost such scope around it is finished *)
(* (NodeIdTraversal, DeferredDefinitionWorklist). The lexical scopes       *)
(* around a skipped body are suspended and restored (module ScopeStack).   *)
(*                                                                         *)
(* The parser actions build every tree up to the bounds, with its table of *)
(* deferred definitions. Each node also records how the program reads at   *)
(* that place ("at"): the scopes around it, the declaration each name      *)
(* stands for and the compile-time bindings in scope, kept by the parser   *)
(* actions in "open" without any deferral. That is the reference for what  *)
(* the checker, which visits the nodes in another order, must see.         *)
(***************************************************************************)
EXTENDS ScopeStack, FiniteSets, FiniteSetsExt

CONSTANTS
  MaxSize,  \* bound: twice the classes, impls and functions of the file, plus
            \* its declarations and uses of names, blocks and thunks
  NoName    \* an entity without a name, or whose name nobody else uses

ASSUME BoundsAssumption == MaxSize \in Nat /\ NoName \notin Names

VARIABLES
  phase,     \* "parse", "check" or "done"
  tree,      \* the parse nodes, in postorder
  defs,      \* deferred_definitions(): start_id, definition_id, next_definition_index
  open,      \* the parser's state stack, with the reference environment
  opened,    \* deferred_definition_stack_ of the parser
  cx,        \* the scopes of Context, see ScopeStack
  chunks,    \* chunks_ of NodeIdTraversal
  nextDef,   \* next_deferred_definition_, an index into defs
  worklist,  \* worklist_ of DeferredDefinitionWorklist
  entered,   \* entered_scopes_ of DeferredDefinitionWorklist
  handled    \* history: the nodes whose handler has run

parseVars == <<tree, defs, open, opened>>
checkVars == <<cx, chunks, nextDef, worklist, entered, handled>>
vars == <<phase, parseVars, checkVars>>

----------------------------------------------------------------------------
(* The parser.                                                             *)

Opened(ent, fn, part) ==
  [ent |-> ent, fn |-> fn, part |-> part,
   decls |-> [n \in Names |-> 0], binds |-> <<>>]

IsLexical(o) == o.part # "body" \/ o.fn

\* What the program means at the current place, read off the open scopes.
Sees(n) ==
  LET depths == {d \in DOMAIN open : open[d].decls[n] # 0}
  IN IF depths = {} THEN [decl |-> 0, depth |-> 0]
     ELSE LET d == CHOOSE d \in depths : \A e \in depths : e <= d
          IN [decl |-> open[d].decls[n], depth |-> d]

AsWritten ==
  [inside |-> [d \in DOMAIN open |-> [ent |-> open[d].ent, fn |-> open[d].fn,
                                      part |-> open[d].part]],
   sees |-> [n \in Names |-> Sees(n)],
   binds |-> FlattenSeq([d \in DOMAIN open |-> open[d].binds])]

AddNode(kind, ent, name, flag) ==
  tree' = Append(tree, [kind |-> kind, ent |-> ent, name |-> name, flag |-> flag,
                        at |-> AsWritten])

NodeId == Len(tree) + 1
Entities == Cardinality({i \in DOMAIN tree : tree[i].kind = "Intro"})
Size == Entities + Cardinality({i \in DOMAIN tree :
                                  \/ tree[i].kind \in {"Intro", "Decl", "Use", "BlockStart"}
                                  \/ tree[i].kind = "ScopeEnd" /\ tree[i].flag
                                  \/ tree[i].name # NoName})
Top == Last(open)
Parent == open[Len(open) - 1]

\* Whether the function whose name is open is defined inline in a scope.
ParsingInDeferredDefinitionScope == ~IsLexical(Parent) /\ Parent.ent # Package

ParseIntro(fn) ==
  /\ Top.part # "name" /\ Size + 2 <= MaxSize
  /\ AddNode("Intro", Entities + 1, NoName, fn)
  /\ open' = Append(open, Opened(Entities + 1, fn, "name"))
  /\ UNCHANGED <<defs, opened>>

\* A parameter or a local variable; a class parameter is a compile-time
\* binding, a function parameter may be.
ParseDecl(n, symbolic) ==
  /\ IsLexical(Top) /\ Size < MaxSize
  /\ ~Top.fn => symbolic
  /\ Top.part # "name" => ~symbolic
  /\ AddNode("Decl", Top.ent, n, symbolic)
  /\ open' = [open EXCEPT
       ![Len(open)].decls[n] = IF @ = 0 THEN NodeId ELSE @,
       ![Len(open)].binds = IF symbolic THEN Append(@, NodeId) ELSE @]
  /\ UNCHANGED <<defs, opened>>

ParseUse(n) ==
  /\ Top.fn /\ Sees(n).decl # 0 /\ Size < MaxSize
  /\ AddNode("Use", Top.ent, n, FALSE)
  /\ UNCHANGED <<defs, open, opened>>

\* The names an entity can declare: a lexical one only inside a function.
EntityNames == IF IsLexical(Parent) THEN Names \cup {NoName} ELSE {NoName}

\* The open scopes once the current entity has declared its name.
NameDeclared(n) ==
  IF n = NoName \/ Parent.decls[n] # 0 \/ Top.decls[n] # 0 THEN open
  ELSE [open EXCEPT ![Len(open) - 1].decls[n] = NodeId]

\* A declaration that is not a definition: `fn F();`, `class C;`.
ParseForward(n) ==
  /\ Top.part = "name" /\ n \in EntityNames /\ (n = NoName \/ Size < MaxSize)
  /\ AddNode("Forward", Top.ent, n, Top.fn)
  /\ open' = Front(NameDeclared(n))
  /\ UNCHANGED <<defs, opened>>

\* A class definition's start, or AddFunctionDefinitionStart.
ParseStart(n) ==
  /\ Top.part = "name" /\ n \in EntityNames /\ (n = NoName \/ Size < MaxSize)
  /\ AddNode("Start", Top.ent, n, Top.fn)
  /\ open' = Append(NameDeclared(n), Opened(Top.ent, Top.fn, "body"))
  /\ IF Top.fn /\ ParsingInDeferredDefinitionScope
     THEN /\ defs' = Append(defs, [start |-> NodeId, end |-> 0, next |-> 0])
          /\ opened' = Append(opened, Len(defs) + 1)
     ELSE UNCHANGED <<defs, opened>>

\* The end of a definition; that of a scope may need a thunk.
ParseEnd(thunk) ==
  /\ Top.part = "body" /\ Top.ent # Package
  /\ thunk => ~Top.fn /\ Size < MaxSize
  /\ AddNode(IF Top.fn THEN "FnEnd" ELSE "ScopeEnd", Top.ent, NoName, thunk)
  /\ open' = Front(Front(open))
  /\ LET around == open[Len(open) - 2]
     IN IF Top.fn /\ ~IsLexical(around) /\ around.ent # Package
        THEN /\ defs' = [defs EXCEPT ![Last(opened)].end = NodeId,
                                     ![Last(opened)].next = Len(defs) + 1]
             /\ opened' = Front(opened)
        ELSE UNCHANGED <<defs, opened>>

ParseBlockStart ==
  /\ Top.fn /\ Top.part # "name" /\ Size < MaxSize
  /\ AddNode("BlockStart", Top.ent, NoName, FALSE)
  /\ open' = Append(open, Opened(Top.ent, TRUE, "block"))
  /\ UNCHANGED <<defs, opened>>

ParseBlockEnd ==
  /\ Top.part = "block"
  /\ AddNode("BlockEnd", Top.ent, NoName, FALSE)
  /\ open' = Front(open)
  /\ UNCHANGED <<defs, opened>>

Parse ==
  /\ phase = "parse"
  /\ UNCHANGED <<phase, checkVars>>
  /\ \/ \E fn \in BOOLEAN : ParseIntro(fn)
     \/ \E n \in Names, symbolic \in BOOLEAN : ParseDecl(n, symbolic)
     \/ \E n \in Names : ParseUse(n)
     \/ \E n \in Names \cup {NoName} : ParseForward(n)
     \/ \E n \in Names \cup {NoName} : ParseStart(n)
     \/ \E thunk \in BOOLEAN : ParseEnd(thunk)
     \/ ParseBlockStart
     \/ ParseBlockEnd

\* The whole file is parsed: one chunk with all its nodes.
ParseFinish ==
  /\ phase = "parse" /\ Len(open) = 1 /\ tree # <<>>
  /\ phase' = "check"
  /\ chunks' = <<[it |-> 1, end |-> Len(tree) + 1, next |-> 0,
                  deferring |-> FALSE, first |-> 0, task |-> 0]>>
  /\ nextDef' = 1
  /\ UNCHANGED <<parseVars, cx, worklist, entered, handled>>

----------------------------------------------------------------------------
(* The worklist. Its indices count from 0, as in the code.                 *)

Chunk == Last(chunks)
Node == tree[Chunk.it]
InChunk(changes(_)) == chunks' = [chunks EXCEPT ![Len(chunks)] = changes(@)]

AtDeferredDefinition == nextDef <= Len(defs) /\ Chunk.it = defs[nextDef].start

\* A node of the current chunk is about to be handled.
AtNode ==
  /\ phase = "check" /\ ~Chunk.deferring
  /\ Chunk.it # Chunk.end /\ ~AtDeferredDefinition

Task(kind, def, sus, of) == [kind |-> kind, def |-> def, sus |-> sus, of |-> of]
NotSuspended == [name |-> [initial |-> NoScope, lexicalParent |-> FALSE], scopes |-> <<>>]

\* BuildThunk, up to the deferred definition of the thunk.
SuspendThunkAndPush ==
  LET pushed == PushForDeclName(cx, Node.ent)
  IN [cx |-> AfterSuspend(pushed),
      worklist |-> Append(worklist, Task("thunk", 0, SuspendedScope(pushed), Node.ent))]

NeverNested(c) == FALSE

\* Whether the scope just entered is directly inside the last one entered.
IsNested(c) == entered # <<>> /\ Last(entered).scope = PeekInitialScopeIndex(c)

PushEnterDeferredDefinitionScope(c) ==
  /\ entered' = Append(entered, [nested |-> IsNested(c), start |-> Len(worklist),
                                 scope |-> PeekIndex(c)])
  /\ worklist' = IF IsNested(c) THEN Append(worklist, Task("enter", 0, NotSuspended, 0))
                 ELSE worklist

NoLeaveTask == <<>>
LeaveTask == <<Task("leave", 0, NotSuspended, 0)>>

\* The four outcomes of SuspendFinishedScopeAndPush, for context c and
\* worklist w.
LeaveNonNestedEmpty(c, w) ==
  /\ ~Last(entered).nested /\ Last(entered).start = Len(w)
  /\ cx' = PopScope(c, FALSE)
  /\ worklist' = w

LeaveNestedEmpty(c, w) ==
  /\ Last(entered).nested /\ Last(entered).start = Len(w) - 1
  /\ cx' = Check(PopScope(c, FALSE), Last(w).kind = "enter")
  /\ worklist' = Front(w)

LeaveNested(c, w) ==
  /\ Last(entered).nested /\ Last(entered).start # Len(w) - 1
  /\ LET suspended == SuspendName(c)
     IN /\ cx' = Check(suspended.cx, w[Last(entered).start + 1].kind = "enter")
        /\ worklist' = [w EXCEPT ![Last(entered).start + 1].sus = suspended.sus]
                       \o LeaveTask

StartDeferred(c, w) ==
  /\ ~Last(entered).nested /\ Last(entered).start # Len(w)
  /\ cx' = c
  /\ worklist' = w

----------------------------------------------------------------------------
(* Handlers of the parse nodes.                                            *)

Handled == handled' = handled \cup {Chunk.it}

Advance ==
  /\ InChunk(LAMBDA c : [c EXCEPT !.it = @ + 1])
  /\ Handled

Handle(kind) ==
  /\ AtNode /\ Node.kind = kind
  /\ Advance
  /\ UNCHANGED <<phase, parseVars, nextDef>>

Named(c) == IF Node.name = NoName THEN c ELSE FinishName(c, Node.name, Chunk.it)

HandleIntro ==
  /\ Handle("Intro")
  /\ cx' = PushScopeAndStartName(cx, Node.ent)
  /\ UNCHANGED <<worklist, entered>>

HandleDecl ==
  /\ Handle("Decl")
  /\ LET added == LookupOrAddName(cx, Node.name, Chunk.it, PeekIndex(cx), TRUE)
     IN cx' = IF Node.flag THEN AddCompileTimeBinding(added, Chunk.it) ELSE added
  /\ UNCHANGED <<worklist, entered>>

HandleUse ==
  /\ Handle("Use")
  /\ cx' = MarkUsed(cx, Node.name)
  /\ UNCHANGED <<worklist, entered>>

HandleForward ==
  /\ Handle("Forward")
  /\ cx' = PopScope(Named(cx), FALSE)
  /\ UNCHANGED <<worklist, entered>>

HandleFunctionStart ==
  /\ Handle("Start") /\ Node.flag
  /\ cx' = PushForFunctionBody(Named(cx), Node.ent)
  /\ UNCHANGED <<worklist, entered>>

HandleFunctionEnd ==
  /\ Handle("FnEnd")
  /\ cx' = PopScope(Pop(cx, TRUE), TRUE)
  /\ UNCHANGED <<worklist, entered>>

HandleBlockStart ==
  /\ Handle("BlockStart")
  /\ cx' = PushForSameRegion(cx, Node.ent)
  /\ UNCHANGED <<worklist, entered>>

HandleBlockEnd ==
  /\ Handle("BlockEnd")
  /\ cx' = Pop(cx, TRUE)
  /\ UNCHANGED <<worklist, entered>>

HandleScopeStart ==
  /\ Handle("Start") /\ ~Node.flag
  /\ cx' = PushForEntity(Named(cx), Node.ent)
  /\ PushEnterDeferredDefinitionScope(cx')

\* The definition's own handler, which may build a thunk, and then
\* NodeIdTraversal::Handle.
HandleScopeEnd ==
  /\ AtNode /\ Node.kind = "ScopeEnd"
  /\ Handled
  /\ entered' = Front(entered)
  /\ LET built == IF Node.flag THEN SuspendThunkAndPush
                  ELSE [cx |-> cx, worklist |-> worklist]
     IN \/ /\ \/ LeaveNonNestedEmpty(built.cx, built.worklist)
              \/ LeaveNestedEmpty(built.cx, built.worklist)
              \/ LeaveNested(built.cx, built.worklist)
           /\ InChunk(LAMBDA c : [c EXCEPT !.it = @ + 1])
        \/ /\ StartDeferred(built.cx, built.worklist)
           /\ InChunk(LAMBDA c : [c EXCEPT !.it = @ + 1, !.deferring = TRUE,
                                           !.task = c.first])
  /\ UNCHANGED <<phase, parseVars, nextDef>>

----------------------------------------------------------------------------
(* NodeIdTraversal::Next: what it does before it returns a node.           *)

\* A deferred definition is reached: build the declaration, skip the body.
SuspendFunctionAndPush ==
  /\ phase = "check" /\ ~Chunk.deferring
  /\ Chunk.it # Chunk.end /\ AtDeferredDefinition
  /\ LET suspended == SuspendName(Named(cx))
     IN /\ cx' = suspended.cx
        /\ worklist' = Append(worklist, Task("check", nextDef, suspended.sus, Node.ent))
  /\ Handled
  /\ InChunk(LAMBDA c : [c EXCEPT !.it = defs[nextDef].end + 1])
  /\ nextDef' = defs[nextDef].next
  /\ UNCHANGED <<phase, parseVars, entered>>

NextTask == worklist[Chunk.task + 1]
AtTask == phase = "check" /\ Chunk.deferring /\ Chunk.task < Len(worklist)

Perform(kind) ==
  /\ AtTask /\ NextTask.kind = kind
  /\ UNCHANGED <<phase, parseVars, worklist, entered, handled>>

NextTaskTaken == [chunks EXCEPT ![Len(chunks)].task = @ + 1]

PerformEnter ==
  /\ Perform("enter")
  /\ cx' = Check(RestoreName(cx, NextTask.sus), NextTask.sus # NotSuspended)
  /\ chunks' = NextTaskTaken
  /\ UNCHANGED nextDef

PerformLeave ==
  /\ Perform("leave")
  /\ cx' = PopScope(cx, FALSE)
  /\ chunks' = NextTaskTaken
  /\ UNCHANGED nextDef

\* HandleFunctionDefinitionResume, and a chunk for the nodes of the body.
PerformCheck ==
  /\ Perform("check")
  /\ cx' = PushForFunctionBody(RestoreName(cx, NextTask.sus), NextTask.of)
  /\ chunks' = Append(NextTaskTaken,
                      [it |-> defs[NextTask.def].start + 1,
                       end |-> defs[NextTask.def].end + 1,
                       next |-> nextDef, deferring |-> FALSE,
                       first |-> Len(worklist), task |-> Len(worklist)])
  /\ nextDef' = NextTask.def + 1

\* BuildThunkDefinition: its scope restored, its body built, both left.
PerformThunk ==
  /\ Perform("thunk")
  /\ cx' = LET thunk == PushForFunctionBody(Restore(cx, NextTask.sus), NextTask.of)
           IN Pop(Pop(thunk, TRUE), FALSE)
  /\ chunks' = NextTaskTaken
  /\ UNCHANGED nextDef

NothingLeft(first) == <<>>
EverythingLeft(first) == worklist
Truncated(first) == SubSeq(worklist, 1, first)

\* All tasks of the outermost scope are done: drop them and leave the scope.
FinishTasks ==
  /\ phase = "check" /\ Chunk.deferring /\ Chunk.task >= Len(worklist)
  /\ worklist' = Truncated(Chunk.first)
  /\ cx' = PopScope(cx, FALSE)
  /\ InChunk(LAMBDA c : [c EXCEPT !.deferring = FALSE])
  /\ UNCHANGED <<phase, parseVars, nextDef, entered, handled>>

FinishChunk ==
  /\ phase = "check" /\ ~Chunk.deferring /\ Chunk.it = Chunk.end
  /\ chunks' = Front(chunks)
  /\ IF Len(chunks) = 1
     THEN /\ phase' = "done"
          /\ cx' = Check(FinishRun(cx), worklist = <<>> /\ entered = <<>>)
          /\ UNCHANGED nextDef
     ELSE /\ nextDef' = Chunk.next
          /\ UNCHANGED <<phase, cx>>
  /\ UNCHANGED <<parseVars, worklist, entered, handled>>

----------------------------------------------------------------------------
Init ==
  /\ phase = "parse"
  /\ tree = <<>> /\ defs = <<>> /\ opened = <<>>
  /\ open = <<Opened(Package, FALSE, "body")>>
  /\ cx = EmptyContext
  /\ chunks = <<>> /\ nextDef = 0 /\ worklist = <<>> /\ entered = <<>>
  /\ handled = {}

CheckStep ==
  \/ HandleIntro \/ HandleDecl \/ HandleUse \/ HandleForward
  \/ HandleFunctionStart \/ HandleFunctionEnd
  \/ HandleBlockStart \/ HandleBlockEnd
  \/ HandleScopeStart \/ HandleScopeEnd
  \/ SuspendFunctionAndPush
  \/ PerformEnter \/ PerformLeave \/ PerformCheck \/ PerformThunk
  \/ FinishTasks \/ FinishChunk

Finished == phase = "done" /\ UNCHANGED vars

Next == Parse \/ ParseFinish \/ CheckStep \/ Finished

Spec == Init /\ [][Next]_vars

----------------------------------------------------------------------------
(* Properties.                                                             *)

\* The checker is about to handle, or to skip from, the node it is at.
Visiting == phase = "check" /\ ~Chunk.deferring /\ Chunk.it # Chunk.end

\* The state has the shape the code's types give it: nodes and scope indices
\* are in range, a worklist index never runs past the worklist.
TypeOK ==
  /\ phase \in {"parse", "check", "done"}
  /\ \A d \in DOMAIN defs : defs[d].start \in DOMAIN tree
                            /\ defs[d].end \in 0..Len(tree)
                            /\ defs[d].next \in 0..Len(defs) + 1
  /\ \A i \in DOMAIN cx.scopes : cx.scopes[i].index \in 0..cx.next - 1
  /\ \A n \in Names : \A i \in DOMAIN cx.lookup[n] :
       cx.lookup[n][i].decl \in DOMAIN tree /\ cx.lookup[n][i].used \in BOOLEAN
  /\ \A i \in DOMAIN chunks : /\ chunks[i].it \in 1..chunks[i].end
                              /\ chunks[i].first <= Len(worklist)
                              /\ chunks[i].deferring => chunks[i].task <= Len(worklist)
  /\ nextDef \in 0..Len(defs) + 1
  /\ \A i \in DOMAIN worklist : worklist[i].kind \in {"check", "thunk", "enter", "leave"}
  /\ \A i \in DOMAIN entered : entered[i].nested \in BOOLEAN
  /\ handled \subseteq DOMAIN tree

\* No CARBON_CHECK of the scope stack, the name stack, the worklist or the
\* traversal fails: scopes are left and restored where they were suspended,
\* lookup results and compile-time bindings are those of the scope left, and
\* at the end of the file nothing is left behind.
NoCheckFails == ~cx.failed

\* Every node is checked in the scopes it is written in, although bodies are
\* checked later and out of order: the open scopes, the function that a
\* `return` there belongs to, and for a thunk the scope that needs it (which
\* no CHECK looks at). Their indices increase, restored scopes included, which
\* the comparisons and the binary search of lexical lookup rely on.
ScopesAsWritten ==
  /\ Visiting =>
       LET inside == Node.at.inside
           inner == Last(inside)
           inFunction == inner.part # "name" /\ inner.fn
       IN /\ Len(cx.scopes) = Len(inside)
          /\ \A d \in DOMAIN inside : /\ cx.scopes[d].ent = inside[d].ent
                                      /\ cx.scopes[d].part = inside[d].part
                                      /\ d > 1 => cx.scopes[d - 1].index < cx.scopes[d].index
          /\ InReturnScope(cx) <=> inFunction
          /\ inFunction => Last(cx.returns).ent = inner.ent
  /\ AtTask /\ NextTask.kind = "thunk" =>
       Peek(cx).ent = NextTask.of /\ Peek(cx).part = "body"

\* At every node unqualified lookup finds the declaration that the name
\* stands for where it is written, searches the class scopes between the two
\* first, and the compile-time bindings have the indices they were given.
NamesAsWritten ==
  Visiting =>
    LET at == Node.at
        scopeBodies(depth) ==
          SelectSeq([d \in DOMAIN at.inside |->
                       IF d >= depth THEN at.inside[d]
                       ELSE [ent |-> 0, fn |-> TRUE, part |-> "name"]],
                    LAMBDA o : o.part = "body" /\ ~o.fn)
        entOf(index) == cx.scopes[CHOOSE i \in DOMAIN cx.scopes :
                                    cx.scopes[i].index = index].ent
    IN /\ \A n \in Names :
            LET found == cx.lookup[n]
                written == at.sees[n]
                searched == NonLexicalWithin(cx, n)
            IN /\ (found = <<>>) <=> (written.decl = 0)
               /\ found # <<>> =>
                    /\ Last(found).decl = written.decl
                    /\ Last(found).scope = cx.scopes[written.depth].index
               /\ [i \in DOMAIN searched |-> entOf(searched[i])]
                    = [i \in DOMAIN scopeBodies(written.depth) |->
                         scopeBodies(written.depth)[i].ent]
       /\ AllBindings(cx) = at.binds

\* A function body is checked only when every class around it is complete:
\* "A.B.F is type-checked here, with A complete". No node is handled twice, and
\* at the end of the file every node has been.
BodiesAfterScopes ==
  /\ Visiting =>
       LET inside == Node.at.inside
       IN /\ Chunk.it \notin handled
          /\ \A f \in DOMAIN inside : inside[f].part = "body" /\ inside[f].fn =>
               \A c \in 2..f : inside[c].part = "body" /\ ~inside[c].fn =>
                 \E i \in handled : tree[i].kind = "ScopeEnd" /\ tree[i].ent = inside[c].ent
  /\ phase = "done" => handled = DOMAIN tree

\* "binding unused" is emitted exactly for the parameters and variables of
\* function definitions that nothing refers to, also when the uses are in
\* bodies that were checked while other scopes were suspended.
UnusedAsWritten ==
  LET declared(d) == tree[d].at.sees[tree[d].name].depth # Len(tree[d].at.inside)
      defined(e) == \E i \in DOMAIN tree : tree[i].kind = "FnEnd" /\ tree[i].ent = e
      usesOf(d) == {u \in DOMAIN tree : /\ tree[u].kind = "Use"
                                        /\ tree[u].name = tree[d].name
                                        /\ tree[u].at.sees[tree[u].name].decl = d}
  IN phase = "done" =>
       cx.unused = {d \in DOMAIN tree : /\ tree[d].kind = "Decl" /\ declared(d)
                                        /\ defined(tree[d].ent) /\ usesOf(d) = {}}

\* What is left to do: nodes to handle, tasks on the worklist that have not
\* been taken, chunks to finish. A node adds at most two tasks and a batch of
\* tasks to run, a task at most one chunk.
Remaining ==
  LET deferring == {i \in DOMAIN chunks : chunks[i].deferring}
      taken == MapThenSumSet(LAMBDA i : chunks[i].task - chunks[i].first, deferring)
  IN 6 * (Len(tree) - Cardinality(handled)) + 2 * (Len(worklist) - taken)
     + Len(chunks) + Cardinality(deferring)

\* Every step of the traversal leaves less to do, so that (a state with work
\* to do being no deadlock) the check of a file ends however its definitions
\* are nested: no body is resumed for ever, no task is run again.
CheckingProgresses == [][phase = "check" => Remaining' < Remaining]_vars

=============================================================================
