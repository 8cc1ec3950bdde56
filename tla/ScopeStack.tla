----------------------------- MODULE ScopeStack -----------------------------
(***************************************************************************)
(* The scopes a file is being checked in: ScopeStack, LexicalLookup and    *)
(* DeclNameStack, as operators on one record, the part of Context that the *)
(* handlers of the parse nodes share:                                      *)
(*                                                                         *)
(*   scopes      scope_stack_, outermost first                             *)
(*   nonLexical  non_lexical_scope_stack_, as scope indices                *)
(*   lookup      lexical_lookup_: for each name, the declarations of it    *)
(*               that are in scope, innermost last                         *)
(*   returns     return_scope_stack_                                       *)
(*   bindings    compile_time_binding_stack_                               *)
(*   next        next_scope_index_                                         *)
(*   names       decl_name_stack_                                          *)
(*   unused      the declarations for which UnusedBinding was emitted      *)
(*   failed      whether a CARBON_CHECK has failed                         *)
(*                                                                         *)
(* A scope belongs to an entity (a class, an impl, a function) and is the  *)
(* scope of its name and parameters ("name") or of its definition          *)
(* ("body"), or it is a block. Scopes of classes and impls and the package *)
(* have a NameScopeId, so their names are not in lexical_lookup_. A        *)
(* declaration is named by its parse node.                                 *)
(***************************************************************************)
EXTENDS Integers, SequencesExt

CONSTANTS Names  \* identifiers

Package == 0     \* the entity of the file's own scope
NoScope == -1    \* ScopeIndex::None

Peek(cx) == Last(cx.scopes)
PeekIndex(cx) == Peek(cx).index
AllBindings(cx) == FlattenSeq(cx.bindings)
Check(cx, condition) == [cx EXCEPT !.failed = @ \/ ~condition]

----------------------------------------------------------------------------
(* Entering and leaving scopes.                                            *)

Push(cx, ent, part, lexical) ==
  [cx EXCEPT
     !.scopes = Append(@, [index |-> cx.next, ent |-> ent, part |-> part,
                           lexical |-> lexical, names |-> {},
                           nextBind |-> Len(AllBindings(cx))]),
     !.bindings = Append(@, <<>>),
     !.nonLexical = IF lexical THEN @ ELSE Append(@, cx.next),
     !.next = @ + 1]

InReturnScope(cx) == cx.returns # <<>> /\ Last(cx.returns).nested = NoScope

MarkNestingIfInReturnScope(cx) ==
  IF InReturnScope(cx)
  THEN [cx EXCEPT !.returns[Len(cx.returns)].nested = PeekIndex(cx)]
  ELSE cx

PushForDeclName(cx, ent) ==
  MarkNestingIfInReturnScope(Push(cx, ent, "name", TRUE))

PushForEntity(cx, ent) ==
  MarkNestingIfInReturnScope(Push(cx, ent, "body", FALSE))

PushForSameRegion(cx, ent) == Push(cx, ent, "block", TRUE)

PushForFunctionBody(cx, ent) ==
  [Push(cx, ent, "body", TRUE) EXCEPT
     !.returns = Append(@, [ent |-> ent, nested |-> NoScope])]

\* What Pop does to return_scope_stack_ when it leaves scope s.
LeaveReturnScope(returns, s) ==
  CASE returns = <<>> -> returns
    [] returns # <<>> /\ s.part = "body" /\ Last(returns).ent = s.ent ->
         Front(returns)
    [] returns # <<>> /\ Last(returns).nested = s.index ->
         [returns EXCEPT ![Len(returns)].nested = NoScope]
    [] OTHER -> returns

ResultsKept(lookup, s) == lookup

\* The results of the names of scope s no longer on top of their stacks.
WithoutResults(lookup, s) ==
  [n \in Names |-> IF n \in s.names THEN Front(lookup[n]) ELSE lookup[n]]

Pop(cx, checkUnused) ==
  LET s == Peek(cx)
      tops == {Last(cx.lookup[n]) : n \in s.names}
      popped ==
        [cx EXCEPT
           !.scopes = Front(@),
           !.lookup = WithoutResults(@, s),
           !.nonLexical = IF s.lexical THEN @ ELSE Front(@),
           !.returns = LeaveReturnScope(@, s),
           !.bindings = Front(@),
           !.unused = IF checkUnused
                      THEN @ \cup {r.decl : r \in {t \in tops : t.binding /\ ~t.used}}
                      ELSE @]
  IN Check(popped, /\ \A r \in tops : r.scope = s.index
                   /\ ~s.lexical => Last(cx.nonLexical) = s.index
                   /\ Len(AllBindings(cx)) = s.nextBind)

ScopesAbove(cx, index) == SelectSeq(cx.scopes, LAMBDA s : s.index > index)

PopTo(cx, index, checkUnused) ==
  LET popped == FoldLeft(LAMBDA c, s : Pop(c, checkUnused), cx, ScopesAbove(cx, index))
  IN Check(popped, PeekIndex(popped) = index)

\* The end of the file: its own scope is popped and every stack is empty.
FinishRun(cx) ==
  LET popped == Pop(cx, TRUE)
  IN Check(popped, /\ popped.scopes = <<>> /\ popped.nonLexical = <<>>
                   /\ popped.returns = <<>> /\ popped.bindings = <<>>
                   /\ popped.names = <<>>)

EmptyContext ==
  PushForEntity([scopes |-> <<>>, nonLexical |-> <<>>, returns |-> <<>>,
                 lookup |-> [n \in Names |-> <<>>], bindings |-> <<>>, next |-> 0,
                 names |-> <<>>, unused |-> {}, failed |-> FALSE], Package)

----------------------------------------------------------------------------
(* Names and compile-time bindings.                                        *)

\* Whether name n is already declared in the scope with this index or in one
\* inside it.
DeclaredWithin(cx, n, index) ==
  cx.lookup[n] # <<>> /\ Last(cx.lookup[n]).scope >= index

\* Declare n in the scope with this index, unless it is declared already
\* (which is diagnosed, and leaves the first declaration).
LookupOrAddName(cx, n, decl, index, binding) ==
  LET depth == CHOOSE d \in DOMAIN cx.scopes : cx.scopes[d].index = index
  IN IF DeclaredWithin(cx, n, index) THEN cx
     ELSE Check([cx EXCEPT
                   !.scopes[depth].names = @ \cup {n},
                   !.lookup[n] = Append(@, [decl |-> decl, scope |-> index,
                                            binding |-> binding, used |-> FALSE])],
                n \notin cx.scopes[depth].names)

MarkUsed(cx, n) ==
  IF cx.lookup[n] = <<>> THEN cx
  ELSE [cx EXCEPT !.lookup[n][Len(cx.lookup[n])].used = TRUE]

\* The class and package scopes that unqualified lookup of n searches before
\* its lexical result: those inside the scope of that result.
NonLexicalWithin(cx, n) ==
  SelectSeq(cx.nonLexical, LAMBDA i : cx.lookup[n] = <<>> \/ i >= Last(cx.lookup[n]).scope)

AddCompileTimeBinding(cx, decl) ==
  [cx EXCEPT !.scopes[Len(cx.scopes)].nextBind = @ + 1,
             !.bindings[Len(cx.bindings)] = Append(@, decl)]

----------------------------------------------------------------------------
(* Suspending the innermost scope, and restoring it elsewhere.             *)

SuspendedScope(cx) ==
  [entry |-> Peek(cx),
   items |-> [n \in Peek(cx).names |-> Last(cx.lookup[n])],
   binds |-> Last(cx.bindings)]

AfterSuspend(cx) ==
  [cx EXCEPT !.scopes = Front(@),
             !.lookup = WithoutResults(@, Peek(cx)),
             !.nonLexical = IF Peek(cx).lexical THEN @ ELSE Front(@),
             !.bindings = Front(@)]

RestoredUnused(result, index) == [result EXCEPT !.scope = index, !.used = FALSE]
Restored(result, index) == [result EXCEPT !.scope = index]

Restore(cx, sus) ==
  LET back == [cx EXCEPT
                 !.bindings = Append(@, sus.binds),
                 !.lookup = [n \in Names |->
                   IF n \in DOMAIN sus.items
                   THEN Append(@[n], Restored(sus.items[n], sus.entry.index))
                   ELSE @[n]],
                 !.nonLexical = IF sus.entry.lexical THEN @
                                ELSE Append(@, sus.entry.index),
                 !.scopes = Append(@, sus.entry)]
  IN Check(back, Len(AllBindings(back)) = sus.entry.nextBind)

----------------------------------------------------------------------------
(* DeclNameStack.                                                          *)

PushScopeAndStartName(cx, ent) ==
  PushForDeclName([cx EXCEPT !.names = Append(@, [initial |-> PeekIndex(cx),
                                                  lexicalParent |-> Peek(cx).lexical])],
                  ent)

PeekInitialScopeIndex(cx) == Last(cx.names).initial

\* FinishName, and the AddName of the entity once its declaration is built.
\* A name in a class or in the package goes to its NameScope, not modelled.
FinishName(cx, n, decl) ==
  IF Last(cx.names).lexicalParent
  THEN LookupOrAddName(cx, n, decl, PeekInitialScopeIndex(cx), FALSE)
  ELSE cx

PopScope(cx, checkUnused) ==
  LET popped == PopTo(cx, PeekInitialScopeIndex(cx), checkUnused)
  IN [popped EXCEPT !.names = Front(@)]

\* The scopes of the current name, innermost first, and the context without
\* them.
SuspendName(cx) ==
  LET name == Last(cx.names)
      one(acc, s) == [cx |-> AfterSuspend(acc.cx),
                      sus |-> [acc.sus EXCEPT !.scopes = Append(@, SuspendedScope(acc.cx))]]
      all == FoldLeft(one, [cx |-> [cx EXCEPT !.names = Front(@)],
                            sus |-> [name |-> name, scopes |-> <<>>]],
                      ScopesAbove(cx, name.initial))
  IN [all EXCEPT !.cx = Check(@, PeekIndex(@) = name.initial)]

InnermostFirst(scopes) == scopes
OutermostFirst(scopes) == Reverse(scopes)

RestoreName(cx, sus) ==
  FoldLeft(Restore,
           Check([cx EXCEPT !.names = Append(@, sus.name)],
                 PeekIndex(cx) = sus.name.initial),
           OutermostFirst(sus.scopes))

=============================================================================
