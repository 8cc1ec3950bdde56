------------------------ MODULE MCDeferredDefinitions ------------------------
(* DeferredDefinitions with one identifier, so that names shadow each other. *)
EXTENDS DeferredDefinitions

CONSTANT x
OneName == {x}

=============================================================================
