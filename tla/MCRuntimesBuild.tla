--------------------------- MODULE MCRuntimesBuild ---------------------------
(* Model values for checking RuntimesBuild.                                  *)
EXTENDS RuntimesBuild

CONSTANTS p1, p2, p3

MCProcs == {p1, p2, p3}
MCForcers == {p3}

=============================================================================
