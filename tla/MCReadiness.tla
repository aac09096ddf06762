---------------------------- MODULE MCReadiness -----------------------------
(* Readiness for a reload that replaces the providers.                      *)
EXTENDS Readiness

CONSTANTS p1, p2, p3

MCBackends == <<{"a", "b"}, {"c"}>>
=============================================================================
