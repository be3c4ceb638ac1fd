--------------------------- MODULE MCTokenSession ---------------------------
(* Instances of TokenSession for TLC. *)
EXTENDS TokenSession, TLC

\* Clients without an explicit token are interchangeable; used by the runs that
\* check invariants and action properties only.
Symmetry == Permutations(Clients \ Explicit)
=============================================================================
