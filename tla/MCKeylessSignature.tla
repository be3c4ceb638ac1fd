------------------------- MODULE MCKeylessSignature -------------------------
(* Instances of KeylessSignature for TLC. *)
EXTENDS KeylessSignature, TLC

\* Calls, records and identities are interchangeable.
Symmetry == Permutations(Calls) \cup Permutations(Cids) \cup Permutations(Identities)
=============================================================================
