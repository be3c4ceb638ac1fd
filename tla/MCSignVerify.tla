---------------------------- MODULE MCSignVerify ----------------------------
(* Instances of SignVerify for TLC. *)
EXTENDS SignVerify, TLC

\* Keys, calls and records are interchangeable: no definition names one.  Used
\* by the runs, which check invariants and the step-wise refinement only.
Symmetry == Permutations(Keys) \cup Permutations(SignCalls)
              \cup Permutations(VerifyCalls) \cup Permutations(Cids)
=============================================================================
