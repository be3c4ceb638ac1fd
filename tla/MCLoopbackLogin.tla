-------------------------- MODULE MCLoopbackLogin --------------------------
(* Instances of LoopbackLogin for TLC. *)
EXTENDS LoopbackLogin, TLC
=============================================================================
