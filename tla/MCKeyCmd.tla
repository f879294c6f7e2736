----------------------------- MODULE MCKeyCmd -----------------------------
(* Instances of KeyCmd for TLC. *)
EXTENDS KeyCmd
=============================================================================
