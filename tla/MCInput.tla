------------------------------ MODULE MCInput ------------------------------
(* Instances of Input for TLC. *)
EXTENDS Input
=============================================================================
