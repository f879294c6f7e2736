------------------------------ MODULE MCMTask ------------------------------
(* Instances of MTask for TLC. *)
EXTENDS MTask
=============================================================================
