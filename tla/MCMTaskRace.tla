---------------------------- MODULE MCMTaskRace ----------------------------
(* Instances of MTaskRace for TLC. *)
EXTENDS MTaskRace
=============================================================================
