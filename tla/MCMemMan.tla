------------------------------ MODULE MCMemMan ------------------------------
(* A machine of six pages in two areas, with room for two free areas. *)
EXTENDS MemMan

MCBoot == <<[addr |-> 2, size |-> 4], [addr |-> 8, size |-> 8]>>
=============================================================================
