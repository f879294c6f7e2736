------------------------------ MODULE MCTimer ------------------------------
(* Instances of Timer for TLC. *)
EXTENDS Timer

\* Consoles differ only by name.
Symmetry == Permutations(Consoles)
=============================================================================
