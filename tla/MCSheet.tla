------------------------------ MODULE MCSheet ------------------------------
(* A mouse with a hole, and windows with and without one. *)
EXTENDS Sheet

MCPlaces == {-1, 0}
MCMouse == [x \in 0 .. 1 |-> IF x = 0 THEN 9 ELSE CLEAR]
MCWindows == {[x \in 0 .. 0 |-> 1], [x \in 0 .. 1 |-> IF x = 0 THEN CLEAR ELSE 2]}
=============================================================================
