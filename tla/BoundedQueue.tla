---------------------------- MODULE BoundedQueue ----------------------------
(***************************************************************************)
(* What a FIFO promises: bytes come out in the order they went in, and one  *)
(* that finds it full is dropped, which is remembered for good.             *)
(***************************************************************************)
EXTENDS Naturals, Sequences

CONSTANTS Item, Size

VARIABLES items, overrun

Init == items = <<>> /\ overrun = FALSE

Put(x) ==
    \/ Len(items) < Size /\ items' = Append(items, x) /\ UNCHANGED overrun
    \/ Len(items) = Size /\ overrun' = TRUE /\ UNCHANGED items

Get == items # <<>> /\ items' = Tail(items) /\ UNCHANGED overrun

Next == Get \/ \E x \in Item : Put(x)

Spec == Init /\ [][Next]_<<items, overrun>>
=============================================================================
