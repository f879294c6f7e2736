------------------------------- MODULE Layers -------------------------------
(***************************************************************************)
(* What the sheets promise: pictures lie one above the other, a call puts   *)
(* one of them in, takes it out, changes it or moves it, and leaves the     *)
(* order of all others alone; the screen always shows at each pixel the     *)
(* uppermost picture that has something there.                              *)
(***************************************************************************)
EXTENDS Integers, SequencesExt

CONSTANTS Layer, Pixel, Clear   \* Clear: nothing there

VARIABLES
    order,      \* of the layers that are shown, the lowest first
    picture,    \* of each layer, its colour at each pixel
    screen

layersVars == <<order, picture, screen>>

Init == order = <<>>

\* The uppermost of the layers that are there at p is seen.
Shows ==
    \A p \in Pixel :
        LET seen == {k \in DOMAIN order : picture[order[k]][p] # Clear} IN
        \A k \in seen : (\A j \in seen : j <= k) => screen[p] = picture[order[k]][p]

\* The order of all layers but s; no picture but that of s changes.
Others(s) == RemoveFirst(order, s)
OnlyPicture(s) == \A t \in Layer \ {s} : picture'[t] = picture[t]

Draw(s) == order' = order /\ OnlyPicture(s)

\* Put in, taken out, or moved against the others.
Put(s) == OnlyPicture(s) /\ Others(s)' = Others(s)

Next == ((\E s \in Layer : Draw(s)) \/ (\E s \in Layer : Put(s))) /\ Shows'

Spec == Init /\ [][Next]_layersVars
=============================================================================
