------------------------------ MODULE MCKeyWin ------------------------------
(* Instances of KeyWin for TLC. *)
EXTENDS KeyWin

\* Wild states are checked, but not looked at further: nothing happens there.
\* CloseCompletes loses nothing, as a behaviour that ends in one satisfies it.
Tame == ~ui.wild
=============================================================================
