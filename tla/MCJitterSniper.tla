--------------------------- MODULE MCJitterSniper ---------------------------
(***************************************************************************)
(* Instances of JitterSniper for TLC.                                      *)
(***************************************************************************)
EXTENDS JitterSniper, TLC

OneMarket == <<"m1">>

(* An order placed in slot 0, with an auction of two slots.                 *)
Zero == <<0>>
One  == <<1>>
Two  == <<2>>

TrySymmetry == Permutations(Tries)
=============================================================================
