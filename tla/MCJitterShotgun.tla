-------------------------- MODULE MCJitterShotgun ---------------------------
(***************************************************************************)
(* Instances of JitterShotgun for TLC.                                     *)
(***************************************************************************)
EXTENDS JitterShotgun

TwoSlots == 1..2

(* Two orders of a taker; a perp and a spot market of the same index are    *)
(* different markets.                                                       *)
SameMarket   == <<"m1", "m1">>
OneMarket    == <<"m1">>

(* Auctions of two slots.                                                   *)
TwoEach == <<2, 2>>
Two     == <<2>>
=============================================================================
