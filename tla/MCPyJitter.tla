----------------------------- MODULE MCPyJitter -----------------------------
(***************************************************************************)
(* Instances of PyJitter for TLC.                                          *)
(***************************************************************************)
EXTENDS PyJitter

TwoSlots == 1..2

(* A perp and a spot order on markets of the same index.                    *)
SameMarket == <<"m1", "m1">>
OneMarket  == <<"m1">>

(* Auctions of one slot and of two.                                         *)
OneAndTwo == <<1, 2>>
Two       == <<2>>
=============================================================================
