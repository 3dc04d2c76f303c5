---------------------------- MODULE MakerMandate ----------------------------
(***************************************************************************)
(* What the jit-proxy program promises a maker, whatever the takers, the   *)
(* other makers and the maker's own stale parameters do: its position      *)
(* moves only within the mandate, it never pays more than BidCap and never *)
(* sells for less than AskFloor a unit.                                    *)
(***************************************************************************)
EXTENDS Integers

CONSTANTS MaxLong, MinShort,    \* the widest position limits of the maker
          BidCap, AskFloor      \* the worst prices it set

(* What the constants must satisfy; a hypothesis of the theorems.           *)
LimitsAssumption ==
    /\ MaxLong \in Int /\ MinShort \in Int
    /\ 0 \in MinShort..MaxLong
    /\ BidCap \in Nat /\ AskFloor \in Nat

VARIABLES position, bought, sold, cash

vars == <<position, bought, sold, cash>>

Init == position = 0 /\ bought = 0 /\ sold = 0 /\ cash = 0

Buy(n) ==
    /\ position + n <= MaxLong
    /\ position' = position + n
    /\ bought' = bought + n
    /\ cash' \in Int /\ cash' >= cash - BidCap * n
    /\ UNCHANGED sold

Sell(n) ==
    /\ position - n >= MinShort
    /\ position' = position - n
    /\ sold' = sold + n
    /\ cash' \in Int /\ cash' >= cash + AskFloor * n
    /\ UNCHANGED bought

Next == \E n \in 1..(MaxLong - MinShort) : Buy(n) \/ Sell(n)

Spec == Init /\ [][Next]_vars

-----------------------------------------------------------------------------
(* The position never leaves the mandate.                                   *)
TypeOK == /\ position \in MinShort..MaxLong
          /\ bought \in Nat /\ sold \in Nat /\ cash \in Int

(* What the maker holds is what it bought and has not sold, and for all of  *)
(* it it got at least its own prices.                                       *)
FairLedger == /\ bought = position + sold
              /\ cash >= AskFloor * sold - BidCap * bought

(* A maker that quotes no bid above an ask never loses on a round trip.     *)
NoLossWhenFlat == position = 0 /\ BidCap <= AskFloor => cash >= 0
=============================================================================
