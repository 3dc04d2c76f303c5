------------------------- MODULE MCShotgunOnChain ---------------------------
(***************************************************************************)
(* Instance of ShotgunOnChain for TLC: one swift order.                    *)
(***************************************************************************)
EXTENDS ShotgunOnChain

P(max, min, bid, ask, type) ==
    [max |-> max, min |-> min, bid |-> bid, ask |-> ask, type |-> type]
Q(oracle, bid, ask, limit) ==
    [oracle |-> oracle, bid |-> bid, ask |-> ask, limit |-> limit]

(* The maker sells up to 2 at 2, or at 3.                                   *)
TwoParams == {P(0, -2, 1, 2, "Limit"), P(0, -1, 1, 3, "Limit")}

(* A taker that buys at 2, which crosses one parameter set only.            *)
OneQuote == {Q(2, 2, 3, 2)}

Short2 == -2
NoTrades == {}
Buys     == <<"Long">>
Amount   == <<2>>
Two      == <<2>>
OneOrder == 1..1
TwoSlots == 1..2
=============================================================================
