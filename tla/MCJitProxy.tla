----------------------------- MODULE MCJitProxy -----------------------------
(***************************************************************************)
(* Instances of JitProxy for TLC.  Amounts and prices are tiny so that     *)
(* orders below the minimum size, exhausted limits and prices on either    *)
(* side of the AMM all occur.                                              *)
(***************************************************************************)
EXTENDS JitProxy, TLC

OrderSymmetry == Permutations(OrderIds)

P(max, min, bid, ask, type) ==
    [max |-> max, min |-> min, bid |-> bid, ask |-> ask, type |-> type]
Q(oracle, bid, ask, limit) ==
    [oracle |-> oracle, bid |-> bid, ask |-> ask, limit |-> limit]

(* A maker that narrows, widens and re-prices its limits between calls, and *)
(* quotes both outright and relative to the oracle; never a bid above 4 or  *)
(* an ask below 4.                                                          *)
SteadyParams == {P(4, -4, 3, 5, "Limit"), P(3, -1, 4, 4, "Limit"),
                 P(4, -3, -1, 1, "Oracle")}

(* A taker without a price, one that crosses the AMM's and the maker's      *)
(* prices or neither, and one that crosses the maker's only.                *)
SteadyQuotes == {Q(4, 3, 5, NoPrice), Q(5, 4, 6, 3), Q(4, 3, 5, 4)}

Short4 == -4

NoTrades  == {}
=============================================================================
