----------------------------- MODULE MCArbPerp ------------------------------
(***************************************************************************)
(* Instance of ArbPerp for TLC: jit and arb_perp sent by one account, with *)
(* the limits of jit at the ends of the integer range and books that       *)
(* cross, touch, do not cross or lack a side.                              *)
(***************************************************************************)
EXTENDS ArbPerp

P(max, min, bid, ask, type) ==
    [max |-> max, min |-> min, bid |-> bid, ask |-> ask, type |-> type]
Q(oracle, bid, ask, limit) ==
    [oracle |-> oracle, bid |-> bid, ask |-> ask, limit |-> limit]
B(bid, bidSize, ask, askSize) ==
    [bid |-> bid, bidSize |-> bidSize, ask |-> ask, askSize |-> askSize]

(* Limits at the ends of the integer range, so that safe_add and safe_sub   *)
(* overflow, and sides switched off by equal or inverted limits.            *)
EdgeParams == {P(7, -8, 3, 5, "Limit"), P(0, 0, 3, 5, "Limit"),
               P(-2, -6, 1, 1, "Oracle"), P(5, 2, 2, 4, "Limit")}
EdgeQuotes == {Q(4, 3, 5, NoPrice)}

Short8 == -8
AnyTrades == {-3, 2}

(* Crossed by more than the fees, by less, touching and uncrossed, sizes    *)
(* below the minimum and beyond i64, and no bid or no ask.                  *)
SomeBooks == {B(8, 4, 4, 6), B(6, 3, 5, 1), B(5, 2, 5, 4), B(4, 3, 6, 3),
              B(8, 9, 4, 9), B(NoPrice, 0, 4, 3), B(5, 3, NoPrice, 0)}

(* Owing quote tokens, some of them, and more than the program can use.     *)
SomeBalances == {-3, 5, 40}

(* A position of more than 3 units has a higher margin ratio.               *)
Ratios == [n \in 0..8 |-> IF n <= 3 THEN 1 ELSE IF n <= 5 THEN 2 ELSE 3]

SomeExtras == {-1, 0}
=============================================================================
