------------------------------ MODULE JitOrder ------------------------------
(***************************************************************************)
(* The pure part of the `jit` and `jit_signed_msg` instructions: how       *)
(* `process_order` turns a taker order, a market snapshot and the maker's  *)
(* parameters into the one order the program places for the maker, or into *)
(* the error it returns instead.                                           *)
(*                                                                         *)
(* A market snapshot ("quote") holds what the instruction reads once: the  *)
(* oracle price, the AMM's bid and ask, and the taker order's limit price  *)
(* at this slot (NoPrice when Drift's get_limit_price returns None).       *)
(***************************************************************************)
EXTENDS Integers

CONSTANTS
    MaxI64,         \* the largest i64; the smallest is -MaxI64 - 1
    MarketKind,     \* "Perp" or "Spot": the taker order's market type
    MinOrderSize    \* the market's min_order_size

ASSUME WidthAssumption  == MaxI64 \in Nat \ {0}
ASSUME MarketAssumption == /\ MarketKind \in {"Perp", "Spot"}
                           /\ MinOrderSize \in 1..MaxI64

I64 == (-MaxI64 - 1)..MaxI64
U64 == 0..(2 * MaxI64 + 1)

Directions == {"Long", "Short"}
PriceTypes == {"Limit", "Oracle"}

NoPrice == -1

(* What get_limit_price, oracle and AMM report; prices of Drift are u64,    *)
(* its oracle prices i64.                                                   *)
QuoteType == [oracle: I64, bid: U64, ask: U64, limit: U64 \cup {NoPrice}]

(* JitParams / JitSignedMsgParams without the key of the order and without  *)
(* post_only, which only Drift reads.                                       *)
ParamType == [max: I64, min: I64, bid: I64, ask: I64, type: PriceTypes]

-----------------------------------------------------------------------------
Abs(n)      == IF n < 0 THEN -n ELSE n
MinOf(a, b) == IF a <= b THEN a ELSE b
MaxOf(a, b) == IF a >= b THEN a ELSE b

Opposite(dir) == IF dir = "Long" THEN "Short" ELSE "Long"

(* The price the maker set for this side: its own, or its own added to the  *)
(* oracle's.  It is signed, and may not fit an i64 (safe_add).              *)
SetPrice(p, q, takerDir) ==
    (IF takerDir = "Long" THEN p.ask ELSE p.bid)
        + (IF p.type = "Oracle" THEN q.oracle ELSE 0)

(* get_worst_price: the set price through unsigned_abs.                     *)
WorstPrice(p, q, takerDir) == Abs(SetPrice(p, q, takerDir))

(* A taker order without a price takes the AMM's; only perps have an AMM.   *)
TakerPrice(q, takerDir) ==
    IF q.limit = NoPrice /\ MarketKind = "Perp"
    THEN IF takerDir = "Long" THEN q.ask ELSE q.bid
    ELSE q.limit

(* Slip: a maker that sells compares like one that buys.                    *)
CrossesOneSign(makerDir, taker, worst) == taker <= worst

(* Slip: both comparisons the wrong way round.                              *)
CrossesBackwards(makerDir, taker, worst) ==
    IF makerDir = "Long" THEN taker >= worst ELSE taker <= worst

Crosses(makerDir, taker, worst) ==
    IF makerDir = "Long" THEN taker <= worst ELSE taker >= worst

(* Slip: the AMM's price is taken without a look at the worst price.        *)
MakerPriceUncapped(q, makerDir, taker, worst) ==
    IF MarketKind = "Spot" THEN taker
    ELSE IF makerDir = "Long" THEN MaxOf(q.bid, taker) ELSE MinOf(q.ask, taker)

(* The price of the maker's order: the taker's, unless the AMM would give   *)
(* the taker at least that; then the AMM's, as far as the worst price goes. *)
MakerPrice(q, makerDir, taker, worst) ==
    IF MarketKind = "Spot" THEN taker
    ELSE IF makerDir = "Long"
         THEN IF taker <= q.bid THEN MinOf(q.bid, worst) ELSE taker
         ELSE IF taker >= q.ask THEN MaxOf(q.ask, worst) ELSE taker

(* Slip: the limits bound the order, not the position after it.             *)
RoomOfOrder(p, makerDir, position) == IF makerDir = "Long" THEN p.max ELSE -p.min

(* Slip: each side is measured against the other side's limit.              *)
RoomOfOtherSide(p, makerDir, position) ==
    IF makerDir = "Long" THEN position - p.min ELSE p.max - position

(* Slip: a plain subtraction, which wraps, instead of safe_sub.             *)
RoomWraps(p, makerDir, position) ==
    LET room == IF makerDir = "Long" THEN p.max - position ELSE position - p.min
    IN  ((room + MaxI64 + 1) % (2 * MaxI64 + 2)) - MaxI64 - 1

(* How far the maker's position may still move in direction makerDir.       *)
Room(p, makerDir, position) ==
    IF makerDir = "Long" THEN p.max - position ELSE position - p.min

(* The taker's open amount as process_order uses it: never below the        *)
(* market's minimum order size.                                             *)
Unfilled(open) == MaxOf(open, MinOrderSize)

(* Slip: any room will do.                                                  *)
LimitCheckAtZero(p, makerDir, position) ==
    IF Room(p, makerDir, position) \notin I64 THEN "MathError"
    ELSE IF Room(p, makerDir, position) <= 0 THEN "PositionLimitBreached"
         ELSE "Ok"

(* The result of check_position_limits: an error name, or "Ok".             *)
LimitCheck(p, makerDir, position) ==
    IF Room(p, makerDir, position) \notin I64 THEN "MathError"
    ELSE IF Room(p, makerDir, position) <= MinOrderSize
         THEN "PositionLimitBreached"
         ELSE "Ok"

(* The size check_position_limits grants when it returns Ok.                *)
OrderSize(p, makerDir, position, open) ==
    MinOf(Room(p, makerDir, position), Unfilled(open))

(* The early returns of get_worst_price, process_order and                  *)
(* check_position_limits, in their order; "Ok" when the order is placed.    *)
Verdict(p, q, takerDir, position) ==
    LET makerDir == Opposite(takerDir)
        worst    == WorstPrice(p, q, takerDir)
    IN  IF SetPrice(p, q, takerDir) \notin I64 THEN "MathError"
        ELSE IF TakerPrice(q, takerDir) = NoPrice THEN "TakerOrderNotFound"
        ELSE IF ~Crosses(makerDir, TakerPrice(q, takerDir), worst)
             THEN IF makerDir = "Long" THEN "BidNotCrossed" ELSE "AskNotCrossed"
        ELSE LimitCheck(p, makerDir, position)

(* The OrderParams sent to Drift when the verdict is "Ok": an immediate-or- *)
(* cancel limit order of the maker.                                         *)
MakerOrder(p, q, takerDir, position, open) ==
    LET makerDir == Opposite(takerDir)
    IN  [dir   |-> makerDir,
         size  |-> OrderSize(p, makerDir, position, open),
         price |-> MakerPrice(q, makerDir, TakerPrice(q, takerDir),
                              WorstPrice(p, q, takerDir))]
=============================================================================
