------------------------------ MODULE ArbPerp ------------------------------
(***************************************************************************)
(* The `arb_perp` instruction, and with it the whole program: the account  *)
(* of JitProxy also sends arb_perp, which takes the best bid and the best  *)
(* ask among the makers it is given when they cross.  It places two        *)
(* immediate-or-cancel orders one after the other and reverts unless they  *)
(* cancel out and made money.                                              *)
(*                                                                         *)
(* The book of the makers, the oracle price and the account's quote        *)
(* balance are read once; Drift's fills are external (PlaceAndTake).       *)
(***************************************************************************)
EXTENDS JitProxy

CONSTANTS
    Books,              \* best bid and ask: [bid, bidSize, ask, askSize]
    Oracles,            \* oracle prices, as i64
    Balances,           \* quote tokens of the account; negative: borrowed
    MarginRatio,        \* perp position's size -> initial margin ratio
    MarginPrecision, BasePrecision,     \* fixed-point units
    ErrorShare,         \* 100: one hundredth of the collateral is kept back,
    ErrorCap,           \* 10 * QUOTE_PRECISION: at most that
    MaxFee,             \* the most Drift charges for a unit filled
    Extras              \* how far a pair of fills comes out from its worst

ASSUME ArbAssumption ==
    /\ Books \subseteq [bid: Nat \cup {NoPrice}, bidSize: U64,
                        ask: Nat \cup {NoPrice}, askSize: U64]
    /\ Oracles \subseteq I64 /\ Balances \subseteq Int
    /\ MarginRatio \in [0..(MaxI64 + 1) -> Nat \ {0}]
    /\ \A n, k \in 0..(MaxI64 + 1) : n <= k => MarginRatio[n] <= MarginRatio[k]
    /\ MarginPrecision \in Nat \ {0} /\ BasePrecision \in Nat \ {0}
    /\ ErrorShare \in Nat \ {0} /\ ErrorCap \in Nat
    /\ MaxFee \in Nat /\ Extras \subseteq Int

VARIABLE arb    \* what the last step, if it was an arb_perp, did

programVars == <<vars, arb>>

(* No orders were placed; with the error, if there was one.                 *)
NoArb(result) == [result |-> result, placed |-> FALSE]

ArbErrors == {"NoBestBid", "NoBestAsk", "NoArbOpportunity", "MathError",
              "DriftError"}

(* Both orders were placed: the amounts that filled of each, and the        *)
(* position before them and between them; Drift would refuse orders below   *)
(* the minimum size.                                                        *)
ArbType == [result: {"Ok", "NoArbOpportunity"}, placed: {TRUE},
            book: Books, oracle: Oracles, balance: Balances, start: Int,
            size: MinOrderSize..MaxI64, first: Nat, second: Nat, between: Int,
            extra: Extras]

ArbTypeOK == arb \in ArbType \cup {NoArb(e) : e \in ArbErrors \cup {"None"}}

-----------------------------------------------------------------------------
(* The amounts. *)

BestAmount(book) == MinOf(book.bidSize, book.askSize)

(* A long or flat account is to sell first, a short one to buy.             *)
StartDirection(start) == IF start >= 0 THEN "Short" ELSE "Long"

(* intermediate_base: the position meant to be the one between the orders,  *)
(* if all of the amount fills.                                              *)
IntermediateBase(start, amount) ==
    IF StartDirection(start) = "Short" THEN start - amount ELSE start + amount

(* Slip: the ratio of the position as it is.                                *)
RatioBefore(start, book) == MarginRatio[Abs(start)]

(* The margin ratio of that position, with all of the best amount.          *)
Ratio(start, book) ==
    MarginRatio[Abs(IntermediateBase(start, BestAmount(book)))]

(* calculate_max_base_asset_amount: what the balance bears, the sign of     *)
(* which get_token_amount drops.                                            *)
MaxBase(start, book, oracle, balance) ==
    LET amount == Abs(balance)
        usable == amount - MinOf(amount \div ErrorShare, ErrorCap)
    IN  (((usable * MarginPrecision) \div Ratio(start, book)) * BasePrecision)
            \div oracle

(* Slip: raised to the minimum size first and cut to the collateral then.   *)
ArbSizeCutLast(start, book, oracle, balance) ==
    MinOf(MaxOf(BestAmount(book), MinOrderSize),
          MaxBase(start, book, oracle, balance))

(* Cut to what the collateral bears, then raised to the minimum order size. *)
ArbSize(start, book, oracle, balance) ==
    MaxOf(MinOf(BestAmount(book), MaxBase(start, book, oracle, balance)),
          MinOrderSize)

(* The early returns, in their order.                                       *)
ArbVerdict(start, book, oracle, balance) ==
    IF book.bid = NoPrice THEN "NoBestBid"
    ELSE IF book.ask = NoPrice THEN "NoBestAsk"
    ELSE IF book.bid < book.ask THEN "NoArbOpportunity"
    ELSE IF \/ BestAmount(book) > MaxI64
            \/ oracle <= 0
            \/ MaxBase(start, book, oracle, balance) \notin U64
         THEN "MathError"
    ELSE "Ok"

-----------------------------------------------------------------------------
(* The instruction. *)

ArbReverts(e) == arb' = NoArb(e)

ArbOrder(direction, price) == [dir |-> direction, price |-> price]

(* Slip: the two orders in the other order.                                 *)
LegsSwapped(start, book) ==
    IF StartDirection(start) = "Long"
    THEN <<ArbOrder("Short", book.bid), ArbOrder("Long", book.ask)>>
    ELSE <<ArbOrder("Long", book.ask), ArbOrder("Short", book.bid)>>

(* Slip: each order has the other one's price.                              *)
LegsMispriced(start, book) ==
    IF StartDirection(start) = "Long"
    THEN <<ArbOrder("Long", book.bid), ArbOrder("Short", book.ask)>>
    ELSE <<ArbOrder("Short", book.ask), ArbOrder("Long", book.bid)>>

(* The two orders, in the order they are sent: the purchase takes the best  *)
(* ask, the sale the best bid.                                              *)
Legs(start, book) ==
    IF StartDirection(start) = "Long"
    THEN <<ArbOrder("Long", book.ask), ArbOrder("Short", book.bid)>>
    ELSE <<ArbOrder("Short", book.bid), ArbOrder("Long", book.ask)>>

(* The position after an order of which this much filled.                   *)
After(base, leg, filled) ==
    IF leg.dir = "Long" THEN base + filled ELSE base - filled

(* What that brings at the order's own price and the highest fee.           *)
Brings(leg, filled) ==
    (IF leg.dir = "Long" THEN -(filled * leg.price) ELSE filled * leg.price)
        - MaxFee * filled

(* The orders are placed one after the other.  The position's quote amount  *)
(* moves by extra more than their fills bring at worst: better prices and   *)
(* lower fees add to it, and so can the funding of a position that was open *)
(* before, or take away from it.  The instruction keeps its trades only if  *)
(* the position is where it was and the quote amount is higher; it touches  *)
(* no taker's order and no other position.                                  *)
PlaceAndTake(book, oracle, balance, first, second, extra) ==
    LET legs    == Legs(position, book)
        between == After(position, legs[1], first)
        end     == After(between, legs[2], second)
        gain    == Brings(legs[1], first) + Brings(legs[2], second) + extra
    IN  /\ extra < 0 => position # 0
        /\ first + second = 0 /\ position = 0 => extra = 0
        /\ arb' = [result |-> IF end = position /\ gain > 0
                              THEN "Ok" ELSE "NoArbOpportunity",
                   placed |-> TRUE, book |-> book, oracle |-> oracle,
                   balance |-> balance, start |-> position,
                   size |-> ArbSize(position, book, oracle, balance),
                   first |-> first, second |-> second, between |-> between,
                   extra |-> extra]

Arb(book, oracle, balance) ==
    LET verdict == ArbVerdict(position, book, oracle, balance)
    IN  /\ MarketKind = "Perp"
        /\ Elsewhere
        /\ IF verdict # "Ok"
           THEN ArbReverts(verdict)
           ELSE \/ ArbReverts("DriftError")     \* margin, oracle, ...
                \/ \E first, second \in 0..ArbSize(position, book, oracle, balance),
                      extra \in Extras :
                      PlaceAndTake(book, oracle, balance, first, second, extra)

ProgramInit == Init /\ arb = NoArb("None")

ProgramNext ==
    \/ Next /\ arb' = NoArb("None")
    \/ \E book \in Books, oracle \in Oracles, balance \in Balances :
          Arb(book, oracle, balance)

ProgramSpec == ProgramInit /\ [][ProgramNext]_programVars

-----------------------------------------------------------------------------
(* Properties *)

(* The order that goes first is the one that leans back: the position after *)
(* it is never further out than it was, or than one order on its own,       *)
(* however much of it fills.                                                *)
LeansBack ==
    arb.placed => Abs(arb.between) <= MaxOf(Abs(arb.start), arb.size)

(* Unless the order was raised to the minimum size, the account's quote     *)
(* tokens bear the position between the orders where it is further out than *)
(* before, at the margin ratio of that position, although the ratio used is *)
(* that of another amount and was taken before the orders were made         *)
(* ("assumes all free collateral in quote asset token", so the account has  *)
(* no debt).                                                                *)
CollateralBears ==
    arb.placed /\ arb.balance >= 0 /\ arb.size > MinOrderSize =>
        LET between == Abs(arb.between)
        IN  \/ between <= Abs(arb.start)
            \/ between * arb.oracle * MarginRatio[between]
                  <= arb.balance * MarginPrecision * BasePrecision

(* An arbitrage that is there is taken: when both orders fill alike, the    *)
(* spread beats the fees of both and no funding was owed, the instruction   *)
(* does not revert.                                                         *)
CrossedBookPays ==
    arb.placed =>
        ( /\ arb.first = arb.second /\ arb.first > 0 /\ arb.extra >= 0
          /\ arb.book.bid - arb.book.ask > 2 * MaxFee
          => arb.result = "Ok" )
=============================================================================
