------------------------------ MODULE JitProxy ------------------------------
(***************************************************************************)
(* The `jit` and `jit_signed_msg` instructions of the jit-proxy program,   *)
(* run again and again by one maker against the orders of takers in one    *)
(* market.                                                                 *)
(*                                                                         *)
(* A Solana transaction is atomic, so an instruction is one step: it reads *)
(* the taker's order and the maker's position, places the maker's order    *)
(* through a CPI into Drift, reads the taker's order again, and either     *)
(* commits all of it or returns an error and changes nothing.  Between two *)
(* instructions everything the maker's bot looked at may have changed: the *)
(* parameters, the prices, the taker's order and the maker's position.     *)
(*                                                                         *)
(* Drift itself (the orders, the fill, the AMM) is external and modelled   *)
(* by what jit.rs relies on: see PlaceAndMake.                             *)
(***************************************************************************)
EXTENDS JitOrder

CONSTANTS
    OrderIds,       \* ids of taker orders; an id is used once
    Uuids,          \* keys of signed-message orders
    NoOrder,        \* what a uuid not in the signed-message account stands for
    Params,         \* the parameter sets the maker's bot sends
    Quotes,         \* the market snapshots an instruction may meet
    MaxOrder,       \* bound: the largest taker order
    OwnTrades,      \* what else moves the maker's position (resting orders)
    MaxLong,        \* the most any parameter set allows as max_position
    MinShort,       \* the least any parameter set allows as min_position
    BidCap,         \* the most any parameter set and quote let the maker pay
    AskFloor        \* the least they let it sell for

ASSUME ParamsAssumption ==
    /\ Params \subseteq ParamType
    /\ Quotes \subseteq QuoteType
    /\ MaxOrder \in 1..MaxI64
    /\ OwnTrades \subseteq I64
    /\ NoOrder \notin OrderIds

(* The mandate is what the parameter sets have in common.                   *)
ASSUME MandateAssumption ==
    /\ MaxLong \in I64 /\ MinShort \in I64
    /\ 0 \in MinShort..MaxLong
    /\ BidCap \in Nat /\ AskFloor \in Nat
    /\ \A p \in Params : p.max <= MaxLong /\ p.min >= MinShort
    /\ \A p \in Params, q \in Quotes :
          /\ WorstPrice(p, q, "Short") <= BidCap
          /\ WorstPrice(p, q, "Long")  >= AskFloor

VARIABLES
    orders,     \* taker orders: [status, dir, open]; open: the unfilled amount
    signed,     \* the taker's signed-message account: uuid -> order id
    position,   \* the maker's position in the market
    bought,     \* base amount bought by the maker with its jit orders
    sold,       \* base amount sold by the maker with its jit orders
    cash,       \* quote the maker received minus what it paid for those
    receipt     \* what the last step, if it was an instruction, returned

vars == <<orders, signed, position, bought, sold, cash, receipt>>

(* LoadError: an account that was passed cannot be loaded.  DriftError: from *)
(* the oracle, or from the CPI (post-only, margin, ...).                    *)
Errors == {"MathError", "TakerOrderNotFound", "BidNotCrossed", "AskNotCrossed",
           "PositionLimitBreached", "NoFill", "SignedMsgOrderDoesNotExist",
           "LoadError", "DriftError"}

Nothing   == [result |-> "None"]
Failed(e) == [result |-> e]

(* A successful instruction: its inputs, the maker's order it placed, the   *)
(* taker's open amount before and after, whether the order still exists,    *)
(* and what the maker got.                                                  *)
Success == [result: {"Ok"}, params: Params, quote: Quotes,
            dir: Directions, size: Nat, price: Nat,
            before: Nat, after: Nat, gone: BOOLEAN, made: Nat]

OrderType == [status: {"Unused", "Open", "Gone"}, dir: Directions,
              open: 0..MaxOrder]

TypeOK ==
    /\ orders \in [OrderIds -> OrderType]
    /\ \A id \in OrderIds : orders[id].status = "Open" => orders[id].open > 0
    /\ signed \in [Uuids -> OrderIds \cup {NoOrder}]
    /\ position \in Int
    /\ bought \in Nat /\ sold \in Nat /\ cash \in Int
    /\ receipt \in {Nothing} \cup {Failed(e) : e \in Errors} \cup Success

Init ==
    /\ orders = [id \in OrderIds |->
                    [status |-> "Unused", dir |-> "Long", open |-> 0]]
    /\ signed = [u \in Uuids |-> NoOrder]
    /\ position = 0
    /\ bought = 0 /\ sold = 0 /\ cash = 0
    /\ receipt = Nothing

-----------------------------------------------------------------------------
(* The takers and the rest of the market. *)

NewOrder(id, dir, size) ==
    /\ orders[id].status = "Unused"
    /\ orders' = [orders EXCEPT ![id] =
                    [status |-> "Open", dir |-> dir, open |-> size]]
    /\ receipt' = Nothing

(* A taker's order reaches Drift; Drift refuses one below the minimum.      *)
TakerPlaces(id, dir, size) ==
    /\ NewOrder(id, dir, size)
    /\ UNCHANGED <<signed, position, bought, sold, cash>>

(* The taker's signed message is placed on chain: an order, and its uuid in *)
(* the taker's signed-message account.  Only perp orders can be signed.     *)
TakerSigns(id, uuid, dir, size) ==
    /\ MarketKind = "Perp"
    /\ signed[uuid] = NoOrder
    /\ NewOrder(id, dir, size)
    /\ signed' = [signed EXCEPT ![uuid] = id]
    /\ UNCHANGED <<position, bought, sold, cash>>

(* The account has few slots: an old uuid makes room for another.           *)
UuidEvicted(uuid) ==
    /\ signed[uuid] # NoOrder
    /\ signed' = [signed EXCEPT ![uuid] = NoOrder]
    /\ receipt' = Nothing
    /\ UNCHANGED <<orders, position, bought, sold, cash>>

(* Slip: an order that is gone stays in the list with nothing open.         *)
ReducedInPlace(order, open, gone) ==
    [order EXCEPT !.open = IF gone THEN 0 ELSE open]

(* The order after others filled or cancelled part of it: it leaves Drift's *)
(* list when nothing is open.                                               *)
Reduced(order, open, gone) ==
    IF gone
    THEN [status |-> "Gone", dir |-> order.dir, open |-> 0]
    ELSE [order EXCEPT !.open = open]

(* Another maker or the AMM fills part of the order, or it is cancelled or  *)
(* expires: open falls to any value, or the order goes with some open.      *)
OthersTake(id, open, gone) ==
    /\ orders[id].status = "Open"
    /\ open <= orders[id].open
    /\ open = 0 => gone
    /\ orders' = [orders EXCEPT ![id] = Reduced(@, open, gone)]
    /\ receipt' = Nothing
    /\ UNCHANGED <<signed, position, bought, sold, cash>>

(* A resting order of the maker fills, or it trades by other means.         *)
OwnTrade(n) ==
    /\ position + n \in I64
    /\ position' = position + n
    /\ receipt' = Nothing
    /\ UNCHANGED <<orders, signed, bought, sold, cash>>

(* An instruction that leaves this market's accounts as they are: arb_perp, *)
(* whose two orders cancel out.                                             *)
Elsewhere ==
    /\ receipt' = Nothing
    /\ UNCHANGED <<orders, signed, position, bought, sold, cash>>

-----------------------------------------------------------------------------
(* The instructions. *)

Revert(e) ==
    /\ receipt' = Failed(e)
    /\ UNCHANGED <<orders, signed, position, bought, sold, cash>>

(* The maker's position moves by a fill of its order, at the order's price. *)
Trade(dir, made, price) ==
    IF dir = "Long"
    THEN /\ position' = position + made
         /\ bought' = bought + made
         /\ cash' = cash - made * price
         /\ UNCHANGED sold
    ELSE /\ position' = position - made
         /\ sold' = sold + made
         /\ cash' = cash + made * price
         /\ UNCHANGED bought

(* Slip: a strict comparison.                                               *)
LooksUnfilledStrictly(before, after, gone) ==
    (IF gone THEN 0 ELSE after) > Unfilled(before)

(* The code's test for an order that was not filled compares the open       *)
(* amount after the CPI with the one process_order returned, which is never *)
(* below the minimum order size.  An order that is gone counts as 0.        *)
LooksUnfilled(before, after, gone) ==
    (IF gone THEN 0 ELSE after) = Unfilled(before)

(* The transaction commits: the taker's order, the maker's position and the *)
(* money have moved.                                                        *)
Commit(id, p, q, made, after, gone) ==
    LET m == MakerOrder(p, q, orders[id].dir, position, orders[id].open)
    IN  /\ orders' = [orders EXCEPT ![id] = Reduced(@, after, gone)]
        /\ Trade(m.dir, made, m.price)
        /\ receipt' = [result |-> "Ok", params |-> p, quote |-> q,
                       dir |-> m.dir, size |-> m.size, price |-> m.price,
                       before |-> orders[id].open, after |-> after,
                       gone |-> gone, made |-> made]
        /\ UNCHANGED signed

(* Drift's place_and_make: of the taker's open amount, the maker's order    *)
(* fills at most its size, the AMM or nobody takes from the rest, and Drift *)
(* may remove the order (filled, expired, reduce-only) with some of it      *)
(* open.  What is left of the maker's immediate-or-cancel order is          *)
(* cancelled.                                                               *)
PlaceAndMake(id, p, q, made, after, gone) ==
    LET before == orders[id].open
    IN  /\ made <= MakerOrder(p, q, orders[id].dir, position, before).size
        /\ made + after <= before
        /\ after = 0 => gone
        /\ IF LooksUnfilled(before, after, gone)
           THEN Revert("NoFill")
           ELSE Commit(id, p, q, made, after, gone)

(* Slip: the order is only looked up once its price and size are checked.   *)
ExecuteLooksLast(id, p, q) ==
    LET verdict == Verdict(p, q, orders[id].dir, position)
    IN  \/ verdict # "Ok" /\ Revert(verdict)
        \/ verdict = "Ok" /\ orders[id].status # "Open" /\ Revert("TakerOrderNotFound")
        \/ verdict = "Ok" /\ orders[id].status = "Open"
           /\ \E made, after \in 0..MaxOrder, gone \in BOOLEAN :
                 PlaceAndMake(id, p, q, made, after, gone)

(* What jit and jit_signed_msg have in common once the order id is known.   *)
(* Drift's errors come before the verdict (the oracle is looked up as soon  *)
(* as the order is found) as well as after it.                              *)
Execute(id, p, q) ==
    LET verdict == Verdict(p, q, orders[id].dir, position)
    IN  \/ orders[id].status # "Open" /\ Revert("TakerOrderNotFound")
        \/ /\ orders[id].status = "Open"
           /\ \/ Revert("DriftError")
              \/ verdict # "Ok" /\ Revert(verdict)
              \/ verdict = "Ok" /\ \E made, after \in 0..MaxOrder, gone \in BOOLEAN :
                                     PlaceAndMake(id, p, q, made, after, gone)

(* The accounts are loaded around the lookups of the uuid and the order, so *)
(* that can fail whatever the lookups would say.                            *)
Jit(id, p, q) == Revert("LoadError") \/ Execute(id, p, q)

JitSignedMsg(uuid, p, q) ==
    \/ Revert("LoadError")
    \/ signed[uuid] = NoOrder /\ Revert("SignedMsgOrderDoesNotExist")
    \/ signed[uuid] # NoOrder /\ Execute(signed[uuid], p, q)

Next ==
    \/ \E id \in OrderIds, dir \in Directions, size \in MinOrderSize..MaxOrder :
          \/ TakerPlaces(id, dir, size)
          \/ \E uuid \in Uuids : TakerSigns(id, uuid, dir, size)
    \/ \E uuid \in Uuids : UuidEvicted(uuid)
    \/ \E id \in OrderIds, open \in 0..MaxOrder, gone \in BOOLEAN :
          OthersTake(id, open, gone)
    \/ \E n \in OwnTrades : OwnTrade(n)
    \/ Elsewhere
    \/ \E id \in OrderIds, p \in Params, q \in Quotes : Jit(id, p, q)
    \/ \E uuid \in Uuids, p \in Params, q \in Quotes : JitSignedMsg(uuid, p, q)

Spec == Init /\ [][Next]_vars

-----------------------------------------------------------------------------
(* Properties *)

(* An order the program places never carries the maker past the limit of    *)
(* the call it was placed for, even if all of it fills; a maker that is     *)
(* outside its limits only gets orders that bring it back.  Concerns the    *)
(* position read and the size computed by check_position_limits, against    *)
(* stale parameters and other fills in between.                             *)
NeverPastLimit ==
    [][ receipt'.result = "Ok" =>
          LET r == receipt' IN
          IF r.dir = "Long"
          THEN position <= position' /\ position + r.size <= r.params.max
          ELSE position' <= position /\ position - r.size >= r.params.min ]_vars

(* Over any sequence of instructions with whatever parameters of the        *)
(* mandate, the position a maker that trades only through the program ends  *)
(* up with is within it.                                                    *)
WithinMandate == OwnTrades = {} => position \in MinShort..MaxLong

(* The order sent to Drift is never below the market's minimum order size   *)
(* (Drift would refuse it): neither a taker's nearly filled order nor the   *)
(* room left by the position limits makes it so.                            *)
NoDustOrder == receipt.result = "Ok" => receipt.size >= MinOrderSize

(* The maker's price crosses the taker's, is never worse for the maker than *)
(* its worst price, and gives the taker at least what the AMM would, unless *)
(* that is beyond the worst price: process_order prices the order so that   *)
(* the AMM cannot take the fill.                                            *)
PricedToFill ==
    receipt.result = "Ok" =>
        LET q     == receipt.quote
            taker == TakerPrice(q, Opposite(receipt.dir))
            worst == WorstPrice(receipt.params, q, Opposite(receipt.dir))
        IN  IF receipt.dir = "Long"
            THEN /\ receipt.price \in taker..worst
                 /\ MarketKind = "Perp" => receipt.price >= MinOf(q.bid, worst)
            ELSE /\ receipt.price \in worst..taker
                 /\ MarketKind = "Perp" => receipt.price <= MaxOf(q.ask, worst)

(* When the instruction returns Ok for an order of at least the minimum     *)
(* size, the transaction was not a no-op for the taker: the order was       *)
(* filled in part, or is gone ("taker order failed to fill" otherwise).     *)
OkMeansProgress ==
    receipt.result = "Ok" /\ receipt.before >= MinOrderSize =>
        receipt.gone \/ receipt.after < receipt.before

(* The maker's ledger over all its fills is at least as good as its worst   *)
(* prices: the per-order price bound adds up.                               *)
FairLedger == cash >= AskFloor * sold - BidCap * bought

(* A maker whose parameter sets never bid above an ask has lost nothing     *)
(* whenever it is flat again, however the parameters changed in between.    *)
NoLossWhenFlat ==
    OwnTrades = {} /\ BidCap <= AskFloor /\ position = 0 => cash >= 0

(* The program keeps the maker's mandate (a maker with no other trades).    *)
Mandate == INSTANCE MakerMandate
           WITH position <- position, bought <- bought, sold <- sold, cash <- cash
KeepsMandate == Mandate!Spec
=============================================================================
