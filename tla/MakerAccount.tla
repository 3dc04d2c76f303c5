---------------------------- MODULE MakerAccount ----------------------------
(***************************************************************************)
(* A maker that uses both ways the jit-proxy program limits its positions: *)
(* it rests orders in a transaction that ends with check_order_constraints,*)
(* and it fills takers with jit, which looks at the position but not at    *)
(* the resting orders.  The resting orders fill at any time.               *)
(*                                                                         *)
(* A transaction is atomic: when the check fails, the orders placed before *)
(* it in the transaction are undone.                                       *)
(***************************************************************************)
EXTENDS JitOrder

CONSTANTS
    Markets,        \* the markets the maker has orders in
    JitMarkets,     \* those it also sends jit instructions in
    Limits,         \* market -> parameters; max and min are the limits both
                    \* its constraints and its jit calls carry
    Sizes           \* bound: the order, fill and cancel sizes considered

ASSUME AccountAssumption ==
    /\ JitMarkets \subseteq Markets
    /\ Limits \in [Markets -> ParamType]
    /\ \A m \in Markets : 0 \in Limits[m].min..Limits[m].max
    /\ Sizes \subseteq 1..MaxI64

VARIABLES
    position,   \* base_asset_amount or signed token amount, per market
    bids,       \* open_bids: what the resting bids can still buy, >= 0
    asks        \* open_asks: what the resting asks can still sell, <= 0

vars == <<position, bids, asks>>

TypeOK == /\ position \in [Markets -> Int]
          /\ bids \in [Markets -> Nat]
          /\ asks \in [Markets -> Int] /\ \A m \in Markets : asks[m] <= 0

Init == /\ position = [m \in Markets |-> 0]
        /\ bids = [m \in Markets |-> 0]
        /\ asks = [m \in Markets |-> 0]

-----------------------------------------------------------------------------
(* Slip: the resting orders alone are compared with the limits.             *)
PassesOrdersOnly(limits, pos, open_bids, open_asks) ==
    open_bids <= limits.max /\ open_asks >= limits.min

(* Slip: it is enough when one side is within its limit.                    *)
PassesEitherSide(limits, pos, open_bids, open_asks) ==
    pos + open_bids <= limits.max \/ pos + open_asks >= limits.min

(* OrderConstraint::check: the position if every bid, and if every ask,     *)
(* filled; safe_add fails outside the i64 range.                            *)
Passes(limits, pos, open_bids, open_asks) ==
    /\ pos + open_bids \in I64 /\ pos + open_bids <= limits.max
    /\ pos + open_asks \in I64 /\ pos + open_asks >= limits.min

(* The user account has no entry for a market in which nothing is held or   *)
(* rests, and the constraint is skipped.                                    *)
Skipped(pos, open_bids, open_asks) == pos = 0 /\ open_bids = 0 /\ open_asks = 0

(* check_order_constraints: the first constraint that fails ends the        *)
(* transaction; which one it is makes no difference.                        *)
Constraints(pos, open_bids, open_asks) ==
    \A m \in Markets :
        \/ Skipped(pos[m], open_bids[m], open_asks[m])
        \/ Passes(Limits[m], pos[m], open_bids[m], open_asks[m])

(* One transaction: rest a bid of b and an ask of a (either may be 0), then *)
(* check.  A failing check leaves no trace.                                 *)
Quote(m, b, a) ==
    /\ bids' = [bids EXCEPT ![m] = @ + b]
    /\ asks' = [asks EXCEPT ![m] = @ - a]
    /\ Constraints(position, bids', asks')
    /\ UNCHANGED position

Cancel(m, b, a) ==
    /\ b <= bids[m] /\ a <= -asks[m]
    /\ bids' = [bids EXCEPT ![m] = @ - b]
    /\ asks' = [asks EXCEPT ![m] = @ + a]
    /\ UNCHANGED position

(* Drift fills resting orders; it refuses a fill it cannot represent.       *)
BidFills(m, n) ==
    /\ n <= bids[m] /\ position[m] + n \in I64
    /\ position' = [position EXCEPT ![m] = @ + n]
    /\ bids' = [bids EXCEPT ![m] = @ - n]
    /\ UNCHANGED asks

AskFills(m, n) ==
    /\ n <= -asks[m] /\ position[m] - n \in I64
    /\ position' = [position EXCEPT ![m] = @ - n]
    /\ asks' = [asks EXCEPT ![m] = @ + n]
    /\ UNCHANGED bids

(* A jit instruction for a taker with `open` unfilled that trades `made`:   *)
(* check_position_limits reads the position only.  A refused instruction    *)
(* changes nothing.                                                         *)
JitFill(m, dir, open, made) ==
    /\ LimitCheck(Limits[m], dir, position[m]) = "Ok"
    /\ made <= OrderSize(Limits[m], dir, position[m], open)
    /\ made <= open
    /\ position' = [position EXCEPT ![m] = IF dir = "Long" THEN @ + made
                                                           ELSE @ - made]
    /\ UNCHANGED <<bids, asks>>

Next ==
    \/ \E m \in Markets, b, a \in Sizes \cup {0} : Quote(m, b, a) \/ Cancel(m, b, a)
    \/ \E m \in Markets, n \in Sizes : BidFills(m, n) \/ AskFills(m, n)
    \/ \E m \in JitMarkets, dir \in Directions, open, made \in Sizes :
          JitFill(m, dir, open, made)

Spec == Init /\ [][Next]_vars

-----------------------------------------------------------------------------
(* Properties *)

Width(m) == Limits[m].max - Limits[m].min

(* In a market the maker only rests orders in, no order of fills and        *)
(* cancellations takes the position out of its limits: the check at the     *)
(* time of placing is enough for all that can happen later.                 *)
RestingIsSafe ==
    \A m \in Markets \ JitMarkets :
        /\ position[m] + bids[m] <= Limits[m].max
        /\ position[m] + asks[m] >= Limits[m].min

(* With jit fills in the same market it is not: jit takes the position to   *)
(* the limit and the bids that were checked before it fill on top.  What    *)
(* the two checks still give together is that the excess is at most the     *)
(* width of the limits, and does not add up over many rounds.               *)
ExcessIsBounded ==
    \A m \in Markets :
        /\ position[m] + bids[m] <= Limits[m].max + Width(m)
        /\ position[m] + asks[m] >= Limits[m].min - Width(m)

(* A maker outside its limits cannot rest more on the side that would take  *)
(* it further out, nor be taken further out by jit: only orders that were   *)
(* resting before it left its limits can do that.                           *)
OutsideOnlyOldOrdersFill ==
    [][ \A m \in Markets :
          /\ position[m] > Limits[m].max =>
                /\ bids'[m] <= bids[m]
                /\ position'[m] + bids'[m] <= position[m] + bids[m]
          /\ position[m] < Limits[m].min =>
                /\ asks'[m] >= asks[m]
                /\ position'[m] + asks'[m] >= position[m] + asks[m] ]_vars
=============================================================================
