---------------------------- MODULE ProgramProofs ----------------------------
(***************************************************************************)
(* Theorems about the program for every market, parameter set, quote,      *)
(* number of orders, book, collateral and margin schedule: the jit         *)
(* instructions first (JitProxy), then arb_perp (ArbPerp).  Step lemmas    *)
(* separate the instructions that commit from everything else; the         *)
(* theorems use only them and the facts about the order that is placed     *)
(* (JitOrderProofs).  A step of ArbPerp is one of JitProxy or an arb_perp, *)
(* so what is proved of JitProxy holds of an account that sends both.      *)
(***************************************************************************)
EXTENDS ArbPerp, JitOrderProofs

USE WidthAssumption, MarketAssumption

(* What process_order returns is Ok or one of the program's errors.         *)
LEMMA VerdictType ==
    ASSUME NEW p, NEW q, NEW dir, NEW pos
    PROVE  Verdict(p, q, dir, pos) \in Errors \cup {"Ok"}
  BY DEF Verdict, LimitCheck, Errors

-----------------------------------------------------------------------------
(* The steps *)

(* An instruction that commits.                                             *)
Fills(id, p, q, made, after, gone) ==
    /\ orders[id].status = "Open"
    /\ Verdict(p, q, orders[id].dir, position) = "Ok"
    /\ made <= MakerOrder(p, q, orders[id].dir, position, orders[id].open).size
    /\ made + after <= orders[id].open
    /\ after = 0 => gone
    /\ ~LooksUnfilled(orders[id].open, after, gone)
    /\ Commit(id, p, q, made, after, gone)

SomeFill ==
    \E id \in OrderIds, p \in Params, q \in Quotes, made, after \in 0..MaxOrder,
       gone \in BOOLEAN : Fills(id, p, q, made, after, gone)

(* Any other step: it returns no Ok and touches no money, and only the      *)
(* maker's other trades move its position.                                  *)
Quiet ==
    /\ receipt' \in {Nothing} \cup {Failed(e) : e \in Errors}
    /\ UNCHANGED <<bought, sold, cash>>
    /\ position' = position \/ \E n \in OwnTrades : position' = position + n

(* An instruction that returns an error changes none of the accounts.       *)
LEMMA RevertIsQuiet ==
    ASSUME NEW e \in Errors, Revert(e)
    PROVE  Quiet
  BY DEF Revert, Quiet

(* jit and jit_signed_msg, once they know the order, revert or fill.        *)
LEMMA ExecuteSteps ==
    ASSUME NEW id \in OrderIds, NEW p \in Params, NEW q \in Quotes,
           Execute(id, p, q)
    PROVE  Quiet \/ SomeFill
<1> DEFINE verdict == Verdict(p, q, orders[id].dir, position)
<1>1. CASE orders[id].status # "Open"
  <2>1. Revert("TakerOrderNotFound")
    BY <1>1 DEF Execute
  <2> QED BY <2>1, RevertIsQuiet DEF Errors
<1>2. CASE orders[id].status = "Open" /\ verdict # "Ok"
  <2>1. Revert(verdict) \/ Revert("DriftError")
    BY <1>2 DEF Execute
  <2>2. verdict \in Errors /\ "DriftError" \in Errors
    BY <1>2, VerdictType DEF Errors
  <2> HIDE DEF verdict
  <2> QED BY <2>1, <2>2, RevertIsQuiet
<1>3. CASE orders[id].status = "Open" /\ verdict = "Ok"
  <2>1. CASE Revert("DriftError")
    BY <2>1, RevertIsQuiet DEF Errors
  <2>2. ASSUME NEW made \in 0..MaxOrder, NEW after \in 0..MaxOrder,
               NEW gone \in BOOLEAN, PlaceAndMake(id, p, q, made, after, gone)
        PROVE  Quiet \/ SomeFill
    <3>1. CASE LooksUnfilled(orders[id].open, after, gone)
      <4>1. Revert("NoFill")
        BY <2>2, <3>1 DEF PlaceAndMake
      <4> QED BY <4>1, RevertIsQuiet DEF Errors
    <3>2. CASE ~LooksUnfilled(orders[id].open, after, gone)
      <4>1. Fills(id, p, q, made, after, gone)
        BY <1>3, <2>2, <3>2 DEF Fills, PlaceAndMake
      <4> QED BY <4>1 DEF SomeFill
    <3> QED BY <3>1, <3>2
  <2> QED
    BY <1>3, <2>1, <2>2 DEF Execute
<1> QED
  BY <1>1, <1>2, <1>3

(* Every step is quiet (the takers', the maker's own, an instruction that   *)
(* returns an error) or a fill by jit or jit_signed_msg.                    *)
LEMMA Steps ==
    ASSUME TypeOK, Next
    PROVE  Quiet \/ SomeFill
<1>1. ASSUME NEW id \in OrderIds, NEW dir \in Directions,
             NEW size \in MinOrderSize..MaxOrder, TakerPlaces(id, dir, size)
      PROVE  Quiet
  BY <1>1 DEF TakerPlaces, NewOrder, Quiet
<1>2. ASSUME NEW id \in OrderIds, NEW dir \in Directions, NEW uuid \in Uuids,
             NEW size \in MinOrderSize..MaxOrder, TakerSigns(id, uuid, dir, size)
      PROVE  Quiet
  BY <1>2 DEF TakerSigns, NewOrder, Quiet
<1>3. ASSUME NEW uuid \in Uuids, UuidEvicted(uuid)
      PROVE  Quiet
  BY <1>3 DEF UuidEvicted, Quiet
<1>4. ASSUME NEW id \in OrderIds, NEW open \in 0..MaxOrder, NEW gone \in BOOLEAN,
             OthersTake(id, open, gone)
      PROVE  Quiet
  BY <1>4 DEF OthersTake, Quiet
<1>5. ASSUME NEW n \in OwnTrades, OwnTrade(n)
      PROVE  Quiet
  BY <1>5 DEF OwnTrade, Quiet
<1>6. ASSUME NEW id \in OrderIds, NEW p \in Params, NEW q \in Quotes, Jit(id, p, q)
      PROVE  Quiet \/ SomeFill
  <2>1. CASE Revert("LoadError")
    BY <2>1, RevertIsQuiet DEF Errors
  <2>2. CASE Execute(id, p, q)
    BY <2>2, ExecuteSteps
  <2> QED BY <1>6, <2>1, <2>2 DEF Jit
<1>7. ASSUME NEW uuid \in Uuids, NEW p \in Params, NEW q \in Quotes,
             JitSignedMsg(uuid, p, q)
      PROVE  Quiet \/ SomeFill
  <2>1. CASE Revert("LoadError") \/ Revert("SignedMsgOrderDoesNotExist")
    BY <2>1, RevertIsQuiet DEF Errors
  <2>2. CASE signed[uuid] # NoOrder /\ Execute(signed[uuid], p, q)
    <3>1. signed[uuid] \in OrderIds
      BY <2>2 DEF TypeOK
    <3> QED BY <2>2, <3>1, ExecuteSteps
  <2> QED BY <1>7, <2>1, <2>2 DEF JitSignedMsg
<1>8. CASE Elsewhere
  BY <1>8 DEF Elsewhere, Quiet
<1> QED
  BY <1>1, <1>2, <1>3, <1>4, <1>5, <1>6, <1>7, <1>8 DEF Next

-----------------------------------------------------------------------------
(* Type correctness *)

(* A taker's order stays well-formed as it is filled, cancelled or expires. *)
LEMMA ReducedType ==
    ASSUME NEW order \in OrderType, NEW open \in 0..MaxOrder,
           NEW gone \in BOOLEAN, open = 0 => gone, order.status = "Open"
    PROVE  /\ Reduced(order, open, gone) \in OrderType
           /\ Reduced(order, open, gone).status = "Open" =>
                 Reduced(order, open, gone).open > 0
<1> USE ParamsAssumption
<1>1. CASE gone
  BY <1>1 DEF Reduced, OrderType
<1>2. CASE ~gone
  BY <1>2 DEF Reduced, OrderType
<1> QED
  BY <1>1, <1>2

(* The order a committing instruction placed for the maker.                 *)
LEMMA FillOrder ==
    ASSUME TypeOK,
           NEW id \in OrderIds, NEW p \in Params, NEW q \in Quotes,
           NEW made \in 0..MaxOrder, NEW after \in 0..MaxOrder,
           NEW gone \in BOOLEAN, Fills(id, p, q, made, after, gone)
    PROVE  LET m == MakerOrder(p, q, orders[id].dir, position, orders[id].open)
               taker == TakerPrice(q, orders[id].dir)
               worst == WorstPrice(p, q, orders[id].dir)
           IN
           /\ m.dir \in Directions /\ m.dir = Opposite(orders[id].dir)
           /\ m.size \in Nat /\ m.size >= MinOrderSize /\ made <= m.size
           /\ m.dir = "Long"  => position + m.size <= p.max
           /\ m.dir = "Short" => position - m.size >= p.min
           /\ m.price \in Nat /\ worst \in Nat
           /\ m.dir = "Long"  => /\ m.price \in taker..worst
                                 /\ MarketKind = "Perp" => m.price >= MinOf(q.bid, worst)
           /\ m.dir = "Short" => /\ m.price \in worst..taker
                                 /\ MarketKind = "Perp" => m.price <= MaxOf(q.ask, worst)
<1> DEFINE dir   == orders[id].dir
           m     == MakerOrder(p, q, dir, position, orders[id].open)
           side  == Opposite(dir)
           taker == TakerPrice(q, dir)
           worst == WorstPrice(p, q, dir)
<1>1. /\ dir \in Directions /\ orders[id].open \in Nat /\ position \in Int
      /\ p \in ParamType /\ q \in QuoteType
  BY ParamsAssumption DEF TypeOK, OrderType
<1>2. /\ taker # NoPrice /\ Crosses(side, taker, worst)
      /\ LimitCheck(p, side, position) = "Ok"
  BY OkVerdict DEF Fills
<1>3. side \in Directions
  BY <1>1, SidesAreOpposite
<1>4. taker \in Nat /\ worst \in Nat
  BY <1>1, <1>2, TakerPriceNat, WorstPriceNat
<1>5. /\ m.dir = side
      /\ m.size = OrderSize(p, side, position, orders[id].open)
      /\ m.price = MakerPrice(q, side, taker, worst)
  BY DEF MakerOrder
<1>6. made <= m.size
  BY DEF Fills
<1> HIDE DEF dir, m, side, taker, worst
<1>7. /\ m.size \in Nat /\ m.size >= MinOrderSize
      /\ side = "Long"  => position + m.size <= p.max
      /\ side = "Short" => position - m.size >= p.min
  BY <1>1, <1>2, <1>3, <1>5, SizeFits
<1>8. /\ m.price \in Nat
      /\ side = "Long"  => /\ m.price \in taker..worst
                           /\ MarketKind = "Perp" => m.price >= MinOf(q.bid, worst)
      /\ side = "Short" => /\ m.price \in worst..taker
                           /\ MarketKind = "Perp" => m.price <= MaxOf(q.ask, worst)
  BY <1>1, <1>2, <1>3, <1>4, <1>5, PriceFits
<1> QED
  BY <1>3, <1>4, <1>5, <1>6, <1>7, <1>8 DEF dir, m, side, taker, worst

(* The program variables keep their types; an open order has an open amount.*)
THEOREM TypeCorrect == Spec => []TypeOK
<1> USE ParamsAssumption
<1>1. Init => TypeOK
  BY DEF Init, TypeOK, OrderType, Directions, Nothing
<1>2. ASSUME TypeOK, Quiet
      PROVE  /\ position' \in Int
             /\ bought' \in Nat /\ sold' \in Nat /\ cash' \in Int
             /\ receipt' \in {Nothing} \cup {Failed(e) : e \in Errors} \cup Success
  BY <1>2 DEF TypeOK, Quiet, I64
<1>3. ASSUME TypeOK, SomeFill
      PROVE  TypeOK'
  <2>1. PICK id \in OrderIds, p \in Params, q \in Quotes, made \in 0..MaxOrder,
             after \in 0..MaxOrder, gone \in BOOLEAN :
                Fills(id, p, q, made, after, gone)
    BY <1>3 DEF SomeFill
  <2> DEFINE m == MakerOrder(p, q, orders[id].dir, position, orders[id].open)
  <2>2. m.dir \in Directions /\ m.size \in Nat /\ m.price \in Nat
    BY <1>3, <2>1, FillOrder
  <2>3. Commit(id, p, q, made, after, gone)
    BY <2>1 DEF Fills
  <2>4. /\ orders[id] \in OrderType /\ orders[id].status = "Open"
        /\ orders[id].open \in Nat
        /\ after = 0 => gone
    BY <1>3, <2>1 DEF Fills, TypeOK, OrderType
  <2>5. /\ orders' \in [OrderIds -> OrderType]
        /\ \A i \in OrderIds : orders'[i].status = "Open" => orders'[i].open > 0
    <3> DEFINE r == Reduced(orders[id], after, gone)
    <3>1. orders' = [orders EXCEPT ![id] = r]
      BY <2>3 DEF Commit
    <3>2. r \in OrderType /\ (r.status = "Open" => r.open > 0)
      BY <2>4, ReducedType
    <3> HIDE DEF r
    <3> QED BY <1>3, <3>1, <3>2 DEF TypeOK
  <2>6. Trade(m.dir, made, m.price) /\ signed' = signed
    BY <2>3 DEF Commit
  <2>7. receipt' = [result |-> "Ok", params |-> p, quote |-> q,
                    dir |-> m.dir, size |-> m.size, price |-> m.price,
                    before |-> orders[id].open, after |-> after,
                    gone |-> gone, made |-> made]
    BY <2>3 DEF Commit
  <2> HIDE DEF m
  <2>9. receipt' \in Success
    BY <2>2, <2>4, <2>7, 0..MaxOrder \subseteq Nat, Zenon DEF Success
  <2>8. /\ position' \in Int
        /\ bought' \in Nat /\ sold' \in Nat /\ cash' \in Int
    <3>1. made * m.price \in Int /\ made \in Nat
      BY <2>2
    <3> QED BY <1>3, <2>6, <3>1 DEF TypeOK, Trade
  <2> QED
    BY <1>3, <2>5, <2>6, <2>8, <2>9 DEF TypeOK
<1>4. ASSUME TypeOK, Next
      PROVE  /\ orders' \in [OrderIds -> OrderType]
             /\ \A id \in OrderIds : orders'[id].status = "Open" => orders'[id].open > 0
             /\ signed' \in [Uuids -> OrderIds \cup {NoOrder}]
  <2> DEFINE Good == /\ orders' \in [OrderIds -> OrderType]
                     /\ \A id \in OrderIds :
                           orders'[id].status = "Open" => orders'[id].open > 0
                     /\ signed' \in [Uuids -> OrderIds \cup {NoOrder}]
  <2>1. ASSUME NEW id \in OrderIds, NEW dir \in Directions,
               NEW size \in MinOrderSize..MaxOrder, NewOrder(id, dir, size)
        PROVE  /\ orders' \in [OrderIds -> OrderType]
               /\ \A i \in OrderIds : orders'[i].status = "Open" => orders'[i].open > 0
    <3> DEFINE new == [status |-> "Open", dir |-> dir, open |-> size]
    <3>1. orders' = [orders EXCEPT ![id] = new]
      BY <2>1 DEF NewOrder
    <3>2. new \in OrderType /\ new.open > 0
      BY DEF OrderType
    <3> HIDE DEF new
    <3> QED BY <1>4, <3>1, <3>2 DEF TypeOK
  <2>2. ASSUME NEW id \in OrderIds, NEW dir \in Directions,
               NEW size \in MinOrderSize..MaxOrder, TakerPlaces(id, dir, size)
        PROVE  Good
    BY <1>4, <2>1, <2>2 DEF TakerPlaces, TypeOK
  <2>3. ASSUME NEW id \in OrderIds, NEW dir \in Directions, NEW uuid \in Uuids,
               NEW size \in MinOrderSize..MaxOrder, TakerSigns(id, uuid, dir, size)
        PROVE  Good
    <3>1. NewOrder(id, dir, size) /\ signed' = [signed EXCEPT ![uuid] = id]
      BY <2>3 DEF TakerSigns
    <3> QED BY <1>4, <2>1, <3>1 DEF TypeOK
  <2>4. ASSUME NEW uuid \in Uuids, UuidEvicted(uuid)
        PROVE  Good
    BY <1>4, <2>4 DEF UuidEvicted, TypeOK
  <2>5. ASSUME NEW id \in OrderIds, NEW open \in 0..MaxOrder, NEW gone \in BOOLEAN,
               OthersTake(id, open, gone)
        PROVE  Good
    <3> DEFINE r == Reduced(orders[id], open, gone)
    <3>1. /\ orders' = [orders EXCEPT ![id] = r] /\ signed' = signed
          /\ orders[id].status = "Open"
          /\ open = 0 => gone
      BY <2>5 DEF OthersTake
    <3>2. r \in OrderType /\ (r.status = "Open" => r.open > 0)
      BY <1>4, <3>1, ReducedType DEF TypeOK
    <3> HIDE DEF r
    <3> QED BY <1>4, <3>1, <3>2 DEF TypeOK
  <2>6. ASSUME NEW n \in OwnTrades, OwnTrade(n)
        PROVE  Good
    BY <1>4, <2>6 DEF OwnTrade, TypeOK
  <2>7. ASSUME NEW id \in OrderIds, NEW p \in Params, NEW q \in Quotes,
               Execute(id, p, q)
        PROVE  Good
    <3>1. CASE UNCHANGED <<orders, signed>>
      BY <1>4, <3>1 DEF TypeOK
    <3>2. CASE SomeFill
      BY <1>3, <1>4, <3>2 DEF TypeOK
    <3>3. UNCHANGED <<orders, signed>> \/ SomeFill
      BY <2>7 DEF Execute, PlaceAndMake, Revert, SomeFill, Fills
    <3> QED BY <3>1, <3>2, <3>3
  <2>8. ASSUME NEW uuid \in Uuids, NEW p \in Params, NEW q \in Quotes,
               JitSignedMsg(uuid, p, q)
        PROVE  Good
    <3>1. CASE Revert("LoadError") \/ Revert("SignedMsgOrderDoesNotExist")
      BY <1>4, <3>1 DEF Revert, TypeOK
    <3>2. CASE signed[uuid] # NoOrder /\ Execute(signed[uuid], p, q)
      BY <1>4, <2>7, <3>2 DEF TypeOK
    <3> QED BY <2>8, <3>1, <3>2 DEF JitSignedMsg
  <2>9. CASE Elsewhere
    BY <1>4, <2>9 DEF Elsewhere, TypeOK
  <2>10. ASSUME NEW id \in OrderIds, NEW p \in Params, NEW q \in Quotes,
                Jit(id, p, q)
         PROVE  Good
    <3>1. CASE Revert("LoadError")
      BY <1>4, <3>1 DEF Revert, TypeOK
    <3> QED BY <2>7, <2>10, <3>1 DEF Jit
  <2> QED
    BY <1>4, <2>2, <2>3, <2>4, <2>5, <2>6, <2>8, <2>9, <2>10 DEF Next
<1>5. TypeOK /\ [Next]_vars => TypeOK'
  <2>1. CASE Next
    BY <1>2, <1>3, <1>4, <2>1, Steps DEF TypeOK
  <2>2. CASE UNCHANGED vars
    BY <2>2 DEF TypeOK, vars
  <2> QED BY <2>1, <2>2
<1>6. QED
  BY <1>1, <1>5, PTL DEF Spec

-----------------------------------------------------------------------------
(* What an instruction that returned Ok did *)

(* A property of receipts that every committing instruction establishes     *)
(* holds always: no other step leaves an Ok receipt behind.                 *)
LEMMA QuietReceipt ==
    ASSUME Quiet
    PROVE  receipt'.result # "Ok"
  BY DEF Quiet, Nothing, Failed, Errors

(* Orders are never below the market's minimum size.                        *)
THEOREM OrdersAreNotDust == Spec => []NoDustOrder
<1>1. Init => NoDustOrder
  BY DEF Init, NoDustOrder, Nothing
<1>2. TypeOK /\ NoDustOrder /\ [Next]_vars => NoDustOrder'
  <2> SUFFICES ASSUME TypeOK, NoDustOrder, [Next]_vars
               PROVE  NoDustOrder'
    OBVIOUS
  <2>1. CASE Quiet
    BY <2>1, QuietReceipt DEF NoDustOrder
  <2>2. ASSUME NEW id \in OrderIds, NEW p \in Params, NEW q \in Quotes,
               NEW made \in 0..MaxOrder, NEW after \in 0..MaxOrder,
               NEW gone \in BOOLEAN, Fills(id, p, q, made, after, gone)
        PROVE  NoDustOrder'
    BY <2>2, FillOrder DEF Fills, Commit, NoDustOrder
  <2>3. CASE UNCHANGED vars
    BY <2>3 DEF NoDustOrder, vars
  <2> QED
    BY <2>1, <2>2, <2>3, Steps DEF SomeFill
<1>3. QED
  BY <1>1, <1>2, TypeCorrect, PTL DEF Spec

(* The maker's price is between the taker's and its own worst, and beats    *)
(* the AMM wherever its worst price allows.                                 *)
THEOREM OrdersArePricedToFill == Spec => []PricedToFill
<1>1. Init => PricedToFill
  BY DEF Init, PricedToFill, Nothing
<1>2. TypeOK /\ PricedToFill /\ [Next]_vars => PricedToFill'
  <2> SUFFICES ASSUME TypeOK, PricedToFill, [Next]_vars
               PROVE  PricedToFill'
    OBVIOUS
  <2>1. CASE Quiet
    BY <2>1, QuietReceipt DEF PricedToFill
  <2>2. ASSUME NEW id \in OrderIds, NEW p \in Params, NEW q \in Quotes,
               NEW made \in 0..MaxOrder, NEW after \in 0..MaxOrder,
               NEW gone \in BOOLEAN, Fills(id, p, q, made, after, gone)
        PROVE  PricedToFill'
    <3> DEFINE m == MakerOrder(p, q, orders[id].dir, position, orders[id].open)
    <3>1. /\ receipt'.quote = q /\ receipt'.params = p
          /\ receipt'.dir = m.dir /\ receipt'.price = m.price
      BY <2>2 DEF Fills, Commit
    <3>2. m.dir \in Directions /\ Opposite(m.dir) = orders[id].dir
      BY <2>2, FillOrder, SidesAreOpposite DEF TypeOK, OrderType
    <3>3. LET taker == TakerPrice(q, Opposite(m.dir))
              worst == WorstPrice(p, q, Opposite(m.dir))
          IN  /\ m.dir = "Long"  =>
                   /\ m.price \in taker..worst
                   /\ MarketKind = "Perp" => m.price >= MinOf(q.bid, worst)
              /\ m.dir = "Short" =>
                   /\ m.price \in worst..taker
                   /\ MarketKind = "Perp" => m.price <= MaxOf(q.ask, worst)
      BY <2>2, <3>2, FillOrder
    <3> HIDE DEF m
    <3> QED
      BY <3>1, <3>2, <3>3 DEF PricedToFill, Directions
  <2>3. CASE UNCHANGED vars
    BY <2>3 DEF PricedToFill, vars
  <2> QED
    BY <2>1, <2>2, <2>3, Steps DEF SomeFill
<1>3. QED
  BY <1>1, <1>2, TypeCorrect, PTL DEF Spec

(* Ok for an order of at least the minimum size is never a no-op.           *)
THEOREM OkIsProgress == Spec => []OkMeansProgress
<1>1. Init => OkMeansProgress
  BY DEF Init, OkMeansProgress, Nothing
<1>2. TypeOK /\ OkMeansProgress /\ [Next]_vars => OkMeansProgress'
  <2> SUFFICES ASSUME TypeOK, OkMeansProgress, [Next]_vars
               PROVE  OkMeansProgress'
    OBVIOUS
  <2>1. CASE Quiet
    BY <2>1, QuietReceipt DEF OkMeansProgress
  <2>2. ASSUME NEW id \in OrderIds, NEW p \in Params, NEW q \in Quotes,
               NEW made \in 0..MaxOrder, NEW after \in 0..MaxOrder,
               NEW gone \in BOOLEAN, Fills(id, p, q, made, after, gone)
        PROVE  OkMeansProgress'
    <3>1. /\ receipt'.before = orders[id].open /\ receipt'.after = after
          /\ receipt'.gone = gone
      BY <2>2 DEF Fills, Commit
    <3>2. /\ made + after <= orders[id].open /\ orders[id].open \in Nat
          /\ ~LooksUnfilled(orders[id].open, after, gone)
      BY <2>2 DEF Fills, TypeOK, OrderType
    <3>3. orders[id].open >= MinOrderSize => gone \/ after < orders[id].open
      BY <3>2, ParamsAssumption DEF LooksUnfilled, Unfilled, MaxOf
    <3> QED
      BY <3>1, <3>3 DEF OkMeansProgress
  <2>3. CASE UNCHANGED vars
    BY <2>3 DEF OkMeansProgress, vars
  <2> QED
    BY <2>1, <2>2, <2>3, Steps DEF SomeFill
<1>3. QED
  BY <1>1, <1>2, TypeCorrect, PTL DEF Spec

(* No instruction can carry the position past the limit it was given.       *)
THEOREM LimitsAreKept == Spec => NeverPastLimit
<1> DEFINE Kept == receipt'.result = "Ok" =>
                     LET r == receipt' IN
                     IF r.dir = "Long"
                     THEN position <= position' /\ position + r.size <= r.params.max
                     ELSE position' <= position /\ position - r.size >= r.params.min
<1>1. ASSUME TypeOK, Next
      PROVE  Kept
  <2>1. CASE Quiet
    BY <2>1, QuietReceipt
  <2>2. ASSUME NEW id \in OrderIds, NEW p \in Params, NEW q \in Quotes,
               NEW made \in 0..MaxOrder, NEW after \in 0..MaxOrder,
               NEW gone \in BOOLEAN, Fills(id, p, q, made, after, gone)
        PROVE  Kept
    <3> DEFINE m == MakerOrder(p, q, orders[id].dir, position, orders[id].open)
    <3>1. /\ receipt'.params = p
          /\ receipt'.dir = m.dir /\ receipt'.size = m.size
          /\ Trade(m.dir, made, m.price)
      BY <2>2 DEF Fills, Commit
    <3>2. /\ m.dir \in Directions
          /\ m.dir = "Long"  => position + m.size <= p.max
          /\ m.dir = "Short" => position - m.size >= p.min
      BY <1>1, <2>2, FillOrder
    <3> HIDE DEF m
    <3>3. CASE m.dir = "Long"
      <4>1. position' = position + made
        BY <3>1, <3>3 DEF Trade
      <4>2. position <= position'
        BY <1>1, <4>1, ParamsAssumption DEF TypeOK
      <4> QED BY <3>1, <3>2, <3>3, <4>2
    <3>4. CASE m.dir = "Short"
      <4>1. position' = position - made
        BY <3>1, <3>4 DEF Trade
      <4>2. position' <= position
        BY <1>1, <4>1, ParamsAssumption DEF TypeOK
      <4> QED BY <3>1, <3>2, <3>4, <4>2
    <3> QED BY <3>2, <3>3, <3>4 DEF Directions
  <2> QED
    BY <1>1, <2>1, <2>2, Steps DEF SomeFill
<1>2. TypeOK /\ [Next]_vars => [Kept]_vars
  BY <1>1
<1>3. QED
  BY <1>2, TypeCorrect, PTL DEF Spec, NeverPastLimit

-----------------------------------------------------------------------------
(* The maker's mandate *)

(* A maker that trades only through the program stays within the widest     *)
(* limits it ever gave it.                                                  *)
THEOREM StaysWithinMandate == Spec => []WithinMandate
<1>1. Init => WithinMandate
  BY MandateAssumption DEF Init, WithinMandate
<1>2. TypeOK /\ WithinMandate /\ [Next]_vars => WithinMandate'
  <2> SUFFICES ASSUME TypeOK, WithinMandate, [Next]_vars, OwnTrades = {}
               PROVE  (position \in MinShort..MaxLong)'
    BY DEF WithinMandate
  <2>1. position \in MinShort..MaxLong /\ MinShort \in Int /\ MaxLong \in Int
    BY MandateAssumption DEF WithinMandate, I64
  <2>2. CASE Quiet
    BY <2>1, <2>2 DEF Quiet
  <2>3. ASSUME NEW id \in OrderIds, NEW p \in Params, NEW q \in Quotes,
               NEW made \in 0..MaxOrder, NEW after \in 0..MaxOrder,
               NEW gone \in BOOLEAN, Fills(id, p, q, made, after, gone)
        PROVE  (position \in MinShort..MaxLong)'
    <3> DEFINE m == MakerOrder(p, q, orders[id].dir, position, orders[id].open)
    <3>1. /\ m.dir \in Directions /\ m.size \in Nat /\ made <= m.size
          /\ m.dir = "Long"  => position + m.size <= p.max
          /\ m.dir = "Short" => position - m.size >= p.min
      BY <2>3, FillOrder
    <3>2. Trade(m.dir, made, m.price)
      BY <2>3 DEF Fills, Commit
    <3>3. /\ p.max <= MaxLong /\ p.min >= MinShort
          /\ p.max \in Int /\ p.min \in Int /\ made \in Nat
      BY MandateAssumption, ParamsAssumption DEF ParamType, I64
    <3> HIDE DEF m
    <3>4. CASE m.dir = "Long"
      <4>1. position' = position + made
        BY <3>2, <3>4 DEF Trade
      <4>2. position + made \in MinShort..MaxLong
        BY <2>1, <3>1, <3>3, <3>4
      <4> QED BY <4>1, <4>2
    <3>5. CASE m.dir = "Short"
      <4>1. position' = position - made
        BY <3>2, <3>5 DEF Trade
      <4>2. position - made \in MinShort..MaxLong
        BY <2>1, <3>1, <3>3, <3>5
      <4> QED BY <4>1, <4>2
    <3> QED BY <3>1, <3>4, <3>5 DEF Directions
  <2>4. CASE UNCHANGED vars
    BY <2>1, <2>4 DEF vars
  <2> QED
    BY <2>2, <2>3, <2>4, Steps DEF SomeFill
<1>3. QED
  BY <1>1, <1>2, TypeCorrect, PTL DEF Spec

(* Multiplying by an amount keeps the order of two prices.                  *)
LEMMA TimesMonotone ==
    ASSUME NEW n \in Nat, NEW a \in Nat, NEW b \in Nat, a <= b
    PROVE  n * a \in Nat /\ n * b \in Nat /\ n * a <= n * b
  OBVIOUS

(* Without other trades, every committing instruction that fills is a buy   *)
(* or a sale of the mandate, and every other step leaves it alone: the      *)
(* program implements MakerMandate.                                         *)
THEOREM ImplementsMandate == ASSUME OwnTrades = {} PROVE Spec => KeepsMandate
<1> DEFINE mvars == <<position, bought, sold, cash>>
           Step  == \E n \in 1..(MaxLong - MinShort) :
                       Mandate!Buy(n) \/ Mandate!Sell(n)
<1>1. Init => Mandate!Init
  BY DEF Init, Mandate!Init
<1>2. TypeOK /\ WithinMandate /\ [Next]_vars => Step \/ UNCHANGED mvars
  <2> SUFFICES ASSUME TypeOK, WithinMandate, [Next]_vars
               PROVE  Step \/ UNCHANGED mvars
    OBVIOUS
  <2>1. /\ position \in MinShort..MaxLong /\ MinShort \in Int /\ MaxLong \in Int
        /\ BidCap \in Nat /\ AskFloor \in Nat
    BY MandateAssumption DEF WithinMandate, I64
  <2>2. CASE Quiet
    BY <2>2 DEF Quiet
  <2>3. ASSUME NEW id \in OrderIds, NEW p \in Params, NEW q \in Quotes,
               NEW made \in 0..MaxOrder, NEW after \in 0..MaxOrder,
               NEW gone \in BOOLEAN, Fills(id, p, q, made, after, gone)
        PROVE  Step \/ UNCHANGED mvars
    <3> DEFINE m == MakerOrder(p, q, orders[id].dir, position, orders[id].open)
               worst == WorstPrice(p, q, orders[id].dir)
    <3>1. /\ m.dir \in Directions /\ m.dir = Opposite(orders[id].dir)
          /\ m.size \in Nat /\ m.price \in Nat /\ made <= m.size
          /\ m.dir = "Long"  => position + m.size <= p.max /\ m.price <= worst
          /\ m.dir = "Short" => position - m.size >= p.min /\ m.price >= worst
          /\ worst \in Nat
      BY <2>3, FillOrder
    <3>2. Trade(m.dir, made, m.price)
      BY <2>3 DEF Fills, Commit
    <3>3. /\ p.max <= MaxLong /\ p.min >= MinShort
          /\ p.max \in Int /\ p.min \in Int /\ made \in Nat
      BY MandateAssumption, ParamsAssumption DEF ParamType, I64
    <3>4. m.dir = "Long" => worst <= BidCap
      BY <3>1, MandateAssumption DEF Opposite, TypeOK, OrderType, Directions
    <3>5. m.dir = "Short" => worst >= AskFloor
      BY <3>1, MandateAssumption DEF Opposite, TypeOK, OrderType, Directions
    <3> HIDE DEF m, worst
    <3>6. CASE made = 0
      <4>1. made * m.price = 0 /\ cash \in Int /\ bought \in Int /\ sold \in Int
        BY <3>1, <3>6 DEF TypeOK
      <4> QED BY <2>1, <3>2, <3>6, <4>1 DEF Trade
    <3>7. CASE made # 0 /\ m.dir = "Long"
      <4>1. made \in 1..(MaxLong - MinShort) /\ position + made <= MaxLong
        BY <2>1, <3>1, <3>3, <3>7
      <4>2. made * m.price \in Nat /\ made * m.price <= made * BidCap
        BY <2>1, <3>1, <3>3, <3>4, <3>7, TimesMonotone
      <4>3. made * BidCap = BidCap * made
        BY <2>1, <3>3
      <4>4. cash - made * m.price >= cash - BidCap * made
        <5>1. cash \in Int /\ BidCap * made \in Int
          BY <2>1, <3>3 DEF TypeOK
        <5> QED BY <4>2, <4>3, <5>1
      <4>5. cash - made * m.price \in Int
        BY <4>2 DEF TypeOK
      <4>6. Mandate!Buy(made)
        BY <3>2, <3>7, <4>1, <4>4, <4>5 DEF Mandate!Buy, Trade
      <4> QED BY <4>1, <4>6
    <3>8. CASE made # 0 /\ m.dir = "Short"
      <4>1. made \in 1..(MaxLong - MinShort) /\ position - made >= MinShort
        BY <2>1, <3>1, <3>3, <3>8
      <4>2. made * m.price \in Nat /\ made * m.price >= made * AskFloor
        BY <2>1, <3>1, <3>3, <3>5, <3>8, TimesMonotone
      <4>3. made * AskFloor = AskFloor * made
        BY <2>1, <3>3
      <4>4. cash + made * m.price >= cash + AskFloor * made
        <5>1. cash \in Int /\ AskFloor * made \in Int
          BY <2>1, <3>3 DEF TypeOK
        <5> QED BY <4>2, <4>3, <5>1
      <4>5. cash + made * m.price \in Int
        BY <4>2 DEF TypeOK
      <4>6. Mandate!Sell(made)
        BY <3>2, <3>8, <4>1, <4>4, <4>5 DEF Mandate!Sell, Trade
      <4> QED BY <4>1, <4>6
    <3> QED BY <3>1, <3>6, <3>7, <3>8 DEF Directions
  <2>4. CASE UNCHANGED vars
    BY <2>4 DEF vars
  <2> QED
    BY <2>2, <2>3, <2>4, Steps DEF SomeFill
<1>3. TypeOK /\ WithinMandate /\ [Next]_vars => [Mandate!Next]_(Mandate!vars)
  BY <1>2 DEF Mandate!Next, Mandate!vars
<1>4. QED
  BY <1>1, <1>3, TypeCorrect, StaysWithinMandate, PTL
     DEF Spec, KeepsMandate, Mandate!Spec

-----------------------------------------------------------------------------
(* What MakerMandate promises, proved of the abstract specification; the    *)
(* program has it because it implements the mandate.                        *)

(* The constants of the program's model satisfy what the abstract           *)
(* specification assumes of its own.                                        *)
LEMMA MandateLimits == Mandate!LimitsAssumption
  BY MandateAssumption DEF Mandate!LimitsAssumption, I64

(* The position stays within the mandate and the ledger consists of numbers.*)
THEOREM MandateTypeCorrect == Mandate!Spec => []Mandate!TypeOK
<1> USE MandateLimits DEF Mandate!LimitsAssumption, Mandate!TypeOK
<1>1. Mandate!Init => Mandate!TypeOK
  BY DEF Mandate!Init
<1>2. Mandate!TypeOK /\ [Mandate!Next]_(Mandate!vars) => Mandate!TypeOK'
  BY DEF Mandate!Next, Mandate!Buy, Mandate!Sell, Mandate!vars
<1>3. QED
  BY <1>1, <1>2, PTL DEF Mandate!Spec

(* The ledger of the maker is never worse than its worst prices make it:    *)
(* the bound on each fill adds up over any number of them.                  *)
THEOREM MandateFairLedger == Mandate!Spec => []Mandate!FairLedger
<1> USE MandateLimits DEF Mandate!LimitsAssumption
<1>1. Mandate!Init => Mandate!FairLedger
  BY DEF Mandate!Init, Mandate!FairLedger
<1>2. Mandate!TypeOK /\ Mandate!FairLedger /\ [Mandate!Next]_(Mandate!vars)
         => Mandate!FairLedger'
  <2> SUFFICES ASSUME Mandate!TypeOK, Mandate!FairLedger,
                      [Mandate!Next]_(Mandate!vars)
               PROVE  Mandate!FairLedger'
    OBVIOUS
  <2> USE DEF Mandate!TypeOK
  <2>1. ASSUME NEW n \in 1..(MaxLong - MinShort), Mandate!Buy(n)
        PROVE  Mandate!FairLedger'
    <3>1. BidCap * (bought + n) = BidCap * bought + BidCap * n
      OBVIOUS
    <3>2. /\ AskFloor * sold \in Int /\ BidCap * bought \in Int
          /\ BidCap * n \in Int
      OBVIOUS
    <3>3. cash' >= AskFloor * sold - BidCap * (bought + n)
      BY <2>1, <3>1, <3>2 DEF Mandate!Buy, Mandate!FairLedger
    <3> QED
      BY <2>1, <3>3 DEF Mandate!Buy, Mandate!FairLedger
  <2>2. ASSUME NEW n \in 1..(MaxLong - MinShort), Mandate!Sell(n)
        PROVE  Mandate!FairLedger'
    <3>1. AskFloor * (sold + n) = AskFloor * sold + AskFloor * n
      OBVIOUS
    <3>2. /\ AskFloor * sold \in Int /\ BidCap * bought \in Int
          /\ AskFloor * n \in Int
      OBVIOUS
    <3>3. cash' >= AskFloor * (sold + n) - BidCap * bought
      BY <2>2, <3>1, <3>2 DEF Mandate!Sell, Mandate!FairLedger
    <3> QED
      BY <2>2, <3>3 DEF Mandate!Sell, Mandate!FairLedger
  <2>3. CASE UNCHANGED Mandate!vars
    BY <2>3 DEF Mandate!FairLedger, Mandate!vars
  <2> QED
    BY <2>1, <2>2, <2>3 DEF Mandate!Next
<1>3. QED
  BY <1>1, <1>2, MandateTypeCorrect, PTL DEF Mandate!Spec

(* A maker whose bids never exceed its asks has lost nothing whenever it is *)
(* flat.                                                                    *)
THEOREM MandateNoLoss == Mandate!Spec => []Mandate!NoLossWhenFlat
<1>1. Mandate!TypeOK /\ Mandate!FairLedger => Mandate!NoLossWhenFlat
  <2> SUFFICES ASSUME Mandate!TypeOK, Mandate!FairLedger, position = 0,
                      BidCap <= AskFloor
               PROVE  cash >= 0
    BY DEF Mandate!NoLossWhenFlat
  <2> USE MandateLimits DEF Mandate!LimitsAssumption, Mandate!TypeOK
  <2>1. bought = sold /\ sold \in Nat
    BY DEF Mandate!FairLedger
  <2>2. AskFloor * sold >= BidCap * sold
    BY <2>1
  <2>3. AskFloor * sold \in Int /\ BidCap * sold \in Int
    BY <2>1
  <2> QED
    BY <2>1, <2>2, <2>3 DEF Mandate!FairLedger
<1>2. QED
  BY <1>1, MandateTypeCorrect, MandateFairLedger, PTL

(* The ledger of a maker that only trades through the program is never      *)
(* worse than its worst prices, over any number of fills.                   *)
THEOREM LedgerIsFair == ASSUME OwnTrades = {} PROVE Spec => []FairLedger
<1>1. Mandate!FairLedger => FairLedger
  BY DEF Mandate!FairLedger, FairLedger
<1>2. QED
  BY <1>1, ImplementsMandate, MandateFairLedger, PTL DEF KeepsMandate

(* A maker that only trades through the program and never sends a bid above *)
(* an ask has lost nothing whenever it is flat.                             *)
THEOREM NeverLosesWhenFlat == ASSUME OwnTrades = {} PROVE Spec => []NoLossWhenFlat
<1>1. Mandate!NoLossWhenFlat => NoLossWhenFlat
  BY DEF Mandate!NoLossWhenFlat, NoLossWhenFlat
<1>2. QED
  BY <1>1, ImplementsMandate, MandateNoLoss, PTL DEF KeepsMandate

-----------------------------------------------------------------------------
(* The steps of arb_perp *)

(* An arb_perp whose two orders were placed.                                *)
Places(book, oracle, balance, first, second, extra) ==
    /\ ArbVerdict(position, book, oracle, balance) = "Ok"
    /\ PlaceAndTake(book, oracle, balance, first, second, extra)

SomeArb ==
    \E book \in Books, oracle \in Oracles, balance \in Balances :
       \E first, second \in 0..ArbSize(position, book, oracle, balance),
          extra \in Extras : Places(book, oracle, balance, first, second, extra)

(* Any other step places nothing.                                           *)
NothingPlaced == \E e \in ArbErrors \cup {"None"} : arb' = NoArb(e)

(* The verdict is Ok or one of the errors.                                  *)
LEMMA ArbVerdictType ==
    ASSUME NEW start, NEW book, NEW oracle, NEW balance
    PROVE  ArbVerdict(start, book, oracle, balance) \in ArbErrors \cup {"Ok"}
  BY DEF ArbVerdict, ArbErrors

LEMMA ArbSteps ==
    ASSUME ProgramNext
    PROVE  NothingPlaced \/ SomeArb
<1>1. CASE arb' = NoArb("None")
  BY <1>1 DEF NothingPlaced
<1>2. ASSUME NEW book \in Books, NEW oracle \in Oracles, NEW balance \in Balances,
             Arb(book, oracle, balance)
      PROVE  NothingPlaced \/ SomeArb
  <2> DEFINE verdict == ArbVerdict(position, book, oracle, balance)
  <2>1. CASE verdict # "Ok"
    <3>1. arb' = NoArb(verdict) /\ verdict \in ArbErrors
      BY <1>2, <2>1, ArbVerdictType DEF Arb, ArbReverts
    <3> QED BY <3>1 DEF NothingPlaced
  <2>2. CASE verdict = "Ok" /\ ArbReverts("DriftError")
    BY <2>2 DEF ArbReverts, NothingPlaced, ArbErrors
  <2>3. CASE /\ verdict = "Ok"
             /\ \E first, second \in 0..ArbSize(position, book, oracle, balance),
                   extra \in Extras :
                   PlaceAndTake(book, oracle, balance, first, second, extra)
    BY <2>3 DEF SomeArb, Places
  <2> QED
    BY <1>2, <2>1, <2>2, <2>3 DEF Arb
<1> QED
  BY <1>1, <1>2 DEF ProgramNext

(* arb_perp leaves the accounts of JitProxy alone: the program's behaviours *)
(* are behaviours of JitProxy.                                              *)
LEMMA ProgramRunsJit == ProgramSpec => Spec
<1>1. ProgramInit => Init
  BY DEF ProgramInit
<1>2. [ProgramNext]_programVars => [Next]_vars
  <2>1. ASSUME NEW book \in Books, NEW oracle \in Oracles, NEW balance \in Balances,
               Arb(book, oracle, balance)
        PROVE  Next
    BY <2>1 DEF Arb, Next
  <2> QED
    BY <2>1 DEF ProgramNext, programVars
<1>3. QED
  BY <1>1, <1>2, PTL DEF ProgramSpec, Spec

-----------------------------------------------------------------------------
(* The amount *)

(* The collateral and the oracle price are integers.                        *)
LEMMA InputTypes ==
    /\ \A oracle \in Oracles : oracle \in Int
    /\ \A balance \in Balances : balance \in Int
    /\ \A extra \in Extras : extra \in Int
  BY ArbAssumption DEF I64

(* Where the instruction goes on, the amount is one Drift takes, and above  *)
(* the minimum it is neither more than the best amount nor than what the    *)
(* collateral bears.                                                        *)
LEMMA ArbSizeFits ==
    ASSUME NEW start \in Int, NEW book \in Books, NEW oracle \in Oracles,
           NEW balance \in Balances,
           ArbVerdict(start, book, oracle, balance) = "Ok"
    PROVE  LET size == ArbSize(start, book, oracle, balance)
               max  == MaxBase(start, book, oracle, balance)
           IN  /\ size \in MinOrderSize..MaxI64
               /\ BestAmount(book) \in 0..MaxI64 /\ max \in U64 /\ oracle > 0
               /\ size > MinOrderSize => size <= BestAmount(book) /\ size <= max
<1> DEFINE best == BestAmount(book)
           max  == MaxBase(start, book, oracle, balance)
<1>1. best \in U64
  BY ArbAssumption DEF BestAmount, MinOf
<1>2. best <= MaxI64 /\ oracle > 0 /\ max \in U64
  <2>1. ~(best > MaxI64) /\ ~(oracle <= 0) /\ max \in U64
    BY DEF ArbVerdict
  <2>2. oracle \in Int
    BY InputTypes
  <2> HIDE DEF best, max
  <2> QED BY <1>1, <2>1, <2>2 DEF U64
<1>3. ArbSize(start, book, oracle, balance) = MaxOf(MinOf(best, max), MinOrderSize)
  BY DEF ArbSize
<1> HIDE DEF best, max
<1>4. QED
  BY <1>1, <1>2, <1>3 DEF MaxOf, MinOf, U64, best, max

-----------------------------------------------------------------------------
(* What an arb_perp that placed its orders did *)

(* The record of an arb_perp that placed its orders, in terms of itself.    *)
Placed(a) ==
    LET legs == Legs(a.start, a.book)
    IN  /\ a \in ArbType
        /\ ArbVerdict(a.start, a.book, a.oracle, a.balance) = "Ok"
        /\ a.size = ArbSize(a.start, a.book, a.oracle, a.balance)
        /\ a.first \in 0..a.size /\ a.second \in 0..a.size
        /\ a.between = After(a.start, legs[1], a.first)
        /\ /\ After(a.between, legs[2], a.second) = a.start
           /\ Brings(legs[1], a.first) + Brings(legs[2], a.second) + a.extra > 0
           => a.result = "Ok"

(* Which order goes first.                                                  *)
LEMMA LegsOf ==
    ASSUME NEW start \in Int, NEW book
    PROVE  /\ start >= 0 => /\ Legs(start, book)[1] = ArbOrder("Short", book.bid)
                            /\ Legs(start, book)[2] = ArbOrder("Long", book.ask)
           /\ start < 0  => /\ Legs(start, book)[1] = ArbOrder("Long", book.ask)
                            /\ Legs(start, book)[2] = ArbOrder("Short", book.bid)
  BY DEF Legs, StartDirection

(* A purchase adds what fills of it to the position, a sale takes it away.  *)
LEMMA AfterOrder ==
    ASSUME NEW base, NEW price, NEW n
    PROVE  /\ After(base, ArbOrder("Long", price), n) = base + n
           /\ After(base, ArbOrder("Short", price), n) = base - n
  BY DEF After, ArbOrder

(* The position after the first order is the one the program had in mind    *)
(* for as much as has filled.                                               *)
LEMMA FirstLeg ==
    ASSUME NEW start \in Int, NEW book, NEW n \in Int
    PROVE  LET between == After(start, Legs(start, book)[1], n)
           IN  /\ between = IntermediateBase(start, n)
               /\ between = IF start >= 0 THEN start - n ELSE start + n
               /\ between \in Int
<1> DEFINE leg == Legs(start, book)[1]
<1>2. After(start, leg, n) = IF start >= 0 THEN start - n ELSE start + n
  <2>1. CASE start >= 0
    <3>1. leg = ArbOrder("Short", book.bid)
      BY <2>1, LegsOf
    <3> HIDE DEF leg
    <3>2. After(start, leg, n) = start - n
      BY <3>1, AfterOrder
    <3> QED BY <2>1, <3>2
  <2>2. CASE ~(start >= 0)
    <3>1. leg = ArbOrder("Long", book.ask)
      <4>1. start < 0
        BY <2>2
      <4> QED BY <4>1, LegsOf
    <3> HIDE DEF leg
    <3>2. After(start, leg, n) = start + n
      BY <3>1, AfterOrder
    <3> QED BY <2>2, <3>2
  <2> QED BY <2>1, <2>2
<1>3. IntermediateBase(start, n) = IF start >= 0 THEN start - n ELSE start + n
  BY DEF IntermediateBase, StartDirection
<1>4. IntermediateBase(start, n) \in Int
  BY <1>3
<1> HIDE DEF leg
<1>5. LET between == After(start, leg, n)
      IN  /\ between = IntermediateBase(start, n)
          /\ between = IF start >= 0 THEN start - n ELSE start + n
          /\ between \in Int
  BY <1>2, <1>3, <1>4
<1> QED BY <1>5 DEF leg

(* An arb_perp that placed its orders has recorded what the program sent.   *)
LEMMA ArbIsPlaced ==
    ASSUME position \in Int, SomeArb
    PROVE  Placed(arb')
<1>1. PICK book \in Books, oracle \in Oracles, balance \in Balances :
         \E first, second \in 0..ArbSize(position, book, oracle, balance),
            extra \in Extras : Places(book, oracle, balance, first, second, extra)
  BY DEF SomeArb
<1> DEFINE size == ArbSize(position, book, oracle, balance)
<1>2. PICK first \in 0..size, second \in 0..size, extra \in Extras :
         Places(book, oracle, balance, first, second, extra)
  BY <1>1
<1> DEFINE legs    == Legs(position, book)
           between == After(position, legs[1], first)
           pays    == /\ After(between, legs[2], second) = position
                      /\ Brings(legs[1], first) + Brings(legs[2], second) + extra > 0
<1>3. size \in MinOrderSize..MaxI64
  BY <1>2, ArbSizeFits DEF Places
<1>4. ArbVerdict(position, book, oracle, balance) = "Ok"
  BY <1>2 DEF Places
<1>5. PICK result \in {"Ok", "NoArbOpportunity"} :
         /\ arb' = [result |-> result, placed |-> TRUE, book |-> book,
                    oracle |-> oracle, balance |-> balance, start |-> position,
                    size |-> size, first |-> first, second |-> second,
                    between |-> between, extra |-> extra]
         /\ pays => result = "Ok"
  BY <1>2 DEF Places, PlaceAndTake
<1>6. first \in Nat /\ second \in Nat /\ between \in Int
  <2>1. first \in Nat /\ second \in Nat
    BY <1>3
  <2>2. between \in Int
    <3>1. first \in Int
      BY <2>1
    <3> HIDE DEF size
    <3> QED BY <3>1, FirstLeg
  <2> QED BY <2>1, <2>2
<1>7. arb' \in ArbType
  <2> HIDE DEF size, between
  <2> QED BY <1>3, <1>5, <1>6, Zenon DEF ArbType
<1>8. /\ arb'.start = position /\ arb'.book = book /\ arb'.oracle = oracle
      /\ arb'.balance = balance /\ arb'.size = size /\ arb'.first = first
      /\ arb'.second = second /\ arb'.extra = extra /\ arb'.between = between
      /\ pays => arb'.result = "Ok"
  <2> HIDE DEF size, pays, between
  <2> QED BY <1>5
<1> QED
  BY <1>4, <1>7, <1>8 DEF Placed

-----------------------------------------------------------------------------
(* Invariants *)

(* The record of arb_perp is well-formed, and the amount of its orders is   *)
(* between the minimum and the largest i64.                                 *)
THEOREM ArbTypeCorrect == ProgramSpec => []ArbTypeOK
<1>1. ProgramInit => ArbTypeOK
  BY DEF ProgramInit, ArbTypeOK
<1>2. TypeOK /\ ArbTypeOK /\ [ProgramNext]_programVars => ArbTypeOK'
  <2> SUFFICES ASSUME TypeOK, ArbTypeOK, [ProgramNext]_programVars
               PROVE  ArbTypeOK'
    OBVIOUS
  <2>1. CASE SomeArb
    BY <2>1, ArbIsPlaced DEF TypeOK, Placed, ArbTypeOK
  <2>2. CASE NothingPlaced
    BY <2>2 DEF NothingPlaced, ArbTypeOK
  <2>3. CASE UNCHANGED programVars
    BY <2>3 DEF ArbTypeOK, programVars
  <2> QED BY <2>1, <2>2, <2>3, ArbSteps
<1>3. QED
  BY <1>1, <1>2, ProgramRunsJit, TypeCorrect, PTL DEF ProgramSpec

(* What holds of every record of placed orders is an invariant.             *)
AllPlaced == arb.placed => Placed(arb)

LEMMA AlwaysPlaced == ProgramSpec => []AllPlaced
<1>1. ProgramInit => AllPlaced
  BY DEF ProgramInit, AllPlaced, NoArb
<1>2. TypeOK /\ AllPlaced /\ [ProgramNext]_programVars => AllPlaced'
  <2> SUFFICES ASSUME TypeOK, AllPlaced, [ProgramNext]_programVars
               PROVE  AllPlaced'
    OBVIOUS
  <2>1. CASE SomeArb
    <3>1. Placed(arb')
      BY <2>1, ArbIsPlaced DEF TypeOK
    <3>2. Placed(arb)'
      BY <3>1 DEF Placed
    <3> QED BY <3>2 DEF AllPlaced
  <2>2. CASE NothingPlaced
    BY <2>2 DEF NothingPlaced, AllPlaced, NoArb
  <2>3. CASE UNCHANGED programVars
    BY <2>3 DEF AllPlaced, Placed, programVars
  <2> QED BY <2>1, <2>2, <2>3, ArbSteps
<1>3. QED
  BY <1>1, <1>2, ProgramRunsJit, TypeCorrect, PTL DEF ProgramSpec

(* arb_perp sends first the order that leans against the position it found: *)
(* however much of that order fills, the position before the second one is  *)
(* no further out than it was, or than the size of one order.               *)
THEOREM AlwaysLeansBack == ProgramSpec => []LeansBack
<1>1. AllPlaced => LeansBack
  <2> SUFFICES ASSUME arb.placed, Placed(arb)
               PROVE  Abs(arb.between) <= MaxOf(Abs(arb.start), arb.size)
    BY DEF AllPlaced, LeansBack
  <2>1. /\ arb.start \in Int /\ arb.size \in Int /\ arb.first \in 0..arb.size
        /\ arb.between = After(arb.start, Legs(arb.start, arb.book)[1], arb.first)
    BY DEF Placed, ArbType
  <2>2. arb.between = IF arb.start >= 0 THEN arb.start - arb.first
                                        ELSE arb.start + arb.first
    <3> DEFINE start == arb.start
               book  == arb.book
               first == arb.first
    <3>1. start \in Int /\ first \in Int
      BY <2>1
    <3> HIDE DEF start, book, first
    <3>2. After(start, Legs(start, book)[1], first)
             = IF start >= 0 THEN start - first ELSE start + first
      BY <3>1, FirstLeg
    <3> QED BY <2>1, <3>2 DEF start, book, first
  <2> QED BY <2>1, <2>2 DEF Abs, MaxOf
<1>2. QED
  BY <1>1, AlwaysPlaced, PTL

(* The prices of a book are numbers, NoPrice included.                      *)
LEMMA PlacedBook ==
    ASSUME arb \in ArbType
    PROVE  arb.book.bid \in Int /\ arb.book.ask \in Int
<1>1. arb.book \in [bid: Nat \cup {NoPrice}, bidSize: U64,
                    ask: Nat \cup {NoPrice}, askSize: U64]
  BY ArbAssumption DEF ArbType
<1>2. arb.book.bid \in Nat \cup {-1} /\ arb.book.ask \in Nat \cup {-1}
  BY <1>1 DEF NoPrice
<1> QED BY <1>2

(* A sale and a purchase of the same size bring the spread less both fees.  *)
LEMMA GainOfFills ==
    ASSUME NEW n \in Int, NEW bid \in Int, NEW ask \in Int, NEW fee \in Int
    PROVE  /\ (n * bid - fee * n) + (-(n * ask) - fee * n) = n * (bid - ask - 2 * fee)
           /\ (-(n * ask) - fee * n) + (n * bid - fee * n) = n * (bid - ask - 2 * fee)
  OBVIOUS

(* What a pair of equal fills brings, whichever order went first, is their  *)
(* size times the spread less the fees of both; and the position is back.   *)
LEMMA GainOfPair ==
    ASSUME NEW start \in Int, NEW book \in Books, NEW n \in Int, MaxFee \in Int,
           book.bid \in Int, book.ask \in Int
    PROVE  LET legs == Legs(start, book) IN
           /\ After(After(start, legs[1], n), legs[2], n) = start
           /\ Brings(legs[1], n) + Brings(legs[2], n)
                 = n * (book.bid - book.ask - 2 * MaxFee)
<1> DEFINE bid   == book.bid
           ask   == book.ask
           sale  == ArbOrder("Short", bid)
           buy   == ArbOrder("Long", ask)
<1>1. /\ Brings(sale, n) = n * bid - MaxFee * n
      /\ Brings(buy, n) = -(n * ask) - MaxFee * n
  BY DEF Brings, ArbOrder
<1>2. /\ After(After(start, sale, n), buy, n) = start
      /\ After(After(start, buy, n), sale, n) = start
  BY DEF After, ArbOrder
<1> HIDE DEF bid, ask
<1>3. /\ Brings(sale, n) + Brings(buy, n) = n * (bid - ask - 2 * MaxFee)
      /\ Brings(buy, n) + Brings(sale, n) = n * (bid - ask - 2 * MaxFee)
  BY <1>1, GainOfFills DEF bid, ask
<1> HIDE DEF sale, buy
<1>4. CASE start >= 0
  <2>1. Legs(start, book)[1] = sale /\ Legs(start, book)[2] = buy
    BY <1>4, LegsOf DEF sale, buy, bid, ask
  <2> QED BY <1>2, <1>3, <2>1, Zenon DEF bid, ask
<1>5. CASE start < 0
  <2>1. Legs(start, book)[1] = buy /\ Legs(start, book)[2] = sale
    BY <1>5, LegsOf DEF sale, buy, bid, ask
  <2> QED BY <1>2, <1>3, <2>1, Zenon DEF bid, ask
<1> QED BY <1>4, <1>5

(* A crossed book that fills alike, beyond the fees of both sides and with  *)
(* no funding owed, is never turned down.                                   *)
THEOREM CrossedBooksPay == ProgramSpec => []CrossedBookPays
<1>1. AllPlaced => CrossedBookPays
  <2> SUFFICES ASSUME arb.placed, Placed(arb),
                      arb.first = arb.second, arb.first > 0, arb.extra >= 0,
                      arb.book.bid - arb.book.ask > 2 * MaxFee
               PROVE  arb.result = "Ok"
    BY DEF AllPlaced, CrossedBookPays
  <2> DEFINE n == arb.first
             gain == arb.book.bid - arb.book.ask
             legs == Legs(arb.start, arb.book)
             pair == Brings(legs[1], n) + Brings(legs[2], n)
  <2>1. /\ n \in Nat /\ arb.extra \in Int /\ MaxFee \in Nat
        /\ arb.start \in Int /\ arb.book \in Books
    <3>1. arb \in ArbType
      BY DEF Placed
    <3>2. n \in Nat /\ arb.extra \in Extras /\ arb.start \in Int /\ arb.book \in Books
      BY <3>1 DEF ArbType
    <3> QED BY <3>2, InputTypes, ArbAssumption
  <2>5. arb.book.bid \in Int /\ arb.book.ask \in Int
    BY PlacedBook DEF Placed
  <2>2. /\ pair = n * (gain - 2 * MaxFee)
        /\ After(After(arb.start, legs[1], n), legs[2], n) = arb.start
    BY <2>1, <2>5, GainOfPair
  <2>3. n * (gain - 2 * MaxFee) > 0
    <3> DEFINE rest == gain - 2 * MaxFee
    <3>1. rest \in Nat /\ rest > 0 /\ n > 0
      BY <2>1, <2>5
    <3> HIDE DEF rest
    <3>2. n * rest > 0
      BY <2>1, <3>1
    <3> QED BY <3>2 DEF rest
  <2>4. pair + arb.extra > 0
    <3> HIDE DEF n, pair
    <3>1. n * (gain - 2 * MaxFee) \in Int
      BY <2>1, <2>5
    <3> QED BY <2>1, <2>2, <2>3, <3>1
  <2> QED BY <2>2, <2>4 DEF Placed
<1>2. QED
  BY <1>1, AlwaysPlaced, PTL

-----------------------------------------------------------------------------
(* Collateral *)

(* Rounding down never gives more than was divided.                         *)
LEMMA DivTimes ==
    ASSUME NEW x \in Int, NEW y \in Nat \ {0}
    PROVE  x \div y \in Int /\ (x \div y) * y <= x
  OBVIOUS

LEMMA TimesOrder ==
    ASSUME NEW n \in Nat, NEW a \in Int, NEW b \in Int, a <= b
    PROVE  a * n \in Int /\ b * n \in Int /\ a * n <= b * n
  OBVIOUS

(* The arithmetic of calculate_max_base_asset_amount: base units that pass  *)
(* its two divisions are worth no more than the balance, at any margin      *)
(* ratio up to the one it divided by.                                       *)
LEMMA Bears ==
    ASSUME NEW base \in Nat, NEW oracle \in Nat \ {0}, NEW usable \in Int,
           NEW ratio \in Nat \ {0}, NEW used \in Nat \ {0}, ratio <= used,
           NEW mp \in Nat \ {0}, NEW bp \in Nat \ {0},
           NEW balance \in Int, usable <= balance,
           base <= (((usable * mp) \div used) * bp) \div oracle
    PROVE  base * oracle * ratio <= balance * mp * bp
<1> DEFINE q1 == (usable * mp) \div used
           q2 == (q1 * bp) \div oracle
<1>1. usable * mp \in Int /\ usable * mp <= balance * mp /\ balance * mp \in Int
  BY TimesOrder
<1>2. q1 \in Int /\ q1 * used <= usable * mp
  BY <1>1, DivTimes
<1> HIDE DEF q1
<1>3. q1 * bp \in Int
  BY <1>2
<1>4. q2 \in Int /\ q2 * oracle <= q1 * bp
  BY <1>3, DivTimes
<1>5. base <= q2
  BY DEF q1
<1> HIDE DEF q2
<1>6. base * oracle \in Nat /\ base * oracle <= q1 * bp
  <2>1. base * oracle <= q2 * oracle /\ q2 * oracle \in Int
    BY <1>4, <1>5, TimesOrder
  <2> QED BY <1>3, <1>4, <2>1
<1> DEFINE worth == base * oracle
<1>7. worth \in Nat /\ worth <= q1 * bp
  BY <1>6
<1> HIDE DEF worth
<1>8. worth * ratio \in Int /\ worth * ratio <= worth * used /\ worth * used \in Int
  BY <1>7, TimesMonotone
<1>9. worth * used <= (q1 * bp) * used /\ (q1 * bp) * used \in Int
  BY <1>3, <1>7, TimesOrder
<1>10. (q1 * bp) * used = (q1 * used) * bp
  BY <1>2
<1>11. (q1 * used) * bp <= (balance * mp) * bp /\ (balance * mp) * bp \in Int
  <2>1. q1 * used \in Int /\ q1 * used <= balance * mp
    BY <1>1, <1>2
  <2> QED BY <1>1, <2>1, TimesOrder
<1>12. worth * ratio <= (balance * mp) * bp
  BY <1>8, <1>9, <1>10, <1>11
<1> QED BY <1>12 DEF worth

(* A position that is further out than it was, after the first order has    *)
(* filled in part, is not further out than after all of the best amount.    *)
LEMMA Outwards ==
    ASSUME NEW start \in Int, NEW best \in 0..MaxI64, NEW first \in Nat,
           first <= best, ~(Abs(IntermediateBase(start, first)) <= Abs(start))
    PROVE  /\ Abs(IntermediateBase(start, first)) \in 0..MaxI64
           /\ Abs(IntermediateBase(start, first)) <= first
           /\ Abs(IntermediateBase(start, best)) \in 0..MaxI64
           /\ Abs(IntermediateBase(start, first)) <= Abs(IntermediateBase(start, best))
<1>1. CASE start >= 0
  BY <1>1 DEF IntermediateBase, StartDirection, Abs
<1>2. CASE start < 0
  BY <1>2 DEF IntermediateBase, StartDirection, Abs
<1> QED BY <1>1, <1>2

(* Where the amount was not raised to the minimum, the position between the *)
(* two orders is borne by the balance if it is further out than before.     *)
LEMMA BetweenIsBorne ==
    ASSUME NEW start \in Int, NEW book \in Books, NEW oracle \in Oracles,
           NEW balance \in Balances, balance >= 0,
           ArbVerdict(start, book, oracle, balance) = "Ok",
           ArbSize(start, book, oracle, balance) > MinOrderSize,
           NEW first \in 0..ArbSize(start, book, oracle, balance),
           ~(Abs(IntermediateBase(start, first)) <= Abs(start))
    PROVE  Abs(IntermediateBase(start, first)) * oracle * MarginRatio[Abs(IntermediateBase(start, first))]
              <= balance * MarginPrecision * BasePrecision
<1> DEFINE size    == ArbSize(start, book, oracle, balance)
           between == Abs(IntermediateBase(start, first))
           best    == BestAmount(book)
           max     == MaxBase(start, book, oracle, balance)
           used    == Ratio(start, book)
           usable  == balance - MinOf(balance \div ErrorShare, ErrorCap)
<1>1. /\ size \in MinOrderSize..MaxI64
      /\ best \in 0..MaxI64 /\ max \in U64 /\ oracle > 0
      /\ size > MinOrderSize => size <= best /\ size <= max
  BY ArbSizeFits
<1>2. oracle \in Nat \ {0} /\ balance \in Nat
  BY <1>1, InputTypes
<1>3. max = (((usable * MarginPrecision) \div used) * BasePrecision) \div oracle
  BY <1>2 DEF MaxBase, Abs
<1> HIDE DEF size, best, max, used
<1>4. size \in Nat /\ size <= best /\ size <= max /\ max \in Nat
  BY <1>1 DEF size, U64
<1>5. first \in Nat /\ first <= size
  BY <1>4 DEF size
<1>6. first <= best /\ first <= max
  BY <1>1, <1>4, <1>5
<1>7. /\ between \in 0..MaxI64 /\ between <= first
      /\ Abs(IntermediateBase(start, best)) \in 0..MaxI64
      /\ between <= Abs(IntermediateBase(start, best))
  BY <1>1, <1>5, <1>6, Outwards
<1>8. /\ MarginRatio[between] \in Nat \ {0}
      /\ used \in Nat \ {0} /\ MarginRatio[between] <= used
  <2> DEFINE wider == Abs(IntermediateBase(start, best))
  <2>1. between \in 0..(MaxI64 + 1) /\ wider \in 0..(MaxI64 + 1) /\ between <= wider
    BY <1>7
  <2>2. used = MarginRatio[wider]
    BY DEF Ratio, used, best
  <2> HIDE DEF between, wider
  <2> QED BY <2>1, <2>2, ArbAssumption
<1>9. usable \in Int /\ usable <= balance
  <2>1. balance \div ErrorShare \in Int /\ balance \div ErrorShare >= 0
    BY <1>2, ArbAssumption
  <2> QED BY <1>2, <2>1, ArbAssumption DEF MinOf
<1>10. between \in Nat /\ between <= max
  BY <1>4, <1>5, <1>6, <1>7
<1>11. MarginPrecision \in Nat \ {0} /\ BasePrecision \in Nat \ {0}
  BY ArbAssumption
<1> DEFINE ratio == MarginRatio[between]
<1> HIDE DEF between, usable
<1>12. between <= (((usable * MarginPrecision) \div used) * BasePrecision) \div oracle
  BY <1>3, <1>10
<1>13. ratio \in Nat \ {0} /\ ratio <= used /\ used \in Nat \ {0}
  BY <1>8
<1>14. balance \in Int
  BY <1>2
<1> HIDE DEF ratio
<1>15. between * oracle * ratio <= balance * MarginPrecision * BasePrecision
  BY <1>2, <1>9, <1>10, <1>11, <1>12, <1>13, <1>14, Bears, Zenon
<1> QED BY <1>15 DEF between, ratio

(* Unless the order was raised to the minimum, the account's quote tokens   *)
(* bear the position between the two orders where that is further out.      *)
THEOREM CollateralIsEnough == ProgramSpec => []CollateralBears
<1>1. AllPlaced => CollateralBears
  <2> DEFINE between == Abs(arb.between)
  <2> SUFFICES ASSUME arb.placed, Placed(arb), arb.balance >= 0,
                      arb.size > MinOrderSize, ~(between <= Abs(arb.start))
               PROVE  between * arb.oracle * MarginRatio[between]
                        <= arb.balance * MarginPrecision * BasePrecision
    BY DEF AllPlaced, CollateralBears
  <2>1. arb \in ArbType
    BY DEF Placed
  <2>2. /\ arb.start \in Int /\ arb.book \in Books /\ arb.oracle \in Oracles
        /\ arb.balance \in Balances
    BY <2>1 DEF ArbType
  <2>3. arb.between = IntermediateBase(arb.start, arb.first)
    <3>1. arb.first \in Int
      BY <2>1 DEF ArbType
    <3> QED BY <2>2, <3>1, FirstLeg DEF Placed
  <2> QED
    BY <2>2, <2>3, BetweenIsBorne, Zenon DEF Placed
<1>2. QED
  BY <1>1, AlwaysPlaced, PTL
=============================================================================
