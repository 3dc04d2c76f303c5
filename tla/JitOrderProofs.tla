--------------------------- MODULE JitOrderProofs ---------------------------
(***************************************************************************)
(* Facts about the order process_order builds, for every market, parameter *)
(* set, quote and position.                                                *)
(***************************************************************************)
EXTENDS JitOrder, TLAPS

USE WidthAssumption, MarketAssumption

(* The maker takes the other side, and the other side of that is the        *)
(* taker's again (PositionDirection::opposite).                             *)
LEMMA SidesAreOpposite ==
    ASSUME NEW dir \in Directions
    PROVE  /\ Opposite(dir) \in Directions
           /\ Opposite(Opposite(dir)) = dir
           /\ Opposite(dir) = "Long" <=> dir = "Short"
  BY DEF Opposite, Directions

(* get_worst_price returns an unsigned price.                               *)
LEMMA WorstPriceNat ==
    ASSUME NEW p \in ParamType, NEW q \in QuoteType, NEW dir \in Directions
    PROVE  SetPrice(p, q, dir) \in Int /\ WorstPrice(p, q, dir) \in Nat
<1>1. p.ask \in Int /\ p.bid \in Int /\ q.oracle \in Int
  BY DEF ParamType, QuoteType, I64
<1>2. SetPrice(p, q, dir) \in Int
  BY <1>1 DEF SetPrice
<1> QED
  BY <1>2 DEF WorstPrice, Abs

(* Past the early return for an order without a price, the taker price of   *)
(* process_order is an unsigned price.                                      *)
LEMMA TakerPriceNat ==
    ASSUME NEW q \in QuoteType, NEW dir \in Directions,
           TakerPrice(q, dir) # NoPrice
    PROVE  TakerPrice(q, dir) \in Nat
<1>1. q.ask \in Nat /\ q.bid \in Nat /\ q.limit \in Nat \cup {NoPrice}
  BY DEF QuoteType, U64
<1> QED
  BY <1>1 DEF TakerPrice

(* An Ok verdict means that every early return was passed.                  *)
LEMMA OkVerdict ==
    ASSUME NEW p, NEW q, NEW dir, NEW pos, Verdict(p, q, dir, pos) = "Ok"
    PROVE  /\ TakerPrice(q, dir) # NoPrice
           /\ Crosses(Opposite(dir), TakerPrice(q, dir), WorstPrice(p, q, dir))
           /\ LimitCheck(p, Opposite(dir), pos) = "Ok"
  BY DEF Verdict

(* The size check_position_limits grants is at least the market's minimum   *)
(* and fits into the room between the position and the limit.               *)
LEMMA SizeFits ==
    ASSUME NEW p \in ParamType, NEW side \in Directions, NEW pos \in Int,
           NEW open \in Nat, LimitCheck(p, side, pos) = "Ok"
    PROVE  LET size == OrderSize(p, side, pos, open) IN
           /\ size \in Nat /\ size >= MinOrderSize
           /\ side = "Long"  => pos + size <= p.max
           /\ side = "Short" => pos - size >= p.min
<1> DEFINE room == Room(p, side, pos)
           size == OrderSize(p, side, pos, open)
<1>1. p.max \in Int /\ p.min \in Int /\ MinOrderSize \in Nat
  BY DEF ParamType, I64
<1>2. /\ room \in Int /\ room > MinOrderSize
      /\ side = "Long"  => room = p.max - pos
      /\ side = "Short" => room = pos - p.min
  BY <1>1 DEF LimitCheck, Room, Directions
<1>3. size \in Int /\ size >= MinOrderSize /\ size <= room
  <2> HIDE DEF room
  <2> QED BY <1>1, <1>2 DEF OrderSize, MinOf, MaxOf, Unfilled, room
<1> HIDE DEF room, size
<1>4. size \in Nat
  BY <1>1, <1>3
<1> QED
  BY <1>1, <1>2, <1>3, <1>4 DEF size

(* The maker's price lies between the taker's price and the maker's worst   *)
(* price, and gives the AMM no reason to take the fill unless the worst     *)
(* price does.                                                              *)
LEMMA PriceFits ==
    ASSUME NEW q \in QuoteType, NEW side \in Directions,
           NEW taker \in Nat, NEW worst \in Nat, Crosses(side, taker, worst)
    PROVE  LET price == MakerPrice(q, side, taker, worst) IN
           /\ price \in Nat
           /\ side = "Long"  => /\ price \in taker..worst
                                /\ MarketKind = "Perp" => price >= MinOf(q.bid, worst)
           /\ side = "Short" => /\ price \in worst..taker
                                /\ MarketKind = "Perp" => price <= MaxOf(q.ask, worst)
<1>1. q.bid \in Nat /\ q.ask \in Nat
  BY DEF QuoteType, U64
<1>2. CASE side = "Long"
  BY <1>1, <1>2 DEF MakerPrice, MinOf, MaxOf, Crosses
<1>3. CASE side = "Short"
  BY <1>1, <1>3 DEF MakerPrice, MinOf, MaxOf, Crosses
<1> QED
  BY <1>2, <1>3 DEF Directions
=============================================================================
