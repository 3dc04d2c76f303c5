------------------------- MODULE MakerAccountProofs -------------------------
(***************************************************************************)
(* Theorems about MakerAccount for any number of markets, limits and order *)
(* sizes.                                                                  *)
(***************************************************************************)
EXTENDS MakerAccount, JitOrderProofs

(* The limits of a market are integers, one on each side of zero.           *)
LEMMA LimitsType ==
    ASSUME NEW m \in Markets
    PROVE  /\ Limits[m] \in ParamType
           /\ Limits[m].max \in Int /\ Limits[m].min \in Int
           /\ Limits[m].min <= 0 /\ 0 <= Limits[m].max
  BY AccountAssumption DEF ParamType, I64

(* What each step does to one market. *)

(* A quote that got through the check left the market inside its limits     *)
(* even if everything resting fills on one side.                            *)
LEMMA QuoteStep ==
    ASSUME TypeOK, NEW m \in Markets, NEW k \in Markets,
           NEW b \in Nat, NEW a \in Nat, Quote(m, b, a)
    PROVE  \/ bids'[k] = bids[k] /\ asks'[k] = asks[k] /\ position'[k] = position[k]
           \/ /\ bids'[k] \in Nat /\ asks'[k] \in Int /\ asks'[k] <= 0
              /\ position'[k] = position[k]
              /\ bids[k] <= bids'[k] /\ asks'[k] <= asks[k]
              /\ position[k] + bids'[k] <= Limits[k].max
              /\ position[k] + asks'[k] >= Limits[k].min
<1>1. /\ bids' = [bids EXCEPT ![m] = @ + b]
      /\ asks' = [asks EXCEPT ![m] = @ - a]
      /\ position' = position
      /\ Constraints(position, bids', asks')
  BY DEF Quote
<1>2. CASE k # m
  BY <1>1, <1>2 DEF TypeOK
<1>3. CASE k = m
  <2>1. /\ bids'[k] = bids[k] + b /\ asks'[k] = asks[k] - a
        /\ bids[k] \in Nat /\ asks[k] \in Int /\ asks[k] <= 0
        /\ position[k] \in Int
    BY <1>1, <1>3 DEF TypeOK
  <2>2. CASE Passes(Limits[k], position[k], bids'[k], asks'[k])
    BY <1>1, <2>1, <2>2 DEF Passes
  <2>3. CASE Skipped(position[k], bids'[k], asks'[k])
    BY <1>1, <2>1, <2>3, LimitsType DEF Skipped
  <2> QED BY <1>1, <2>2, <2>3 DEF Constraints
<1> QED BY <1>2, <1>3

(* A fill moves the position by what it takes from the resting orders.      *)
LEMMA RestStep ==
    ASSUME TypeOK, NEW m \in Markets, NEW k \in Markets,
           NEW b \in Nat, NEW a \in Nat,
           Cancel(m, b, a) \/ BidFills(m, b) \/ AskFills(m, a)
    PROVE  /\ bids'[k] \in Nat /\ asks'[k] \in Int /\ asks'[k] <= 0
           /\ position'[k] \in Int
           /\ bids'[k] <= bids[k] /\ asks[k] <= asks'[k]
           /\ position'[k] + bids'[k] <= position[k] + bids[k]
           /\ position'[k] + asks'[k] >= position[k] + asks[k]
<1>1. CASE k # m
  BY <1>1 DEF TypeOK, Cancel, BidFills, AskFills
<1>2. CASE k = m /\ Cancel(m, b, a)
  BY <1>2 DEF TypeOK, Cancel
<1>3. CASE k = m /\ BidFills(m, b)
  BY <1>3 DEF TypeOK, BidFills
<1>4. CASE k = m /\ AskFills(m, a)
  BY <1>4 DEF TypeOK, AskFills
<1> QED BY <1>1, <1>2, <1>3, <1>4

(* A jit fill moves the position towards the limit and not past it.         *)
LEMMA JitStep ==
    ASSUME TypeOK, NEW m \in JitMarkets, NEW k \in Markets,
           NEW dir \in Directions, NEW open \in Nat, NEW made \in Nat,
           JitFill(m, dir, open, made)
    PROVE  /\ bids'[k] = bids[k] /\ asks'[k] = asks[k] /\ position'[k] \in Int
           /\ \/ position'[k] = position[k]
              \/ /\ k \in JitMarkets
                 /\ position[k] <= position'[k] /\ position'[k] <= Limits[k].max
              \/ /\ k \in JitMarkets
                 /\ position'[k] <= position[k] /\ position'[k] >= Limits[k].min
<1>1. m \in Markets /\ position[m] \in Int /\ position[k] \in Int
  BY AccountAssumption DEF TypeOK
<1>2. CASE k # m
  BY <1>1, <1>2 DEF JitFill, TypeOK
<1>3. CASE k = m
  <2> DEFINE size == OrderSize(Limits[m], dir, position[m], open)
  <2>1. /\ size \in Nat
        /\ dir = "Long"  => position[m] + size <= Limits[m].max
        /\ dir = "Short" => position[m] - size >= Limits[m].min
    BY <1>1, LimitsType, SizeFits DEF JitFill
  <2>2. made <= size /\ Limits[m].max \in Int /\ Limits[m].min \in Int
    BY <1>1, LimitsType DEF JitFill
  <2> HIDE DEF size
  <2>3. bids' = bids /\ asks' = asks
    BY DEF JitFill
  <2>4. CASE dir = "Long"
    <3>1. position'[m] = position[m] + made
      BY <1>1, <2>4 DEF JitFill, TypeOK
    <3> QED BY <1>1, <1>3, <2>1, <2>2, <2>3, <2>4, <3>1
  <2>5. CASE dir = "Short"
    <3>1. position'[m] = position[m] - made
      BY <1>1, <2>5 DEF JitFill, TypeOK
    <3> QED BY <1>1, <1>3, <2>1, <2>2, <2>3, <2>5, <3>1
  <2> QED BY <2>4, <2>5 DEF Directions
<1> QED BY <1>2, <1>3

-----------------------------------------------------------------------------
(* One market's numbers are inside the bounds: what rests never exceeds the *)
(* width of the limits (that is what makes ExcessIsBounded inductive: an    *)
(* old quote can be at most that large), nor does the excess; and without   *)
(* jit nothing is outside the limits at all.                                *)
Bounded(pos, b, a, m) ==
    /\ b <= Width(m) /\ -a <= Width(m)
    /\ pos + b <= Limits[m].max + Width(m)
    /\ pos + a >= Limits[m].min - Width(m)
    /\ m \notin JitMarkets => pos + b <= Limits[m].max /\ pos + a >= Limits[m].min

IInv == /\ TypeOK
        /\ \A m \in Markets : Bounded(position[m], bids[m], asks[m], m)

(* The three ways a market's numbers change keep them bounded.              *)
LEMMA BoundedSteps ==
    ASSUME NEW m \in Markets,
           NEW p \in Int, NEW b \in Nat, NEW a \in Int, a <= 0,
           NEW p2 \in Int, NEW b2 \in Nat, NEW a2 \in Int, a2 <= 0,
           Bounded(p, b, a, m),
           \/ b2 = b /\ a2 = a /\ p2 = p
           \/ /\ p2 = p /\ p + b2 <= Limits[m].max /\ p + a2 >= Limits[m].min
           \/ /\ b2 <= b /\ a <= a2
              /\ p2 + b2 <= p + b /\ p2 + a2 >= p + a
           \/ /\ b2 = b /\ a2 = a /\ m \in JitMarkets
              /\ p <= p2 /\ p2 <= Limits[m].max
           \/ /\ b2 = b /\ a2 = a /\ m \in JitMarkets
              /\ p2 <= p /\ p2 >= Limits[m].min
    PROVE  Bounded(p2, b2, a2, m)
<1>1. /\ Limits[m].max \in Int /\ Limits[m].min \in Int
      /\ Limits[m].min <= 0 /\ 0 <= Limits[m].max
  BY LimitsType
<1> QED
  BY <1>1 DEF Bounded, Width

(* Every transaction, fill and cancellation preserves the inductive         *)
(* invariant.                                                               *)
LEMMA IInvStep == IInv /\ [Next]_vars => IInv'
<1> SUFFICES ASSUME IInv, [Next]_vars
             PROVE  IInv'
  OBVIOUS
<1>0. TypeOK /\ Sizes \subseteq Nat
  BY AccountAssumption DEF IInv
<1>1. ASSUME NEW k \in Markets
      PROVE  /\ bids'[k] \in Nat /\ asks'[k] \in Int /\ asks'[k] <= 0
             /\ position'[k] \in Int
             /\ Bounded(position'[k], bids'[k], asks'[k], k)
  <2>0. /\ position[k] \in Int /\ bids[k] \in Nat /\ asks[k] \in Int /\ asks[k] <= 0
        /\ Bounded(position[k], bids[k], asks[k], k)
    BY DEF IInv, TypeOK
  <2>1. ASSUME NEW m \in Markets, NEW b \in Sizes \cup {0}, NEW a \in Sizes \cup {0},
               Quote(m, b, a)
        PROVE  /\ bids'[k] \in Nat /\ asks'[k] \in Int /\ asks'[k] <= 0
               /\ position'[k] \in Int
               /\ Bounded(position'[k], bids'[k], asks'[k], k)
    <3>1. b \in Nat /\ a \in Nat
      BY <1>0
    <3>2. \/ bids'[k] = bids[k] /\ asks'[k] = asks[k] /\ position'[k] = position[k]
          \/ /\ bids'[k] \in Nat /\ asks'[k] \in Int /\ asks'[k] <= 0
             /\ position'[k] = position[k]
             /\ position[k] + bids'[k] <= Limits[k].max
             /\ position[k] + asks'[k] >= Limits[k].min
      BY <1>0, <2>1, <3>1, QuoteStep
    <3>3. CASE bids'[k] = bids[k] /\ asks'[k] = asks[k] /\ position'[k] = position[k]
      BY <2>0, <3>3
    <3>4. CASE /\ bids'[k] \in Nat /\ asks'[k] \in Int /\ asks'[k] <= 0
               /\ position'[k] = position[k]
               /\ position[k] + bids'[k] <= Limits[k].max
               /\ position[k] + asks'[k] >= Limits[k].min
      BY <2>0, <3>4, BoundedSteps
    <3> QED BY <3>2, <3>3, <3>4
  <2>2. ASSUME NEW m \in Markets, NEW b \in Sizes \cup {0}, NEW a \in Sizes \cup {0},
               Cancel(m, b, a) \/ BidFills(m, b) \/ AskFills(m, a)
        PROVE  /\ bids'[k] \in Nat /\ asks'[k] \in Int /\ asks'[k] <= 0
               /\ position'[k] \in Int
               /\ Bounded(position'[k], bids'[k], asks'[k], k)
    <3>1. b \in Nat /\ a \in Nat
      BY <1>0
    <3>2. /\ bids'[k] \in Nat /\ asks'[k] \in Int /\ asks'[k] <= 0
          /\ position'[k] \in Int
          /\ bids'[k] <= bids[k] /\ asks[k] <= asks'[k]
          /\ position'[k] + bids'[k] <= position[k] + bids[k]
          /\ position'[k] + asks'[k] >= position[k] + asks[k]
      BY <1>0, <2>2, <3>1, RestStep
    <3> QED BY <2>0, <3>2, BoundedSteps
  <2>3. ASSUME NEW m \in JitMarkets, NEW dir \in Directions, NEW open \in Sizes,
               NEW made \in Sizes, JitFill(m, dir, open, made)
        PROVE  /\ bids'[k] \in Nat /\ asks'[k] \in Int /\ asks'[k] <= 0
               /\ position'[k] \in Int
               /\ Bounded(position'[k], bids'[k], asks'[k], k)
    BY <1>0, <2>0, <2>3, JitStep, BoundedSteps
  <2>4. CASE UNCHANGED vars
    BY <2>0, <2>4 DEF vars
  <2> QED
    BY <2>1, <2>2, <2>3, <2>4 DEF Next
<1>2. /\ DOMAIN position' = Markets /\ DOMAIN bids' = Markets /\ DOMAIN asks' = Markets
      /\ position' = [m \in Markets |-> position'[m]]
      /\ bids' = [m \in Markets |-> bids'[m]]
      /\ asks' = [m \in Markets |-> asks'[m]]
  BY <1>0 DEF Next, vars, TypeOK, Quote, Cancel, BidFills, AskFills, JitFill
<1>3. TypeOK'
  BY <1>1, <1>2 DEF TypeOK
<1> QED
  BY <1>1, <1>3 DEF IInv

(* An account without positions and orders satisfies it.                    *)
LEMMA IInvInit == Init => IInv
<1> SUFFICES ASSUME Init, NEW m \in Markets
             PROVE  TypeOK /\ Bounded(position[m], bids[m], asks[m], m)
  BY DEF IInv, Init, TypeOK
<1>1. TypeOK /\ position[m] = 0 /\ bids[m] = 0 /\ asks[m] = 0
  BY DEF Init, TypeOK
<1> QED
  BY <1>1, LimitsType DEF Bounded, Width

(* The inductive invariant holds of every history of the account: positions *)
(* and resting orders stay within the limits and their width.               *)
THEOREM IInvHolds == Spec => []IInv
  BY IInvInit, IInvStep, PTL DEF Spec

(* Order constraints alone keep the position within its limits whatever     *)
(* fills.                                                                   *)
THEOREM RestingOrdersAreSafe == Spec => []RestingIsSafe
<1>1. IInv => RestingIsSafe
  BY DEF IInv, Bounded, RestingIsSafe
<1> QED
  BY <1>1, IInvHolds, PTL

(* With jit fills in the same market the excess is at most the width of the *)
(* limits, however many rounds of quotes and fills there are.               *)
THEOREM JitExcessIsBounded == Spec => []ExcessIsBounded
<1>1. IInv => ExcessIsBounded
  BY DEF IInv, Bounded, ExcessIsBounded
<1> QED
  BY <1>1, IInvHolds, PTL

(* Outside its limits a maker gets no new exposure on the far side.         *)
THEOREM NoNewExposureOutside == Spec => OutsideOnlyOldOrdersFill
<1> DEFINE High(k) == /\ bids'[k] <= bids[k]
                      /\ position'[k] + bids'[k] <= position[k] + bids[k]
           Low(k)  == /\ asks'[k] >= asks[k]
                      /\ position'[k] + asks'[k] >= position[k] + asks[k]
           Held    == \A m \in Markets :
                         /\ position[m] > Limits[m].max => High(m)
                         /\ position[m] < Limits[m].min => Low(m)
<1>1. ASSUME TypeOK, Next, NEW k \in Markets
      PROVE  /\ position[k] > Limits[k].max => High(k)
             /\ position[k] < Limits[k].min => Low(k)
  <2>0. /\ position[k] \in Int /\ bids[k] \in Nat /\ asks[k] \in Int /\ asks[k] <= 0
        /\ Limits[k].max \in Int /\ Limits[k].min \in Int
        /\ Sizes \subseteq Nat
    BY <1>1, LimitsType, AccountAssumption DEF TypeOK
  <2>1. ASSUME NEW m \in Markets, NEW b \in Sizes \cup {0}, NEW a \in Sizes \cup {0},
               Quote(m, b, a)
        PROVE  /\ position[k] > Limits[k].max => High(k)
               /\ position[k] < Limits[k].min => Low(k)
    <3>1. b \in Nat /\ a \in Nat
      BY <2>0
    <3>2. \/ bids'[k] = bids[k] /\ asks'[k] = asks[k] /\ position'[k] = position[k]
          \/ /\ bids'[k] \in Nat /\ asks'[k] \in Int /\ asks'[k] <= 0
             /\ position'[k] = position[k]
             /\ position[k] + bids'[k] <= Limits[k].max
             /\ position[k] + asks'[k] >= Limits[k].min
      BY <1>1, <2>1, <3>1, QuoteStep
    <3> QED BY <2>0, <3>2
  <2>2. ASSUME NEW m \in Markets, NEW b \in Sizes \cup {0}, NEW a \in Sizes \cup {0},
               Cancel(m, b, a) \/ BidFills(m, b) \/ AskFills(m, a)
        PROVE  /\ position[k] > Limits[k].max => High(k)
               /\ position[k] < Limits[k].min => Low(k)
    <3>1. b \in Nat /\ a \in Nat
      BY <2>0
    <3> QED BY <1>1, <2>2, <3>1, RestStep
  <2>3. ASSUME NEW m \in JitMarkets, NEW dir \in Directions, NEW open \in Sizes,
               NEW made \in Sizes, JitFill(m, dir, open, made)
        PROVE  /\ position[k] > Limits[k].max => High(k)
               /\ position[k] < Limits[k].min => Low(k)
    <3>1. open \in Nat /\ made \in Nat
      BY <2>0
    <3>2. /\ bids'[k] = bids[k] /\ asks'[k] = asks[k] /\ position'[k] \in Int
          /\ \/ position'[k] = position[k]
             \/ position[k] <= position'[k] /\ position'[k] <= Limits[k].max
             \/ position'[k] <= position[k] /\ position'[k] >= Limits[k].min
      BY <1>1, <2>3, <3>1, JitStep
    <3> QED BY <2>0, <3>2
  <2> QED
    BY <1>1, <2>1, <2>2, <2>3 DEF Next
<1>2. TypeOK /\ [Next]_vars => [Held]_vars
  BY <1>1
<1>3. Spec => []TypeOK
  BY IInvHolds, PTL DEF IInv
<1> QED
  BY <1>2, <1>3, PTL DEF Spec, OutsideOnlyOldOrdersFill
=============================================================================
