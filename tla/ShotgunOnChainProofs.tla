------------------------ MODULE ShotgunOnChainProofs ------------------------
(***************************************************************************)
(* The jitter with the program behind it, for every number of orders,      *)
(* parameter set, quote and late transaction: every step of ShotgunOnChain *)
(* is a step of JitterShotgun or leaves what the jitter sees as it is, so  *)
(* the theorems about JitterShotgun hold here too.                         *)
(***************************************************************************)
EXTENDS ShotgunOnChain, FiniteSetTheorems, TLAPS

USE WidthAssumption, MarketAssumption, ParamsAssumption, SystemAssumption

-----------------------------------------------------------------------------
(* What the jitter sees of a change on chain *)

(* The accounts of the taker: an order is known under its own uuid only,    *)
(* and rests only once it was placed.                                       *)
Accounts ==
    /\ orders \in [OrderIds -> OrderType]
    /\ signed \in [Uuids -> OrderIds \cup {NoOrder}]
    /\ \A u \in Uuids : signed[u] \in {u, NoOrder}
    /\ resting \subseteq OrderIds
    /\ \A o \in resting : orders[o].status # "Unused"
    /\ \A tx \in late : tx.sig \in Bot!Signatures

(* An order is placed, is partly taken or goes, or its auction ends.        *)
Touches(o) ==
    /\ orders' \in [OrderIds -> OrderType]
    /\ \A p \in OrderIds \ {o} : orders'[p] = orders[p] /\ (p \in resting' <=> p \in resting)
    /\ resting' \subseteq OrderIds
    /\ \/ /\ orders[o].status = "Unused" /\ orders'[o].status = "Open"
          /\ UNCHANGED resting
       \/ /\ orders[o].status = "Open" /\ orders'[o].status \in {"Open", "Gone"}
          /\ orders'[o].open <= orders[o].open
          /\ UNCHANGED resting
       \/ /\ orders[o].status = "Open" /\ orders' = orders /\ o \in resting'

LEMMA BotSignatures ==
    \A s \in Bot!Signatures :
        /\ s.order \in OrderIds
        /\ s.via = "chain" \/ s.order \in Uuids
  BY DEF Bot!Signatures, Bot!Orders

LEMMA SeenFields ==
    \A o \in OrderIds :
        /\ Seen[o] = [phase |-> Seen[o].phase, dust |-> Seen[o].dust]
        /\ Seen[o].phase = IF orders[o].status = "Unused" THEN "new"
                           ELSE IF orders[o].status = "Gone" THEN "closed"
                           ELSE IF o \in resting THEN "rests" ELSE "auction"
        /\ Seen[o].dust <=> (orders[o].status # "Unused" /\ orders[o].open <= MinOrderSize)
        /\ Seen[o].dust \in BOOLEAN
  BY DEF Seen

LEMMA SeenFieldsNext ==
    \A o \in OrderIds :
        /\ Seen'[o] = [phase |-> Seen'[o].phase, dust |-> Seen'[o].dust]
        /\ Seen'[o].phase = IF orders'[o].status = "Unused" THEN "new"
                            ELSE IF orders'[o].status = "Gone" THEN "closed"
                            ELSE IF o \in resting' THEN "rests" ELSE "auction"
        /\ Seen'[o].dust <=> (orders'[o].status # "Unused" /\ orders'[o].open <= MinOrderSize)
        /\ Seen'[o].dust \in BOOLEAN
  BY DEF Seen

(* Only that order looks different, and as an order moves.                  *)
LEMMA TouchesSeen ==
    ASSUME Accounts, NEW o \in OrderIds, Touches(o)
    PROVE  /\ Seen' = [Seen EXCEPT ![o] = Seen'[o]]
           /\ Seen'[o] \in [phase: Bot!Phases, dust: BOOLEAN]
           /\ Seen[o].dust => Seen'[o].dust
           /\ \/ Seen[o].phase = "new" /\ Seen'[o].phase = "auction"
              \/ Seen[o].phase = "auction" /\ Seen'[o].phase \in {"auction", "rests", "closed"}
              \/ Seen[o].phase = "rests" /\ Seen'[o].phase \in {"rests", "closed"}
<1>1. Seen' = [Seen EXCEPT ![o] = Seen'[o]]
  <2>1. \A p \in OrderIds \ {o} : Seen'[p] = Seen[p]
    BY DEF Touches, Seen
  <2>2. Seen = [p \in OrderIds |-> Seen[p]] /\ Seen' = [p \in OrderIds |-> Seen'[p]]
    BY DEF Seen
  <2> HIDE DEF Seen
  <2> QED BY <2>1, <2>2
<1>2. /\ orders[o] \in OrderType /\ orders'[o] \in OrderType
      /\ orders[o].open \in Int /\ orders'[o].open \in Int /\ MinOrderSize \in Int
  <2>1. orders[o] \in OrderType /\ orders'[o] \in OrderType
    BY DEF Accounts, Touches
  <2> QED BY <2>1 DEF OrderType
<1>3. orders[o].status = "Unused" => o \notin resting
  BY DEF Accounts
<1>4. \/ Seen[o].phase = "new" /\ Seen'[o].phase = "auction"
      \/ Seen[o].phase = "auction" /\ Seen'[o].phase \in {"auction", "rests", "closed"}
      \/ Seen[o].phase = "rests" /\ Seen'[o].phase \in {"rests", "closed"}
  BY <1>3, SeenFields, SeenFieldsNext DEF Touches
<1>5. Seen[o].dust => Seen'[o].dust
  <2> SUFFICES ASSUME Seen[o].dust PROVE Seen'[o].dust
    OBVIOUS
  <2>1. orders[o].status # "Unused" /\ orders[o].open <= MinOrderSize
    BY SeenFields
  <2>2. orders'[o].status # "Unused" /\ orders'[o].open <= MinOrderSize
    BY <1>2, <2>1 DEF Touches
  <2> QED BY <2>2, SeenFieldsNext
<1>6. Seen'[o] \in [phase: Bot!Phases, dust: BOOLEAN]
  <2> DEFINE phase == Seen'[o].phase
             dust  == Seen'[o].dust
  <2>1. phase \in Bot!Phases /\ dust \in BOOLEAN
    BY <1>4, SeenFieldsNext DEF Bot!Phases
  <2>2. Seen'[o] = [phase |-> phase, dust |-> dust]
    BY SeenFieldsNext
  <2> HIDE DEF phase, dust
  <2> QED BY <2>1, <2>2
<1> QED BY <1>1, <1>4, <1>5, <1>6

(* What a change on chain is for the jitter: the order moves.               *)
LEMMA TouchesMoves ==
    ASSUME Accounts, NEW o \in OrderIds, Touches(o), UNCHANGED botVars
    PROVE  [Bot!Next]_(Bot!vars)
<1>1. CASE Seen' = Seen
  BY <1>1 DEF botVars, Bot!vars, Bot!baseVars
<1>2. CASE Seen' # Seen
  <2> DEFINE phase == Seen'[o].phase
             dust  == Seen'[o].dust
  <2>1. phase \in Bot!Phases /\ dust \in BOOLEAN /\ Seen'[o] = [phase |-> phase, dust |-> dust]
    BY TouchesSeen, SeenFieldsNext
  <2>2. Bot!OrderMoves(o, phase, dust)
    <3> HIDE DEF phase, dust
    <3> QED BY <1>2, <2>1, TouchesSeen DEF Bot!OrderMoves, botVars, phase, dust
  <2>3. Bot!Environment /\ UNCHANGED tasks
    BY <2>1, <2>2 DEF Bot!Environment, Bot!Orders, botVars
  <2> QED BY <2>3 DEF Bot!Next
<1> QED BY <1>1, <1>2

LEMMA Unseen ==
    ASSUME UNCHANGED <<orders, resting, botVars>>
    PROVE  UNCHANGED Bot!vars
  BY DEF botVars, Bot!vars, Bot!baseVars, Seen

-----------------------------------------------------------------------------
(* What an instruction does and how its result is answered *)

LEMMA VerdictIsResult ==
    ASSUME NEW p, NEW q, NEW dir, NEW pos
    PROVE  Verdict(p, q, dir, pos) \in Errors \cup {"Ok"}
  BY DEF Verdict, LimitCheck, Errors

(* The errors that do not need an order to be there.                        *)
Absent == {"TakerOrderNotFound", "SignedMsgOrderDoesNotExist", "LoadError"}

(* An error changes nothing and a missing order is reported; Ok takes from  *)
(* an open order.                                                           *)
Effect(o) ==
    \/ /\ receipt'.result \in Errors /\ UNCHANGED <<orders, signed>>
       /\ orders[o].status # "Open" =>
             receipt'.result \in Absent
    \/ /\ receipt'.result = "Ok" /\ orders[o].status = "Open"
       /\ UNCHANGED signed
       /\ \E after \in 0..MaxOrder, gone \in BOOLEAN :
             /\ after <= orders[o].open
             /\ after = 0 => gone
             /\ orders' = [orders EXCEPT ![o] = Reduced(@, after, gone)]

LEMMA RevertEffect ==
    ASSUME NEW o, NEW e \in Errors, Revert(e),
           orders[o].status # "Open" => e \in Absent
    PROVE  Effect(o)
  BY DEF Revert, Failed, Effect

LEMMA ExecuteEffect ==
    ASSUME Accounts, NEW o \in OrderIds, NEW p, NEW q, Execute(o, p, q)
    PROVE  Effect(o)
<1> DEFINE verdict == Verdict(p, q, orders[o].dir, position)
<1>1. orders[o].open \in Nat
  BY DEF Accounts, OrderType
<1>2. CASE orders[o].status # "Open"
  BY <1>2, RevertEffect DEF Execute, Errors, Absent
<1>3. CASE /\ orders[o].status = "Open" /\ verdict # "Ok"
           /\ Revert(verdict)
  <2>1. verdict \in Errors
    BY <1>3, VerdictIsResult
  <2> HIDE DEF verdict
  <2> QED BY <1>3, <2>1, RevertEffect
<1>4. CASE orders[o].status = "Open" /\ Revert("DriftError")
  BY <1>4, RevertEffect DEF Errors
<1>5. ASSUME orders[o].status = "Open", NEW made \in 0..MaxOrder, NEW after \in 0..MaxOrder,
             NEW gone \in BOOLEAN, PlaceAndMake(o, p, q, made, after, gone)
      PROVE  Effect(o)
  <2>1. made + after <= orders[o].open /\ (after = 0 => gone) /\ MaxOrder \in Nat
    BY <1>5 DEF PlaceAndMake
  <2>2. after <= orders[o].open
    BY <1>1, <2>1
  <2>3. CASE Revert("NoFill")
    BY <1>5, <2>3, RevertEffect DEF Errors
  <2>4. CASE Commit(o, p, q, made, after, gone)
    <3>1. /\ receipt'.result = "Ok" /\ UNCHANGED signed
          /\ orders' = [orders EXCEPT ![o] = Reduced(@, after, gone)]
      BY <2>4 DEF Commit
    <3> QED BY <1>5, <2>1, <2>2, <3>1 DEF Effect
  <2> QED BY <1>5, <2>3, <2>4 DEF PlaceAndMake
<1> QED BY <1>2, <1>3, <1>4, <1>5 DEF Execute

LEMMA InstructionEffect ==
    ASSUME Accounts, NEW s \in Bot!Signatures, NEW p, NEW q, Instruction(s, p, q)
    PROVE  Effect(s.order)
<1>1. s.order \in OrderIds
  BY BotSignatures
<1>2. CASE Execute(s.order, p, q)
  BY <1>1, <1>2, ExecuteEffect
<1>3. CASE \/ s.via # "chain" /\ signed[s.order] = NoOrder
           \/ Revert("LoadError")
  <2>1. Revert("LoadError") \/ Revert("SignedMsgOrderDoesNotExist")
    BY <1>3 DEF Instruction, Jit, JitSignedMsg
  <2> QED BY <2>1, RevertEffect DEF Errors, Absent
<1>4. s.via # "chain" => signed[s.order] \in {s.order, NoOrder}
  BY BotSignatures DEF Accounts
<1> QED BY <1>2, <1>3, <1>4 DEF Instruction, Jit, JitSignedMsg

LEMMA EffectTouches ==
    ASSUME Accounts, NEW o \in OrderIds, Effect(o), receipt'.result = "Ok", UNCHANGED resting
    PROVE  Touches(o)
<1>1. PICK after \in 0..MaxOrder, gone \in BOOLEAN :
         /\ after <= orders[o].open
         /\ orders' = [orders EXCEPT ![o] = Reduced(@, after, gone)]
  BY DEF Effect, Errors
<1>2. orders[o] \in OrderType /\ orders[o].status = "Open" /\ MaxOrder \in Nat
  BY DEF Accounts, Effect, Errors
<1>3. /\ Reduced(orders[o], after, gone) \in OrderType
      /\ Reduced(orders[o], after, gone).status \in {"Open", "Gone"}
      /\ Reduced(orders[o], after, gone).open <= orders[o].open
  <2>1. orders[o].dir \in Directions /\ orders[o].open \in Nat
    BY <1>2 DEF OrderType
  <2> QED BY <1>1, <1>2, <2>1 DEF Reduced, OrderType
<1>4. /\ orders' \in [OrderIds -> OrderType]
      /\ orders'[o] = Reduced(orders[o], after, gone)
      /\ \A p \in OrderIds \ {o} : orders'[p] = orders[p]
  BY <1>1, <1>3 DEF Accounts
<1> QED BY <1>2, <1>3, <1>4 DEF Touches, Accounts

(* An error is answered by something the jitter expects of such an order.   *)
LEMMA ErrorsRefuse ==
    ASSUME NEW o \in OrderIds, NEW result \in Errors, NEW answer \in AnswersTo(result) \cup {"Timeout"},
           orders[o].status = "Gone" => result \in Absent
    PROVE  answer \in Bot!Answers /\ answer \in Bot!Refusals(o)
<1>1. answer \in Bot!Retried \cup Bot!Final
  BY DEF AnswersTo, Errors, Bot!Retried, Bot!Final
<1>2. result \in Absent => answer \in Bot!Final
  BY DEF Absent, AnswersTo, Bot!Retried, Bot!Final
<1>3. Seen[o].phase = "closed" => orders[o].status = "Gone"
  BY SeenFields
<1> QED BY <1>1, <1>2, <1>3 DEF Bot!Answers, Bot!Refusals

-----------------------------------------------------------------------------
(* The steps of the tries, as the jitter's own *)

BotStays == UNCHANGED <<update, perpParams, spotParams, seenOrders, onGoingAuctions,
                        passedOver>>

LEMMA RefusedIsStep ==
    ASSUME NEW s \in Bot!Signatures, NEW k \in Slots, tasks[s][k].pc = "sending",
           NEW answer \in Bot!Answers, answer \in Bot!Refusals(s.order),
           Bot!Answered(s, k, answer, 0), UNCHANGED <<orders, resting>>, BotStays
    PROVE  Bot!Next
<1>1. UNCHANGED Bot!baseVars
  BY DEF BotStays, Bot!baseVars, Seen
<1>2. Bot!Refused(s, k, answer)
  BY <1>1 DEF Bot!Refused
<1> QED BY <1>2 DEF Bot!Executed, Bot!TryStep, Bot!Next

LEMMA ExecutesIsStep ==
    ASSUME Accounts, NEW s \in Bot!Signatures, NEW k \in Slots, Executes(s, k)
    PROVE  Bot!Next
<1> DEFINE o == s.order
<1>1. /\ o \in OrderIds /\ tasks[s][k].pc = "sending" /\ orders[o].status # "Unused"
      /\ Effect(o) /\ UNCHANGED resting /\ BotStays
  BY BotSignatures, InstructionEffect DEF Executes, BotStays
<1>2. PICK answer \in AnswersTo(receipt'.result) \cup {"Timeout"} :
         Bot!Answered(s, k, answer, IF receipt'.result = "Ok" THEN 1 ELSE 0)
  BY DEF Executes
<1>3. CASE receipt'.result = "Ok"
  <2>1. Touches(o) /\ orders[o].status = "Open"
    BY <1>1, <1>3, EffectTouches DEF Effect, Errors
  <2>2. Seen[o].phase \in {"auction", "rests"}
    BY <1>1, <2>1, SeenFields
  <2>3. Seen'[o] \in Bot!Outcomes(o)
    <3>1. /\ Seen'[o] \in [phase: Bot!Phases, dust: BOOLEAN]
          /\ Seen[o].dust => Seen'[o].dust
          /\ Seen'[o].phase \in {"auction", "rests", "closed"}
          /\ Seen[o].phase = "rests" => Seen'[o].phase # "auction"
      BY <1>1, <2>1, <2>2, TouchesSeen
    <3> QED BY <2>2, <3>1 DEF Bot!Outcomes
  <2>4. answer \in {"Sent", "Timeout"} /\ Bot!Answered(s, k, answer, 1)
    BY <1>2, <1>3 DEF AnswersTo
  <2>5. Bot!Lands(s, k, Seen'[o], answer)
    BY <1>1, <2>1, <2>2, <2>4, TouchesSeen DEF Bot!Lands, BotStays
  <2> QED BY <2>3, <2>4, <2>5 DEF Bot!Executed, Bot!TryStep, Bot!Next
<1>4. CASE receipt'.result # "Ok"
  <2>1. /\ receipt'.result \in Errors /\ UNCHANGED orders
        /\ orders[o].status = "Gone" =>
              receipt'.result \in Absent
    BY <1>1, <1>4 DEF Effect
  <2>2. answer \in Bot!Answers /\ answer \in Bot!Refusals(o)
    BY <1>1, <2>1, ErrorsRefuse
  <2>3. Bot!Answered(s, k, answer, 0)
    BY <1>2, <1>4
  <2> QED BY <1>1, <2>1, <2>2, <2>3, RefusedIsStep
<1> QED BY <1>3, <1>4

LEMMA TryIsStep ==
    ASSUME Accounts, NEW s \in Bot!Signatures, NEW k \in Slots, TryStep(s, k)
    PROVE  Bot!Next
<1>1. CASE Runs(s, k)
  BY <1>1 DEF Runs, Bot!TryStep, Bot!Next
<1>2. CASE TimesOut(s, k)
  <2>1. /\ tasks[s][k].pc = "sending" /\ Bot!Answered(s, k, "Timeout", 0)
        /\ UNCHANGED <<orders, resting>> /\ BotStays
    BY <1>2 DEF TimesOut, Elsewhere, BotStays
  <2>2. "Timeout" \in Bot!Answers /\ "Timeout" \in Bot!Refusals(s.order)
    BY DEF Bot!Answers, Bot!Refusals, Bot!Final
  <2> QED BY <2>1, <2>2, RefusedIsStep
<1>3. CASE Executes(s, k)
  BY <1>3, ExecutesIsStep
<1>4. CASE RefusedUnplaced(s, k)
  <2>1. /\ tasks[s][k].pc = "sending" /\ orders[s.order].status = "Unused"
        /\ UNCHANGED <<orders, resting>> /\ BotStays
    BY <1>4 DEF RefusedUnplaced, Elsewhere, BotStays
  <2>2. PICK result \in Errors : \E answer \in AnswersTo(result) : Bot!Answered(s, k, answer, 0)
    <3> DEFINE results == {Verdict(tasks[s][k].params, q, TakerDir[s.order], position) : q \in Quotes}
                             \cup {"NoFill", "LoadError", "DriftError"}
    <3>1. PICK r \in results \ {"Ok"} : \E answer \in AnswersTo(r) : Bot!Answered(s, k, answer, 0)
      BY <1>4 DEF RefusedUnplaced
    <3>2. r \in Errors
      <4>1. r \in {"NoFill", "LoadError", "DriftError"}
               \/ \E q \in Quotes : r = Verdict(tasks[s][k].params, q, TakerDir[s.order], position)
        BY <3>1
      <4>2. {"NoFill", "LoadError", "DriftError"} \subseteq Errors
        BY DEF Errors
      <4> QED BY <3>1, <4>1, <4>2, VerdictIsResult
    <3> QED BY <3>1, <3>2
  <2>3. PICK answer \in AnswersTo(result) : Bot!Answered(s, k, answer, 0)
    BY <2>2
  <2>4. answer \in Bot!Answers /\ answer \in Bot!Refusals(s.order)
    BY <2>1, ErrorsRefuse, BotSignatures
  <2> QED BY <2>1, <2>3, <2>4, RefusedIsStep
<1> QED BY <1>1, <1>2, <1>3, <1>4 DEF TryStep

-----------------------------------------------------------------------------
(* The steps of everything else *)

(* At most one order changes.                                               *)
OneTouched == (\E o \in OrderIds : Touches(o)) \/ UNCHANGED <<orders, resting>>

LEMMA OthersTouch ==
    ASSUME Accounts, Others
    PROVE  OneTouched
<1> USE DEF OneTouched
<1>1. UNCHANGED resting /\ Chain
  BY DEF Others
<1>2. ASSUME NEW o \in OrderIds, NewOrder(o, TakerDir[o], TakerSize[o])
      PROVE  Touches(o)
  <2>1. /\ TakerDir[o] \in Directions /\ TakerSize[o] \in 0..MaxOrder
        /\ TakerSize[o] \in MinOrderSize..MaxOrder
    OBVIOUS
  <2>2. /\ orders' \in [OrderIds -> OrderType] /\ orders[o].status = "Unused"
        /\ orders'[o].status = "Open" /\ \A p \in OrderIds \ {o} : orders'[p] = orders[p]
    BY <1>2, <2>1 DEF NewOrder, Accounts, OrderType
  <2> QED BY <1>1, <2>2 DEF Touches, Accounts
<1>3. ASSUME NEW o \in OrderIds, NEW open \in 0..MaxOrder, NEW gone \in BOOLEAN,
             OthersTake(o, open, gone)
      PROVE  Touches(o)
  <2>1. /\ orders[o] \in OrderType /\ orders[o].status = "Open" /\ open <= orders[o].open
        /\ orders' = [orders EXCEPT ![o] = Reduced(orders[o], open, gone)]
    BY <1>3 DEF OthersTake, Accounts
  <2>2. /\ Reduced(orders[o], open, gone) \in OrderType
        /\ Reduced(orders[o], open, gone).status \in {"Open", "Gone"}
        /\ Reduced(orders[o], open, gone).open <= orders[o].open
    <3>1. orders[o].dir \in Directions /\ orders[o].open \in Nat /\ MaxOrder \in Nat
      BY <2>1 DEF OrderType
    <3> QED BY <2>1, <3>1 DEF Reduced, OrderType
  <2>3. /\ orders' \in [OrderIds -> OrderType]
        /\ orders'[o] = Reduced(orders[o], open, gone)
        /\ \A p \in OrderIds \ {o} : orders'[p] = orders[p]
    BY <2>1, <2>2 DEF Accounts
  <2> QED BY <1>1, <2>1, <2>2, <2>3 DEF Touches, Accounts
<1>4. CASE UNCHANGED orders
  BY <1>1, <1>4
<1> QED
  BY <1>1, <1>2, <1>3, <1>4 DEF Chain, TakerSigns, TakerPlaces, UuidEvicted, OwnTrade

LEMMA EndsTouch ==
    ASSUME Accounts, NEW o \in OrderIds, AuctionEnds(o)
    PROVE  Touches(o)
<1>1. /\ orders[o].status = "Open" /\ resting' = resting \cup {o} /\ orders' = orders
  BY DEF AuctionEnds, Elsewhere
<1> QED BY <1>1 DEF Touches, Accounts

LEMMA EffectTouchesOne ==
    ASSUME Accounts, NEW o \in OrderIds, Effect(o), UNCHANGED resting
    PROVE  OneTouched
<1>1. CASE receipt'.result = "Ok"
  BY <1>1, EffectTouches DEF OneTouched
<1>2. CASE receipt'.result # "Ok"
  BY <1>2 DEF Effect, OneTouched
<1> QED BY <1>1, <1>2

LEMMA LateTouches ==
    ASSUME Accounts, NEW tx \in late, LateLands(tx)
    PROVE  OneTouched /\ UNCHANGED <<signed, botVars>>
<1>1. tx.sig \in Bot!Signatures /\ tx.sig.order \in OrderIds
  BY BotSignatures DEF Accounts
<1>2. Effect(tx.sig.order) /\ UNCHANGED <<resting, botVars>>
  BY <1>1, InstructionEffect DEF LateLands
<1> QED BY <1>1, <1>2, EffectTouchesOne DEF Effect

LEMMA OneTouchedMoves ==
    ASSUME Accounts, OneTouched, UNCHANGED botVars
    PROVE  [Bot!Next]_(Bot!vars)
  BY TouchesMoves, Unseen DEF OneTouched

LEMMA SystemStep ==
    ASSUME Accounts, [SystemNext]_systemVars
    PROVE  [Bot!Next]_(Bot!vars)
<1>1. CASE Others
  BY <1>1, OthersTouch, OneTouchedMoves DEF Others
<1>2. ASSUME NEW o \in OrderIds, AuctionEnds(o)
      PROVE  [Bot!Next]_(Bot!vars)
  BY <1>2, EndsTouch, TouchesMoves DEF AuctionEnds
<1>3. CASE BotAlone
  <2>1. CASE Bot!SendUpdate /\ UNCHANGED tasks
    BY <2>1 DEF Bot!Environment, Bot!Next
  <2> QED BY <1>3, <2>1 DEF BotAlone, Bot!Next
<1>4. ASSUME NEW p \in Params, UpdateParams(p)
      PROVE  [Bot!Next]_(Bot!vars)
  BY <1>4 DEF UpdateParams, Bot!Environment, Bot!Next
<1>5. ASSUME NEW s \in Bot!Signatures, NEW k \in Slots, TryStep(s, k)
      PROVE  [Bot!Next]_(Bot!vars)
  BY <1>5, TryIsStep
<1>6. ASSUME NEW tx \in late, LateLands(tx)
      PROVE  [Bot!Next]_(Bot!vars)
  BY <1>6, LateTouches, OneTouchedMoves
<1>7. ASSUME NEW tx \in late, LateExpires(tx)
      PROVE  [Bot!Next]_(Bot!vars)
  BY <1>7, Unseen DEF LateExpires, Elsewhere
<1>8. CASE UNCHANGED systemVars
  BY <1>8, Unseen DEF systemVars, vars
<1> QED
  BY <1>1, <1>2, <1>3, <1>4, <1>5, <1>6, <1>7, <1>8 DEF SystemNext

(* Whoever acts, the orders change one at a time and stay under their own   *)
(* uuids.                                                                   *)
LEMMA StepKeepsAccounts ==
    ASSUME Accounts, [SystemNext]_systemVars
    PROVE  Accounts'
<1> DEFINE Kept == /\ signed' \in [Uuids -> OrderIds \cup {NoOrder}]
                   /\ \A u \in Uuids : signed'[u] \in {u, NoOrder}
           Late == \A tx \in late' : tx.sig \in Bot!Signatures
<1>1. ASSUME OneTouched, Kept, Late
      PROVE  Accounts'
  <2>1. CASE UNCHANGED <<orders, resting>>
    BY <1>1, <2>1 DEF Accounts
  <2>2. ASSUME NEW o \in OrderIds, Touches(o)
        PROVE  Accounts'
    <3>1. \A p \in resting' : orders'[p].status # "Unused"
      BY <2>2 DEF Touches, Accounts
    <3> QED BY <1>1, <2>2, <3>1 DEF Touches, Accounts
  <2> QED BY <1>1, <2>1, <2>2 DEF OneTouched
<1>2. ASSUME UNCHANGED signed
      PROVE  Kept
  BY <1>2 DEF Accounts
<1>3. ASSUME late' \subseteq late
      PROVE  Late
  BY <1>3 DEF Accounts
<1>4. CASE Others
  <2>1. CASE UNCHANGED signed
    BY <1>1, <1>2, <1>3, <1>4, <2>1, OthersTouch DEF Others
  <2>2. ASSUME NEW u \in Uuids, signed' = [signed EXCEPT ![u] = u] \/ signed' = [signed EXCEPT ![u] = NoOrder]
        PROVE  Kept
    BY <2>2 DEF Accounts
  <2>3. UNCHANGED signed \/ Kept
    BY <1>4, <2>2 DEF Others, Chain, TakerSigns, TakerPlaces, UuidEvicted, OthersTake, OwnTrade
  <2> QED BY <1>1, <1>3, <1>4, <2>1, <2>3, OthersTouch DEF Others
<1>5. ASSUME NEW o \in OrderIds, AuctionEnds(o)
      PROVE  Accounts'
  BY <1>1, <1>2, <1>3, <1>5, EndsTouch DEF OneTouched, AuctionEnds, Elsewhere
<1>6. ASSUME UNCHANGED <<orders, signed, resting, late>>
      PROVE  Accounts'
  BY <1>1, <1>2, <1>3, <1>6 DEF OneTouched
<1>7. CASE BotAlone
  BY <1>6, <1>7 DEF BotAlone, Elsewhere
<1>8. ASSUME NEW p \in Params, UpdateParams(p)
      PROVE  Accounts'
  BY <1>6, <1>8 DEF UpdateParams, Elsewhere
<1>9. ASSUME NEW s \in Bot!Signatures, NEW k \in Slots, TryStep(s, k)
      PROVE  Accounts'
  <2>1. CASE Runs(s, k)
    BY <1>6, <2>1 DEF Runs, Elsewhere
  <2>2. CASE TimesOut(s, k)
    <3>1. UNCHANGED <<orders, signed, resting>> /\ Late
      BY <2>2 DEF TimesOut, Elsewhere, Accounts
    <3> QED BY <1>1, <1>2, <3>1 DEF OneTouched
  <2>3. CASE Executes(s, k)
    <3>1. Effect(s.order) /\ UNCHANGED <<resting, late>> /\ s.order \in OrderIds
      BY <2>3, InstructionEffect, BotSignatures DEF Executes
    <3>2. UNCHANGED signed
      BY <3>1 DEF Effect
    <3> QED BY <1>1, <1>2, <1>3, <3>1, <3>2, EffectTouchesOne
  <2>4. CASE RefusedUnplaced(s, k)
    BY <1>6, <2>4 DEF RefusedUnplaced, Elsewhere
  <2> QED BY <1>9, <2>1, <2>2, <2>3, <2>4 DEF TryStep
<1>10. ASSUME NEW tx \in late, LateLands(tx)
       PROVE  Accounts'
  BY <1>1, <1>2, <1>3, <1>10, LateTouches DEF LateLands
<1>11. ASSUME NEW tx \in late, LateExpires(tx)
       PROVE  Accounts'
  BY <1>1, <1>2, <1>3, <1>11 DEF LateExpires, Elsewhere, OneTouched
<1>12. CASE UNCHANGED systemVars
  BY <1>6, <1>12 DEF systemVars, vars
<1> QED
  BY <1>4, <1>5, <1>7, <1>8, <1>9, <1>10, <1>11, <1>12 DEF SystemNext

LEMMA StartsSeen == SystemInit => Accounts /\ Bot!Init
<1> SUFFICES ASSUME SystemInit PROVE Accounts /\ Bot!Init
  OBVIOUS
<1>1. Accounts
  BY DEF SystemInit, Init, Accounts, OrderType, Directions
<1>2. Seen = [o \in OrderIds |-> [phase |-> "new", dust |-> FALSE]]
  BY DEF SystemInit, Init, Seen
<1>3. spotParams \in [{Market} -> {None}]
  BY DEF SystemInit
<1>4. Bot!Init
  BY <1>2, <1>3 DEF SystemInit, Bot!Init, Bot!BaseInit, Bot!Orders
<1> QED BY <1>1, <1>4

LEMMA AlwaysAccounts == SystemSpec => []Accounts
  BY StartsSeen, StepKeepsAccounts, PTL DEF SystemSpec

(* The jitter with the program behind it is a jitter: every answer the      *)
(* program gives, late or lost, is one JitterShotgun allows, and every      *)
(* change of the accounts is a move of one order.                           *)
THEOREM SystemImplementsShotgun == SystemSpec => ImplementsShotgun
  BY StartsSeen, AlwaysAccounts, SystemStep, PTL DEF SystemSpec, ImplementsShotgun, Bot!Spec

-----------------------------------------------------------------------------
(* What is proved of the jitter holds with the program behind it. *)

Facts == INSTANCE JitterShotgunProofs
         WITH Markets <- {Market}, MarketOf <- [o \in OrderIds |-> Market],
              SpotOrders <- {}, Filtered <- {},
              PerpValues <- Params, SpotValues <- {},
              book <- Seen

(* The constants of the jitter's model satisfy what it assumes of them.     *)
LEMMA JitterConstants == Facts!JitterAssumption /\ Facts!ShotgunAssumption
<1>1. Facts!JitterAssumption
  BY DEF Facts!JitterAssumption, Facts!Orders
<1>2. Facts!ShotgunAssumption
  BY DEF Facts!ShotgunAssumption, Facts!Orders
<1> QED BY <1>1, <1>2

LEMMA SameTries ==
    \A s, k, i : Bot!LoopHead(s, k, i) <=> Facts!LoopHead(s, k, i)
  BY DEF Bot!LoopHead, Facts!LoopHead, Bot!Ends, Facts!Ends, Bot!Forget,
         Facts!Forget, Bot!Becomes, Facts!Becomes, Bot!Idle, Facts!Idle,
         Bot!baseVars, Facts!baseVars

LEMMA SameTrySteps == \A s, k : Bot!TryStep(s, k) <=> Facts!TryStep(s, k)
<1> TAKE s, k
<1>1. Bot!StatsLoaded(s, k) <=> Facts!StatsLoaded(s, k)
  BY SameTries DEF Bot!StatsLoaded, Facts!StatsLoaded
<1>2. Bot!StatsFailed(s, k) <=> Facts!StatsFailed(s, k)
  BY DEF Bot!StatsFailed, Facts!StatsFailed, Bot!Becomes, Facts!Becomes,
         Bot!baseVars, Facts!baseVars
<1>3. \A answer : Bot!Refused(s, k, answer) <=> Facts!Refused(s, k, answer)
  BY DEF Bot!Refused, Facts!Refused, Bot!Refusals, Facts!Refusals,
         Bot!Retried, Facts!Retried, Bot!Final, Facts!Final, Bot!Answered,
         Facts!Answered, Bot!Becomes, Facts!Becomes, Bot!baseVars,
         Facts!baseVars
<1>4. \A after, answer : Bot!Lands(s, k, after, answer) <=> Facts!Lands(s, k, after, answer)
  BY DEF Bot!Lands, Facts!Lands, Bot!Answered, Facts!Answered, Bot!Becomes,
         Facts!Becomes
<1>5. Bot!Resumes(s, k) <=> Facts!Resumes(s, k)
  BY SameTries DEF Bot!Resumes, Facts!Resumes, Bot!Retries, Facts!Retries,
         Bot!Retried, Facts!Retried, Bot!Becomes, Facts!Becomes, Bot!baseVars,
         Facts!baseVars
<1>6. Bot!Wakes(s, k) <=> Facts!Wakes(s, k)
  BY DEF Bot!Wakes, Facts!Wakes, Bot!Ends, Facts!Ends, Bot!Forget,
         Facts!Forget, Bot!Becomes, Facts!Becomes, Bot!Idle, Facts!Idle
<1>7. Bot!Answers = Facts!Answers /\ Bot!Outcomes(s.order) = Facts!Outcomes(s.order)
  BY DEF Bot!Answers, Facts!Answers, Bot!Retried, Facts!Retried, Bot!Final,
         Facts!Final, Bot!Outcomes, Facts!Outcomes
<1> QED
  BY <1>1, <1>2, <1>3, <1>4, <1>5, <1>6, <1>7 DEF Bot!TryStep, Facts!TryStep,
         Bot!Executed, Facts!Executed

LEMMA SameHandlers ==
    /\ Bot!OnAccountUpdate <=> Facts!OnAccountUpdate
    /\ \A o, small : Bot!OnSwiftOrder(o, small) <=> Facts!OnSwiftOrder(o, small)
  BY DEF Bot!OnAccountUpdate, Facts!OnAccountUpdate, Bot!OnSwiftOrder,
         Facts!OnSwiftOrder, Bot!AccountHandled, Facts!AccountHandled,
         Bot!SwiftHandled, Facts!SwiftHandled, Bot!SwiftStarts,
         Facts!SwiftStarts, Bot!Begin, Facts!Begin, Bot!FreeSlot,
         Facts!FreeSlot, Bot!Started, Facts!Started, Bot!Noted, Facts!Noted,
         Bot!Reached, Facts!Reached, Bot!Returns, Facts!Returns, Bot!Tryable,
         Facts!Tryable, Bot!Fresh, Facts!Fresh, Bot!Considered,
         Facts!Considered, Bot!Listened, Facts!Listened, Bot!Chain,
         Facts!Chain, Bot!Swift, Facts!Swift, Bot!Idle, Facts!Idle,
         Bot!Signatures, Facts!Signatures, Bot!Orders, Facts!Orders

LEMMA SameEnvironment == Bot!Environment <=> Facts!Environment
  BY DEF Bot!Environment, Facts!Environment, Bot!OrderMoves, Facts!OrderMoves,
         Bot!SendUpdate, Facts!SendUpdate, Bot!UpdatePerpParams,
         Facts!UpdatePerpParams, Bot!UpdateSpotParams, Facts!UpdateSpotParams,
         Bot!Orders, Facts!Orders, Bot!Phases, Facts!Phases

LEMMA SystemRunsShotgun == SystemSpec => Facts!Spec
<1>1. Bot!Init => Facts!Init
  BY DEF Bot!Init, Facts!Init, Bot!BaseInit, Facts!BaseInit, Bot!Orders,
         Facts!Orders, Bot!Signatures, Facts!Signatures, Bot!Idle, Facts!Idle
<1>2. [Bot!Next]_(Bot!vars) => [Facts!Next]_(Facts!vars)
  BY SameEnvironment, SameHandlers, SameTrySteps
     DEF Bot!Next, Facts!Next, Bot!vars, Facts!vars, Bot!baseVars,
            Facts!baseVars, Bot!Signatures, Facts!Signatures, Bot!Orders,
            Facts!Orders
<1> QED
  BY <1>1, <1>2, SystemImplementsShotgun, PTL
     DEF ImplementsShotgun, Bot!Spec, Facts!Spec

(* With the program's answers, too, an order whose swift message is left to *)
(* the swift subscriber is not tried under both of its names at once.       *)
THEOREM SystemTriesOncePerOrder == SystemSpec => []OneTryPerOrder
<1>1. Facts!Spec => []Facts!OneTryPerOrder
  BY JitterConstants, Facts!TriesAreAlonePerOrder
<1>2. Facts!OneTryPerOrder => OneTryPerOrder
  BY DEF OneTryPerOrder, Bot!OneTryPerOrder, Facts!OneTryPerOrder,
         Bot!Running, Facts!Running, Bot!Chain, Facts!Chain, Bot!Swift,
         Facts!Swift
<1> QED BY <1>1, <1>2, SystemRunsShotgun, PTL

-----------------------------------------------------------------------------
(* The old parameters run out. *)

(* The calls under way, and the late transactions, with parameters that the *)
(* maker has changed since.                                                 *)
OldCalls == {t \in Bot!Signatures \X Slots :
               /\ tasks[t[1]][t[2]].pc = "sending"
               /\ tasks[t[1]][t[2]].params # perpParams[Market]}
OldLate  == {tx \in late : tx.params # perpParams[Market]}

(* Each of them can still fill once, and no other transaction can fill with *)
(* old parameters.                                                          *)
RunningOut ==
    /\ IsFiniteSet(late) /\ outdated \in Nat /\ outstanding \in Nat
    /\ outdated + Cardinality(OldCalls) + Cardinality(OldLate) <= outstanding

TasksShape == tasks \in [Bot!Signatures -> [Slots -> Bot!Task]]

LEMMA AlwaysTasksShape == SystemSpec => []TasksShape
<1>1. Facts!Spec => []Facts!TypeOK
  BY JitterConstants, Facts!ShotgunTypeCorrect
<1>2. Facts!TypeOK => TasksShape
  BY DEF Facts!TypeOK, TasksShape, Facts!Task, Bot!Task, Facts!Answers,
         Bot!Answers, Facts!Retried, Bot!Retried, Facts!Final, Bot!Final,
         Facts!Signatures, Bot!Signatures, Facts!Orders, Bot!Orders
<1> QED BY <1>1, <1>2, SystemRunsShotgun, PTL

(* There are finitely many tries.                                           *)
LEMMA FiniteTries == IsFiniteSet(Bot!Signatures \X Slots)
<1> DEFINE names == {"chain", "swift"} \X OrderIds
           name  == [s \in Bot!Signatures |-> <<s.via, s.order>>]
<1>1. IsFiniteSet(OrderIds) /\ IsFiniteSet(Slots)
  <2>1. /\ OrderCount \in Int /\ 1 \in Int /\ 2 \in Int
        /\ OrderIds = 1..OrderCount /\ Slots = 1..2
    OBVIOUS
  <2>2. IsFiniteSet(1..OrderCount) /\ IsFiniteSet(1..2)
    BY ONLY <2>1, FS_Interval
  <2> QED BY <2>1, <2>2
<1>2. IsFiniteSet({"chain", "swift"})
  <2>1. {"chain", "swift"} = {"chain"} \cup {"swift"}
    OBVIOUS
  <2>2. IsFiniteSet({"chain"})
    BY FS_Singleton
  <2>3. IsFiniteSet({"chain"} \cup {"swift"})
    BY <2>2, FS_AddElement
  <2> QED BY <2>1, <2>3
<1>3. IsFiniteSet(names)
  BY <1>1, <1>2, FS_Product
<1>4. name \in Injection(Bot!Signatures, names)
  <2>1. name \in [Bot!Signatures -> names]
    BY DEF Bot!Signatures, Bot!Orders
  <2>2. \A s, t \in Bot!Signatures : name[s] = name[t] => s = t
    BY DEF Bot!Signatures, Bot!Orders
  <2> HIDE DEF name, names
  <2> QED BY <2>1, <2>2 DEF Injection, IsInjective
<1>5. IsFiniteSet(Bot!Signatures)
  BY <1>3, <1>4, FS_Injection
<1> QED BY <1>1, <1>5, FS_Product

LEMMA FiniteCalls ==
    /\ IsFiniteSet(OldCalls) /\ IsFiniteSet(OldCalls') /\ IsFiniteSet(Sending)
    /\ Cardinality(OldCalls) \in Nat /\ Cardinality(OldCalls') \in Nat
    /\ Cardinality(Sending) \in Nat
<1>1. /\ OldCalls \subseteq Bot!Signatures \X Slots
      /\ OldCalls' \subseteq Bot!Signatures \X Slots
      /\ Sending \subseteq Bot!Signatures \X Slots
  BY DEF OldCalls, Sending
<1>2. IsFiniteSet(OldCalls) /\ IsFiniteSet(OldCalls') /\ IsFiniteSet(Sending)
  BY <1>1, FiniteTries, FS_Subset
<1> QED BY <1>2, FS_CardinalityType

LEMMA FiniteLate ==
    /\ IsFiniteSet(late) => IsFiniteSet(OldLate) /\ Cardinality(OldLate) \in Nat
    /\ IsFiniteSet(late') => IsFiniteSet(OldLate') /\ Cardinality(OldLate') \in Nat
<1>1. OldLate \subseteq late /\ OldLate' \subseteq late'
  BY DEF OldLate
<1> QED BY <1>1, FS_Subset, FS_CardinalityType

LEMMA OneMore ==
    ASSUME NEW S, NEW x, IsFiniteSet(S)
    PROVE  /\ IsFiniteSet(S \cup {x})
           /\ Cardinality(S \cup {x}) <= Cardinality(S) + 1
<1>1. Cardinality(S) \in Nat
  BY FS_CardinalityType
<1>2. /\ IsFiniteSet(S \cup {x})
      /\ Cardinality(S \cup {x}) = IF x \in S THEN Cardinality(S) ELSE Cardinality(S) + 1
  BY FS_AddElement
<1> QED BY <1>1, <1>2

LEMMA OneLess ==
    ASSUME NEW S, NEW x, IsFiniteSet(S)
    PROVE  /\ IsFiniteSet(S \ {x})
           /\ Cardinality(S \ {x}) = Cardinality(S) - (IF x \in S THEN 1 ELSE 0)
<1>1. Cardinality(S) \in Nat
  BY FS_CardinalityType
<1>2. /\ IsFiniteSet(S \ {x})
      /\ Cardinality(S \ {x}) = IF x \in S THEN Cardinality(S) - 1 ELSE Cardinality(S)
  BY FS_RemoveElement
<1> QED BY <1>1, <1>2

LEMMA BecomesAt ==
    ASSUME TasksShape, NEW s \in Bot!Signatures, NEW k \in Slots, NEW task,
           Bot!Becomes(s, k, task)
    PROVE  \A t \in Bot!Signatures, j \in Slots :
              tasks'[t][j] = IF t = s /\ j = k THEN task ELSE tasks[t][j]
  BY DEF TasksShape, Bot!Becomes

(* What is called with old parameters has been called before.               *)
LEMMA QuietStep ==
    ASSUME RunningOut, IsFiniteSet(late'), OldCalls' \subseteq OldCalls,
           OldLate' \subseteq OldLate, UNCHANGED history
    PROVE  RunningOut'
<1>1. /\ Cardinality(OldCalls') <= Cardinality(OldCalls)
      /\ Cardinality(OldLate') <= Cardinality(OldLate)
  BY FiniteCalls, FiniteLate, FS_Subset DEF RunningOut
<1> HIDE DEF OldCalls, OldLate
<1> QED BY <1>1, FiniteCalls, FiniteLate DEF RunningOut, history

LEMMA Sums ==
    ASSUME NEW fills \in Nat, NEW calls \in Nat, NEW lates \in Nat, NEW bound \in Nat,
           NEW fills1 \in Nat, NEW calls1 \in Nat, NEW lates1 \in Nat, NEW n \in Nat,
           fills + calls + lates <= bound, fills1 <= fills + n,
           calls1 + lates1 <= calls + lates - n
    PROVE  fills1 + calls1 + lates1 <= bound
  OBVIOUS

(* A fill with old parameters uses up one of the transactions that had them.*)
LEMMA FillStep ==
    ASSUME RunningOut, IsFiniteSet(late'), NEW n \in Nat,
           outdated' \in Nat, outdated' <= outdated + n, UNCHANGED outstanding,
           Cardinality(OldCalls') + Cardinality(OldLate')
              <= Cardinality(OldCalls) + Cardinality(OldLate) - n
    PROVE  RunningOut'
<1> DEFINE calls  == Cardinality(OldCalls)
           lates  == Cardinality(OldLate)
           calls1 == Cardinality(OldCalls')
           lates1 == Cardinality(OldLate')
<1>1. /\ calls \in Nat /\ lates \in Nat /\ calls1 \in Nat /\ lates1 \in Nat
      /\ outdated \in Nat /\ outstanding \in Nat
  BY FiniteCalls, FiniteLate DEF RunningOut
<1>2. outdated + calls + lates <= outstanding
  BY DEF RunningOut
<1>3. calls1 + lates1 <= calls + lates - n
  OBVIOUS
<1>4. outdated' + calls1 + lates1 <= outstanding
  <2> HIDE DEF calls, lates, calls1, lates1
  <2> QED BY <1>1, <1>2, <1>3, Sums
<1>5. outstanding' = outstanding
  OBVIOUS
<1> HIDE DEF OldCalls, OldLate
<1> QED BY <1>1, <1>4, <1>5 DEF RunningOut

LEMMA StartsAreQuiet ==
    ASSUME TasksShape, NEW sigs, Bot!Begin(sigs), UNCHANGED perpParams
    PROVE  OldCalls' \subseteq OldCalls
<1>1. \A s \in Bot!Signatures, k \in Slots :
         tasks'[s][k].pc = "sending" => tasks'[s][k] = tasks[s][k]
  BY DEF TasksShape, Bot!Begin, Bot!Idle, Bot!FreeSlot
<1> QED BY <1>1 DEF OldCalls

LEMMA RunsAreQuiet ==
    ASSUME TasksShape, NEW s \in Bot!Signatures, NEW k \in Slots, Runs(s, k)
    PROVE  OldCalls' \subseteq OldCalls /\ UNCHANGED perpParams
<1>1. ASSUME NEW task, Bot!Becomes(s, k, task), UNCHANGED perpParams,
             task.pc = "sending" => task.params = perpParams[Market]
      PROVE  OldCalls' \subseteq OldCalls
  BY <1>1, BecomesAt DEF OldCalls
<1>2. ASSUME Bot!Ends(s, k)
      PROVE  OldCalls' \subseteq OldCalls /\ UNCHANGED perpParams
  BY <1>1, <1>2 DEF Bot!Ends, Bot!Idle
<1>3. tasks[s][k] \in Bot!Task
  BY DEF TasksShape
<1>4. ASSUME NEW i, Bot!LoopHead(s, k, i)
      PROVE  OldCalls' \subseteq OldCalls /\ UNCHANGED perpParams
  <2> DEFINE params == perpParams[Market]
             late1  == IF Seen[s.order].phase = "closed" THEN 1 ELSE 0
             task   == [tasks[s][k] EXCEPT !.pc = "sending", !.i = i, !.params = params,
                                           !.answer = "None", !.late = @ + late1]
  <2>1. Bot!Ends(s, k) \/ (Bot!Becomes(s, k, task) /\ UNCHANGED perpParams)
    BY <1>4, BotSignatures DEF Bot!LoopHead, Bot!baseVars
  <2>2. task.params = perpParams[Market]
    BY <1>3 DEF Bot!Task
  <2> HIDE DEF task
  <2> QED BY <1>1, <1>2, <2>1, <2>2
<1>5. CASE Bot!StatsFailed(s, k)
  <2> DEFINE task == [tasks[s][k] EXCEPT !.pc = "rejected"]
  <2>1. Bot!Becomes(s, k, task) /\ UNCHANGED perpParams
    BY <1>5 DEF Bot!StatsFailed, Bot!baseVars
  <2>2. task.pc = "rejected"
    BY <1>3 DEF Bot!Task
  <2> HIDE DEF task
  <2> QED BY <1>1, <2>1, <2>2
<1>6. CASE Bot!Resumes(s, k)
  <2> DEFINE task == [tasks[s][k] EXCEPT !.pc = "cooldown"]
  <2>1. Bot!LoopHead(s, k, tasks[s][k].i + 1)
           \/ (Bot!Becomes(s, k, task) /\ UNCHANGED perpParams)
    BY <1>6 DEF Bot!Resumes, Bot!baseVars
  <2>2. task.pc = "cooldown"
    BY <1>3 DEF Bot!Task
  <2> HIDE DEF task
  <2> QED BY <1>1, <1>4, <2>1, <2>2
<1> QED BY <1>2, <1>4, <1>5, <1>6 DEF Runs, Bot!StatsLoaded, Bot!Wakes

(* A call that was answered is no longer one of the old.                    *)
LEMMA AnsweredLeaves ==
    ASSUME TasksShape, NEW s \in Bot!Signatures, NEW k \in Slots, NEW answer, NEW landed,
           tasks[s][k].pc = "sending", Bot!Answered(s, k, answer, landed), UNCHANGED perpParams
    PROVE  LET old == tasks[s][k].params # perpParams[Market] IN
           /\ Cardinality(OldCalls') <= Cardinality(OldCalls) - (IF old THEN 1 ELSE 0)
<1> DEFINE call == <<s, k>>
           task == [tasks[s][k] EXCEPT !.pc = "answered", !.answer = answer,
                                       !.landed = @ + landed]
<1>1. tasks[s][k] \in Bot!Task /\ Bot!Becomes(s, k, task)
  BY DEF TasksShape, Bot!Answered
<1>2. task.pc = "answered"
  BY <1>1 DEF Bot!Task
<1>3. OldCalls' \subseteq OldCalls \ {call}
  <2> HIDE DEF task
  <2> QED BY <1>1, <1>2, BecomesAt DEF OldCalls
<1>4. call \in OldCalls <=> tasks[s][k].params # perpParams[Market]
  BY DEF OldCalls
<1>5. /\ IsFiniteSet(OldCalls \ {call})
      /\ Cardinality(OldCalls \ {call}) =
            IF call \in OldCalls THEN Cardinality(OldCalls) - 1 ELSE Cardinality(OldCalls)
  BY FiniteCalls, FS_RemoveElement
<1>6. Cardinality(OldCalls') <= Cardinality(OldCalls \ {call})
  BY <1>3, <1>5, FS_Subset
<1> HIDE DEF OldCalls, call
<1> QED BY <1>4, <1>5, <1>6, FiniteCalls

LEMMA StepRunsOut ==
    ASSUME TasksShape, Accounts, RunningOut, [SystemNext]_systemVars
    PROVE  RunningOut'
<1>1. ASSUME UNCHANGED <<perpParams, history>>, OldCalls' \subseteq OldCalls, late' \subseteq late
      PROVE  RunningOut'
  <2>1. IsFiniteSet(late')
    BY <1>1, FS_Subset DEF RunningOut
  <2>2. OldLate' \subseteq OldLate
    BY <1>1 DEF OldLate
  <2> QED BY <1>1, <2>1, <2>2, QuietStep
<1>2. ASSUME UNCHANGED <<perpParams, tasks>>
      PROVE  OldCalls' = OldCalls
  BY <1>2 DEF OldCalls
<1>3. CASE Others
  BY <1>1, <1>2, <1>3 DEF Others, botVars
<1>4. ASSUME NEW o \in OrderIds, AuctionEnds(o)
      PROVE  RunningOut'
  BY <1>1, <1>2, <1>4 DEF AuctionEnds, botVars
<1>5. CASE BotAlone
  <2>1. UNCHANGED <<perpParams, history, late>>
    BY <1>5 DEF BotAlone, Bot!SendUpdate, Bot!OnAccountUpdate, Bot!AccountHandled,
                Bot!OnSwiftOrder, Bot!SwiftHandled
  <2>2. OldCalls' \subseteq OldCalls
    BY <1>2, <1>5, <2>1, StartsAreQuiet DEF BotAlone, Bot!OnAccountUpdate, Bot!OnSwiftOrder
  <2> QED BY <1>1, <2>1, <2>2
<1>6. ASSUME NEW p \in Params, UpdateParams(p)
      PROVE  RunningOut'
  <2>1. /\ UNCHANGED <<late, tasks>> /\ outdated' = 0
        /\ outstanding' = Cardinality(Sending) + Cardinality(late)
    BY <1>6 DEF UpdateParams
  <2>2. OldCalls' \subseteq Sending /\ OldLate' \subseteq late /\ IsFiniteSet(late)
    BY <2>1 DEF OldCalls, OldLate, Sending, RunningOut
  <2>3. /\ Cardinality(OldCalls') <= Cardinality(Sending)
        /\ Cardinality(OldLate') <= Cardinality(late) /\ Cardinality(late) \in Nat
    BY <2>2, FiniteCalls, FS_Subset, FS_CardinalityType
  <2> HIDE DEF OldCalls, OldLate, Sending
  <2> QED BY <2>1, <2>2, <2>3, FiniteCalls, FiniteLate DEF RunningOut
<1>7. ASSUME NEW s \in Bot!Signatures, NEW k \in Slots, TryStep(s, k)
      PROVE  RunningOut'
  <2> DEFINE p   == tasks[s][k].params
             old == p # perpParams[Market]
             one == IF old THEN 1 ELSE 0
  <2>1. CASE Runs(s, k)
    BY <1>1, <2>1, RunsAreQuiet DEF Runs
  <2>2. CASE TimesOut(s, k)
    <3>1. UNCHANGED <<perpParams, history>>
      BY <2>2 DEF TimesOut
    <3>7. PICK n : late' = late \/ late' = late \cup
                                  {[sig |-> s, params |-> p, id |-> n]}
      BY <2>2 DEF TimesOut
    <3> DEFINE tx == [sig |-> s, params |-> p, id |-> n]
    <3>2. Cardinality(OldCalls') <= Cardinality(OldCalls) - one
      BY <2>2, <3>1, AnsweredLeaves DEF TimesOut
    <3>3. late' = late \/ late' = late \cup {tx}
      BY <3>7
    <3>4. IsFiniteSet(late')
      <4>1. IsFiniteSet(late)
        BY DEF RunningOut
      <4>2. IsFiniteSet(late \cup {tx})
        BY <4>1, OneMore, Zenon
      <4> QED BY <3>3, <4>1, <4>2, Zenon
    <3>5. OldLate' \subseteq IF old THEN OldLate \cup {tx} ELSE OldLate
      BY <3>1, <3>3 DEF OldLate
    <3>6. Cardinality(OldLate') <= Cardinality(OldLate) + one
      <4>1. IsFiniteSet(OldLate) /\ IsFiniteSet(OldLate \cup {tx})
        <5>1. IsFiniteSet(OldLate)
          BY FiniteLate DEF RunningOut
        <5> QED BY <5>1, OneMore, Zenon
      <4>2. /\ Cardinality(OldLate) \in Nat
            /\ Cardinality(OldLate \cup {tx}) <= Cardinality(OldLate) + 1
        <5>1. Cardinality(OldLate) \in Nat
          BY FiniteLate DEF RunningOut
        <5> QED BY <4>1, <5>1, OneMore, Zenon
      <4>3. Cardinality(OldLate') <= Cardinality(IF old THEN OldLate \cup {tx} ELSE OldLate)
        BY <3>5, <4>1, FS_Subset
      <4>4. Cardinality(OldLate') \in Nat
        BY <3>4, FiniteLate
      <4> DEFINE more == OldLate \cup {tx}
                 were == Cardinality(OldLate)
                 are  == Cardinality(OldLate')
      <4>5. were \in Nat /\ are \in Nat /\ Cardinality(more) <= were + 1
        BY <4>2, <4>4
      <4>6. are <= Cardinality(IF old THEN more ELSE OldLate)
        BY <4>3
      <4>7. CASE old
        <5>1. are <= Cardinality(more) /\ one = 1 /\ Cardinality(more) \in Nat
          BY <4>1, <4>6, <4>7, FS_CardinalityType
        <5> HIDE DEF were, are, more
        <5> QED BY <4>5, <5>1 DEF were, are
      <4>8. CASE ~old
        <5>1. are <= were /\ one = 0
          BY <4>6, <4>8
        <5> HIDE DEF were, are
        <5> QED BY <4>5, <5>1 DEF were, are
      <4> QED BY <4>7, <4>8
    <3> HIDE DEF OldCalls, OldLate, old
    <3> QED BY <3>1, <3>2, <3>4, <3>6, FiniteCalls, FiniteLate DEF RunningOut, history
  <2>3. CASE Executes(s, k)
    <3>1. UNCHANGED <<perpParams, late, outstanding>>
      BY <2>3 DEF Executes, CountsFill
    <3>2. Cardinality(OldCalls') <= Cardinality(OldCalls) - one
      BY <2>3, <3>1, AnsweredLeaves DEF Executes
    <3>3. outdated' \in {outdated, outdated + one}
      BY <2>3, <3>1 DEF Executes, CountsFill, RunningOut
    <3>4. OldLate' = OldLate
      BY <3>1 DEF OldLate
    <3>5. Cardinality(OldLate') = Cardinality(OldLate)
      BY <3>4, Zenon
    <3>6. one \in Nat /\ outdated' \in Nat /\ outdated' <= outdated + one
      BY <3>3 DEF RunningOut
    <3>7. IsFiniteSet(late')
      BY <3>1 DEF RunningOut
    <3> HIDE DEF OldCalls, OldLate, one
    <3>8. /\ Cardinality(OldCalls) \in Nat /\ Cardinality(OldCalls') \in Nat
          /\ Cardinality(OldLate) \in Nat
      BY FiniteCalls, FiniteLate DEF RunningOut
    <3>9. Cardinality(OldCalls') + Cardinality(OldLate')
             <= Cardinality(OldCalls) + Cardinality(OldLate) - one
      BY <3>2, <3>5, <3>6, <3>8
    <3> QED BY <3>1, <3>6, <3>7, <3>9, FillStep
  <2>4. CASE RefusedUnplaced(s, k)
    <3>1. UNCHANGED <<perpParams, late, history>>
      BY <2>4 DEF RefusedUnplaced
    <3>2. Cardinality(OldCalls') <= Cardinality(OldCalls) - one
      BY <2>4, <3>1, AnsweredLeaves DEF RefusedUnplaced
    <3>3. OldLate' = OldLate
      BY <3>1 DEF OldLate
    <3> HIDE DEF OldCalls, OldLate, old
    <3> QED BY <3>1, <3>2, <3>3, FiniteCalls, FiniteLate DEF RunningOut, history
  <2> QED BY <1>7, <2>1, <2>2, <2>3, <2>4 DEF TryStep
<1>8. ASSUME NEW tx \in late, LateLands(tx)
      PROVE  RunningOut'
  <2> DEFINE old == tx.params # perpParams[Market]
             one == IF old THEN 1 ELSE 0
  <2>1. /\ UNCHANGED <<perpParams, tasks, outstanding>> /\ late' = late \ {tx}
        /\ outdated' \in {outdated, outdated + one}
    BY <1>8 DEF LateLands, botVars, CountsFill, RunningOut
  <2>2. Cardinality(OldCalls') = Cardinality(OldCalls)
    <3>1. OldCalls' = OldCalls
      BY <1>2, <2>1
    <3> QED BY <3>1, Zenon
  <2>3. OldLate' = OldLate \ {tx} /\ (tx \in OldLate <=> old)
    BY <2>1 DEF OldLate
  <2>4. IsFiniteSet(late')
    BY <2>1, FS_RemoveElement DEF RunningOut
  <2>5. Cardinality(OldLate') = Cardinality(OldLate) - one
    <3>1. IsFiniteSet(OldLate) /\ Cardinality(OldLate) \in Nat
      BY FiniteLate DEF RunningOut
    <3>2. Cardinality(OldLate \ {tx}) = Cardinality(OldLate) - (IF tx \in OldLate THEN 1 ELSE 0)
      BY <3>1, OneLess, Zenon
    <3>3. OldLate' = OldLate \ {tx}
      BY <2>3
    <3>4. Cardinality(OldLate') = Cardinality(OldLate) - (IF tx \in OldLate THEN 1 ELSE 0)
      BY <3>2, <3>3, Zenon
    <3> HIDE DEF OldLate, old
    <3> QED BY <2>3, <3>4
  <2>6. one \in Nat /\ outdated' \in Nat /\ outdated' <= outdated + one
    BY <2>1 DEF RunningOut
  <2> HIDE DEF OldCalls, OldLate, one
  <2>7. Cardinality(OldCalls) \in Nat /\ Cardinality(OldLate) \in Nat
    BY FiniteCalls, FiniteLate DEF RunningOut
  <2>8. Cardinality(OldCalls') + Cardinality(OldLate')
           <= Cardinality(OldCalls) + Cardinality(OldLate) - one
    BY <2>2, <2>5, <2>6, <2>7
  <2> QED BY <2>1, <2>4, <2>6, <2>8, FillStep
<1>9. ASSUME NEW tx \in late, LateExpires(tx)
      PROVE  RunningOut'
  BY <1>1, <1>2, <1>9 DEF LateExpires, botVars
<1>10. CASE UNCHANGED systemVars
  BY <1>1, <1>2, <1>10 DEF systemVars, botVars
<1> QED
  BY <1>3, <1>4, <1>5, <1>6, <1>7, <1>8, <1>9, <1>10 DEF SystemNext

LEMMA StartsRunningOut == SystemInit => RunningOut
<1> SUFFICES ASSUME SystemInit PROVE RunningOut
  OBVIOUS
<1>1. late = {} /\ outdated = 0 /\ outstanding = 0
  BY DEF SystemInit
<1>2. OldCalls = {}
  BY DEF SystemInit, OldCalls, Bot!Idle
<1>3. OldLate = {}
  BY <1>1 DEF OldLate
<1> QED BY <1>1, <1>2, <1>3, FS_EmptySet DEF RunningOut

(* However calls, changes of the parameters, timeouts and late transactions *)
(* interleave: since the last change, the program has filled with other     *)
(* parameters than the maker's at most as often as transactions were under  *)
(* way then.                                                                *)
THEOREM OldParamsDoRunOut == SystemSpec => []OldParamsRunOut
<1>1. RunningOut => OldParamsRunOut
  <2> SUFFICES ASSUME RunningOut PROVE OldParamsRunOut
    OBVIOUS
  <2> HIDE DEF OldCalls, OldLate
  <2> QED BY FiniteCalls, FiniteLate DEF RunningOut, OldParamsRunOut
<1>2. TasksShape /\ Accounts /\ RunningOut /\ [SystemNext]_systemVars => RunningOut'
  BY StepRunsOut
<1> QED
  BY <1>1, <1>2, StartsRunningOut, AlwaysTasksShape, AlwaysAccounts, PTL DEF SystemSpec
=============================================================================
