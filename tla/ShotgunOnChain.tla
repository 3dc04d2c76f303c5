--------------------------- MODULE ShotgunOnChain ---------------------------
(***************************************************************************)
(* JitterShotgun and the program it calls, together.  JitterShotgun alone  *)
(* takes any answer to a call; here the answer is what the instruction of  *)
(* JitProxy returns for the parameters of the call and the accounts at the *)
(* moment the transaction is executed, which may be after the parameters   *)
(* were changed and after the call was given up as timed out.              *)
(*                                                                         *)
(* The orders of JitProxy are the ones the jitter is told of: what it sees *)
(* of them is Seen, and the whole implements JitterShotgun.                *)
(***************************************************************************)
EXTENDS JitProxy, FiniteSets

CONSTANTS
    OrderCount, Market, SwiftOrders, IgnoreSwift, None, Duration, Slots,
    TakerDir,       \* order -> its direction
    TakerSize,      \* order -> its amount
    Unconfirmed     \* bound: transactions whose calls have timed out

ASSUME SystemAssumption ==
    /\ MarketKind = "Perp"
    /\ OrderCount \in Nat \ {0} /\ OrderIds = 1..OrderCount
    /\ SwiftOrders \subseteq OrderIds /\ Uuids = SwiftOrders
    /\ IgnoreSwift \in BOOLEAN /\ None \notin Params
    /\ Duration \in [OrderIds -> Nat] /\ Slots = 1..2
    /\ TakerDir \in [OrderIds -> Directions]
    /\ TakerSize \in [OrderIds -> MinOrderSize..MaxOrder]
    /\ Unconfirmed \in Nat

VARIABLES
    resting,        \* the orders whose auction is over
    update, perpParams, spotParams, seenOrders, onGoingAuctions, passedOver,
    tasks,          \* the jitter's state, as in JitterShotgun
    late,           \* transactions that were given up and may still land:
                    \* [sig, params, id], two of one call's kind differ in id
    outstanding,    \* calls and late transactions at the last change of the
                    \* parameters
    outdated        \* fills with other parameters than the jitter's, since

botVars    == <<update, perpParams, spotParams, seenOrders, onGoingAuctions,
                passedOver, tasks>>
history    == <<outstanding, outdated>>
systemVars == <<vars, resting, botVars, late, history>>

(* What the jitter sees of the taker's orders.                              *)
Seen == [o \in OrderIds |->
            [phase |-> CASE orders[o].status = "Unused" -> "new"
                         [] orders[o].status = "Gone"   -> "closed"
                         [] OTHER -> IF o \in resting THEN "rests" ELSE "auction",
             dust  |-> orders[o].status # "Unused" /\ orders[o].open <= MinOrderSize]]

Bot == INSTANCE JitterShotgun
       WITH Markets <- {Market}, MarketOf <- [o \in OrderIds |-> Market],
            SpotOrders <- {}, Filtered <- {},
            PerpValues <- Params, SpotValues <- {},
            book <- Seen

SystemInit ==
    /\ Init
    /\ resting = {}
    /\ update = None
    /\ perpParams \in [{Market} -> Params \cup {None}]
    /\ spotParams = [m \in {Market} |-> None]
    /\ seenOrders = {} /\ onGoingAuctions = {}
    /\ passedOver = [o \in OrderIds |-> 0]
    /\ tasks = [s \in Bot!Signatures |-> [k \in Slots |-> Bot!Idle]]
    /\ late = {}
    /\ outstanding = 0 /\ outdated = 0

-----------------------------------------------------------------------------
(* The taker and the rest of the market. *)

Chain ==
    \/ \E o \in OrderIds :
          IF o \in SwiftOrders THEN TakerSigns(o, o, TakerDir[o], TakerSize[o])
                               ELSE TakerPlaces(o, TakerDir[o], TakerSize[o])
    \/ \E u \in Uuids : UuidEvicted(u)
    \/ \E o \in OrderIds, open \in 0..MaxOrder, gone \in BOOLEAN :
          OthersTake(o, open, gone)
    \/ \E n \in OwnTrades : OwnTrade(n)

Others == Chain /\ UNCHANGED <<resting, botVars, late, history>>

AuctionEnds(o) ==
    /\ orders[o].status = "Open"
    /\ resting' = resting \cup {o}
    /\ Elsewhere
    /\ UNCHANGED <<botVars, late, history>>

-----------------------------------------------------------------------------
(* The jitter on its own.  A signed order is at least of the minimum size:  *)
(* Drift would not place it otherwise.                                      *)

BotAlone ==
    /\ Elsewhere
    /\ UNCHANGED <<resting, late, history>>
    /\ \/ Bot!SendUpdate /\ UNCHANGED tasks
       \/ Bot!OnAccountUpdate
       \/ \E o \in SwiftOrders : Bot!OnSwiftOrder(o, FALSE)

Sending == {t \in Bot!Signatures \X Slots : tasks[t[1]][t[2]].pc = "sending"}

(* The maker changes its parameters while calls are under way.              *)
UpdateParams(value) ==
    /\ Elsewhere
    /\ UNCHANGED <<resting, late, tasks>>
    /\ Bot!UpdatePerpParams(Market, value)
    /\ outstanding' = Cardinality(Sending) + Cardinality(late)
    /\ outdated' = 0

-----------------------------------------------------------------------------
(* Transactions. *)

(* jit for an order id, jit_signed_msg for a uuid.                          *)
Instruction(s, p, q) ==
    IF s.via = "chain" THEN Jit(s.order, p, q) ELSE JitSignedMsg(s.order, p, q)

(* What the jitter makes of the result: 0x1770, 0x1771 and 0x1779 are tried *)
(* again, 0x1772 and all others are final (those of loading the accounts    *)
(* too).  Drift's own codes start at 0x1770 as well, so an error of Drift's *)
(* can pass for any of these.                                               *)
AnswersTo(result) ==
    CASE result = "Ok" -> {"Sent"}
      [] result \in {"BidNotCrossed", "AskNotCrossed", "NoFill",
                     "TakerOrderNotFound"} -> {result}
      [] result = "DriftError" -> Bot!Retried \cup Bot!Final
      [] OTHER -> {"PositionLimitBreached"}

CountsFill(p) ==
    /\ outdated' = IF receipt'.result = "Ok" /\ p # perpParams[Market]
                   THEN outdated + 1 ELSE outdated
    /\ UNCHANGED outstanding

(* The transaction of a call is executed; the answer may get lost.          *)
Executes(s, k) ==
    /\ tasks[s][k].pc = "sending"
    /\ orders[s.order].status # "Unused"
    /\ \E q \in Quotes : Instruction(s, tasks[s][k].params, q)
    /\ \E answer \in AnswersTo(receipt'.result) \cup {"Timeout"} :
          Bot!Answered(s, k, answer, IF receipt'.result = "Ok" THEN 1 ELSE 0)
    /\ CountsFill(tasks[s][k].params)
    /\ UNCHANGED <<resting, late, update, perpParams, spotParams, seenOrders,
                   onGoingAuctions, passedOver>>

(* A transaction for a swift order that is not on chain yet places it too,  *)
(* so when the fill is refused nothing is placed.  (When it is not, it is   *)
(* TakerSigns and Executes.)                                                *)
RefusedUnplaced(s, k) ==
    LET p == tasks[s][k].params
        results == {Verdict(p, q, TakerDir[s.order], position) : q \in Quotes}
                      \cup {"NoFill", "LoadError", "DriftError"}
    IN  /\ tasks[s][k].pc = "sending"
        /\ orders[s.order].status = "Unused"
        /\ \E result \in results \ {"Ok"} : \E answer \in AnswersTo(result) :
              Bot!Answered(s, k, answer, 0)
        /\ Elsewhere
        /\ UNCHANGED <<resting, late, history, update, perpParams, spotParams,
                       seenOrders, onGoingAuctions, passedOver>>

(* The call times out.  The transaction may be lost, or land later.         *)
TimesOut(s, k) ==
    /\ tasks[s][k].pc = "sending"
    /\ Bot!Answered(s, k, "Timeout", 0)
    /\ \/ UNCHANGED late
       \/ \E n \in 1..Unconfirmed :
             /\ \A tx \in late : tx.id # n
             /\ late' = late \cup
                          {[sig |-> s, params |-> tasks[s][k].params, id |-> n]}
    /\ Elsewhere
    /\ UNCHANGED <<resting, history, update, perpParams, spotParams, seenOrders,
                   onGoingAuctions, passedOver>>

LateLands(tx) ==
    /\ orders[tx.sig.order].status # "Unused"
    /\ \E q \in Quotes : Instruction(tx.sig, tx.params, q)
    /\ late' = late \ {tx}
    /\ CountsFill(tx.params)
    /\ UNCHANGED <<resting, botVars>>

(* Its blockhash expires.                                                   *)
LateExpires(tx) ==
    /\ late' = late \ {tx}
    /\ Elsewhere
    /\ UNCHANGED <<resting, botVars, history>>

(* A try's own code between two awaits.                                     *)
Runs(s, k) ==
    /\ Elsewhere
    /\ UNCHANGED <<resting, late, history>>
    /\ \/ Bot!StatsLoaded(s, k) \/ Bot!StatsFailed(s, k)
       \/ Bot!Resumes(s, k) \/ Bot!Wakes(s, k)

TryStep(s, k) ==
    Runs(s, k) \/ TimesOut(s, k) \/ Executes(s, k) \/ RefusedUnplaced(s, k)

SystemNext ==
    \/ Others
    \/ \E o \in OrderIds : AuctionEnds(o)
    \/ BotAlone
    \/ \E p \in Params : UpdateParams(p)
    \/ \E s \in Bot!Signatures, k \in Slots : TryStep(s, k)
    \/ \E tx \in late : LateLands(tx) \/ LateExpires(tx)

(* Every await ends, as in JitterShotgun.                                   *)
SystemSpec ==
    /\ SystemInit /\ [][SystemNext]_systemVars
    /\ \A s \in Bot!Signatures, k \in Slots : WF_systemVars(TryStep(s, k))

-----------------------------------------------------------------------------
(* Properties *)

(* The answers JitterShotgun allows are those the program gives: what is    *)
(* checked of the jitter there holds with the program behind it.            *)
ImplementsShotgun == Bot!Spec

(* A swift order that its account shows too is not tried under both of its  *)
(* names at once, with the program's answers.                               *)
OneTryPerOrder == Bot!OneTryPerOrder

(* Every try ends, whatever the program answers and whatever lands late.    *)
TriesEnd == Bot!TriesEnd

(* After the maker has changed its parameters, the program fills with the   *)
(* old ones at most once for each transaction that was under way then: no   *)
(* try takes them over into a later round.                                  *)
OldParamsRunOut == outdated <= outstanding
=============================================================================
