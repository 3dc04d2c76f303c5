---------------------------- MODULE JitterShotgun ---------------------------
(***************************************************************************)
(* JitterShotgun (ts/sdk/src/jitter/jitterShotgun.ts): for every auction   *)
(* it sends fill transactions one after the other, retrying while the      *)
(* order does not cross.  A try is an async function; its code between two *)
(* awaits is one step here:                                                *)
(*                                                                         *)
(*   stats     awaits the taker's stats account (mustGet)                  *)
(*   sending   awaits jit / jitSignedMsg; the transaction was sent         *)
(*   answered  the call has returned or thrown, the function has not resumed*)
(*   cooldown  sleeps ten seconds before it forgets the order              *)
(*   rejected  mustGet threw: the promise is rejected and nobody handles it*)
(***************************************************************************)
EXTENDS BaseJitter

CONSTANTS
    Duration,       \* order -> auctionDuration: the tries it gets
    Slots           \* bound: the tries of one signature that run at once

ASSUME ShotgunAssumption == /\ Duration \in [Orders -> Nat]
                            /\ Slots = 1..2

VARIABLES tasks     \* signature -> slot -> a running try

vars == <<baseVars, tasks>>

Task == [pc: {"idle", "stats", "sending", "answered", "cooldown", "rejected"},
         i: Nat,                                \* the loop counter
         params: PerpValues \cup {None},        \* those of the last call
         answer: Answers,
         late: Nat,      \* calls made when the order was already closed
         landed: Nat]    \* transactions that were executed

Idle == [pc |-> "idle", i |-> 0, params |-> None, answer |-> "None",
         late |-> 0, landed |-> 0]

(* A call is only made with parameters.                                     *)
TypeOK ==
    /\ BaseTypeOK
    /\ tasks \in [Signatures -> [Slots -> Task]]
    /\ \A s \in Signatures, k \in Slots :
          tasks[s][k].pc = "sending" => tasks[s][k].params # None

Init == BaseInit /\ tasks = [s \in Signatures |-> [k \in Slots |-> Idle]]

Running(s, k) == tasks[s][k].pc \notin {"idle", "rejected"}

-----------------------------------------------------------------------------
(* Starting tries. *)

FreeSlot(s) == IF tasks[s][1].pc = "idle" THEN 1 ELSE 2

Begin(sigs) ==
    /\ \A s \in sigs : tasks[s][FreeSlot(s)].pc = "idle"
    /\ tasks' = [s \in Signatures |->
                   IF s \in sigs
                   THEN [tasks[s] EXCEPT ![FreeSlot(s)] = [Idle EXCEPT !.pc = "stats"]]
                   ELSE tasks[s]]

OnAccountUpdate ==
    /\ AccountHandled({})
    /\ Begin({Chain(o) : o \in Started(update)})

OnSwiftOrder(o, small) ==
    /\ SwiftHandled(o, small)
    /\ Begin(IF SwiftStarts(o, small) THEN {Swift(o)} ELSE {})

-----------------------------------------------------------------------------
(* The steps of a try. *)

Becomes(s, k, task) == tasks' = [tasks EXCEPT ![s][k] = task]

Ends(s, k) == /\ Forget(s)
              /\ Becomes(s, k, Idle)
              /\ UNCHANGED <<book, update, perpParams, spotParams, passedOver>>

(* Slip: giving up without deleteOnGoingAuction.                            *)
LoopHeadLeaks(s, k, i) ==
    LET params == perpParams[MarketOf[s.order]]
        late   == IF book[s.order].phase = "closed" THEN 1 ELSE 0
    IN  /\ IF i >= Duration[s.order] \/ params = None
           THEN Becomes(s, k, Idle)
           ELSE Becomes(s, k, [tasks[s][k] EXCEPT
                                 !.pc = "sending", !.i = i, !.params = params,
                                 !.answer = "None", !.late = @ + late])
        /\ UNCHANGED baseVars

(* Slip: the parameters are not checked again.                              *)
LoopHeadUnchecked(s, k, i) ==
    LET params == perpParams[MarketOf[s.order]]
        late   == IF book[s.order].phase = "closed" THEN 1 ELSE 0
    IN  IF i >= Duration[s.order]
        THEN Ends(s, k)
        ELSE /\ Becomes(s, k, [tasks[s][k] EXCEPT
                                 !.pc = "sending", !.i = i, !.params = params,
                                 !.answer = "None", !.late = @ + late])
             /\ UNCHANGED baseVars

(* Slip: the parameters of the first round are used in all of them.         *)
LoopHeadCached(s, k, i) ==
    LET params == IF i = 0 THEN perpParams[MarketOf[s.order]] ELSE tasks[s][k].params
        late   == IF book[s.order].phase = "closed" THEN 1 ELSE 0
    IN  IF i >= Duration[s.order] \/ params = None
        THEN Ends(s, k)
        ELSE /\ Becomes(s, k, [tasks[s][k] EXCEPT
                                 !.pc = "sending", !.i = i, !.params = params,
                                 !.answer = "None", !.late = @ + late])
             /\ UNCHANGED baseVars

(* The head of the loop with the counter at i: give up when the auction's   *)
(* slots are used up or the market is not listened to; otherwise read the   *)
(* parameters, for spot orders too from the perp map, and send.             *)
LoopHead(s, k, i) ==
    LET params == perpParams[MarketOf[s.order]]
        late   == IF book[s.order].phase = "closed" THEN 1 ELSE 0
    IN  IF i >= Duration[s.order] \/ params = None
        THEN Ends(s, k)
        ELSE /\ Becomes(s, k, [tasks[s][k] EXCEPT
                                 !.pc = "sending", !.i = i, !.params = params,
                                 !.answer = "None", !.late = @ + late])
             /\ UNCHANGED baseVars

StatsLoaded(s, k) ==
    /\ tasks[s][k].pc = "stats"
    /\ LoopHead(s, k, 0)

StatsFailed(s, k) ==
    /\ tasks[s][k].pc = "stats"
    /\ Becomes(s, k, [tasks[s][k] EXCEPT !.pc = "rejected"])
    /\ UNCHANGED baseVars

Answered(s, k, answer, landed) ==
    Becomes(s, k, [tasks[s][k] EXCEPT !.pc = "answered", !.answer = answer,
                                      !.landed = @ + landed])

(* The simulation refuses the transaction, or it is lost: nothing happens   *)
(* on chain.                                                                *)
Refused(s, k, answer) ==
    /\ tasks[s][k].pc = "sending"
    /\ answer \in Refusals(s.order)
    /\ Answered(s, k, answer, 0)
    /\ UNCHANGED baseVars

(* The transaction is executed, and the confirmation comes or does not.     *)
Lands(s, k, after, answer) ==
    /\ tasks[s][k].pc = "sending"
    /\ book[s.order].phase # "closed"
    /\ book' = [book EXCEPT ![s.order] = after]
    /\ Answered(s, k, answer, 1)
    /\ UNCHANGED <<update, perpParams, spotParams, seenOrders,
                   onGoingAuctions, passedOver>>

(* Slip: an order that is not found is tried again.                         *)
RetriesMissing(answer) == answer \in Retried \cup {"TakerOrderNotFound"}

(* Slip: a lost confirmation is tried again.                                *)
RetriesTimeout(answer) == answer \in Retried \cup {"Timeout"}

(* The errors after which the code goes round the loop again.               *)
Retries(answer) == answer \in Retried

(* Slip: the order is forgotten before the sleep, not after it.             *)
ResumesForgetting(s, k) ==
    /\ tasks[s][k].pc = "answered"
    /\ IF Retries(tasks[s][k].answer)
       THEN LoopHead(s, k, tasks[s][k].i + 1)
       ELSE /\ Becomes(s, k, [tasks[s][k] EXCEPT !.pc = "cooldown"])
            /\ Forget(s)
            /\ UNCHANGED <<book, update, perpParams, spotParams, passedOver>>

(* Slip: the counter is not incremented after an error.                     *)
ResumesUncounted(s, k) ==
    /\ tasks[s][k].pc = "answered"
    /\ IF Retries(tasks[s][k].answer)
       THEN LoopHead(s, k, tasks[s][k].i)
       ELSE /\ Becomes(s, k, [tasks[s][k] EXCEPT !.pc = "cooldown"])
            /\ UNCHANGED baseVars

Resumes(s, k) ==
    /\ tasks[s][k].pc = "answered"
    /\ IF Retries(tasks[s][k].answer)
       THEN LoopHead(s, k, tasks[s][k].i + 1)
       ELSE /\ Becomes(s, k, [tasks[s][k] EXCEPT !.pc = "cooldown"])
            /\ UNCHANGED baseVars

Wakes(s, k) ==
    /\ tasks[s][k].pc = "cooldown"
    /\ Ends(s, k)

Executed(s, k) ==
    \/ \E answer \in Answers : Refused(s, k, answer)
    \/ \E after \in Outcomes(s.order), answer \in {"Sent", "Timeout"} :
          Lands(s, k, after, answer)

TryStep(s, k) ==
    \/ StatsLoaded(s, k) \/ StatsFailed(s, k)
    \/ Executed(s, k)
    \/ Resumes(s, k) \/ Wakes(s, k)

Next ==
    \/ Environment /\ UNCHANGED tasks
    \/ OnAccountUpdate
    \/ \E o \in SwiftOrders, small \in BOOLEAN : OnSwiftOrder(o, small)
    \/ \E s \in Signatures, k \in Slots : TryStep(s, k)

Spec == Init /\ [][Next]_vars

(* Every await ends: a request is answered or times out, a timer fires, and *)
(* the function resumes.  Nothing is assumed of the taker, the subscriber   *)
(* or the maker.                                                            *)
FairSpec == Spec /\ \A s \in Signatures, k \in Slots : WF_vars(TryStep(s, k))

-----------------------------------------------------------------------------
(* Properties *)

(* However often an order is reported, one try of it runs at a time: the    *)
(* registries outlive the try's last await.                                 *)
OneTryPerSignature ==
    \A s \in Signatures : ~(Running(s, 1) /\ Running(s, 2))

(* When the account handler leaves swift orders to the swift subscriber, an *)
(* order is not tried by its uuid and by its order id at the same time.     *)
OneTryPerOrder ==
    IgnoreSwift =>
        \A o \in SwiftOrders, k, l \in Slots :
            ~(Running(Chain(o), k) /\ Running(Swift(o), l))

(* An entry in the map of promises is that of a try that runs, or of one    *)
(* whose stats account could not be loaded (that one stays for ever), and   *)
(* each such order is in seenOrders too: nothing else can keep an order     *)
(* from being tried again later.                                            *)
EntriesAreTries ==
    /\ onGoingAuctions \subseteq seenOrders
    /\ \A s \in Signatures :
          s \in onGoingAuctions <=> \E k \in Slots : tasks[s][k].pc # "idle"

(* A try makes at most one call for an order that is gone: the error says   *)
(* so, and is final.                                                        *)
OneCallAfterClose ==
    \A s \in Signatures, k \in Slots : tasks[s][k].late <= 1

(* A try never fills twice: after a transaction that may have been executed *)
(* it sends no other, even when the confirmation was lost.                  *)
OneFillPerTry ==
    \A s \in Signatures, k \in Slots : tasks[s][k].landed <= 1

(* Because an order is noted before it is found to be in a market without   *)
(* parameters or nearly filled, each order makes the handler return early   *)
(* only once, and the o-th order of an account is overlooked at most o - 1  *)
(* times.                                                                   *)
OverlookedOncePerOrder ==
    Filtered = {} => \A o \in Orders : passedOver[o] <= o - 1

(* A try comes to an end.                                                   *)
TriesEnd ==
    \A s \in Signatures, k \in Slots : Running(s, k) ~> ~Running(s, k)

(* ts/sdk/Readme.md: the parameters of each market are set "using           *)
(* updatePerpParams() and updateSpotParams()".  A call for a spot order is  *)
(* made with parameters of a spot market.                                   *)
SpotParamsForSpotOrders ==
    \A s \in Signatures, k \in Slots :
        tasks[s][k].pc = "sending" /\ s.order \in SpotOrders =>
            tasks[s][k].params \in SpotValues
=============================================================================
