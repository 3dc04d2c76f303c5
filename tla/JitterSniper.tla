---------------------------- MODULE JitterSniper ----------------------------
(***************************************************************************)
(* JitterSniper (ts/sdk/src/jitter/jitterSniper.ts): a try looks at the    *)
(* auction, waits for the slot at which it should cross the maker's price, *)
(* and then sends like the shotgun.  While it waits, a listener hears the  *)
(* next slot, and a timer of 50 ms looks at the slot and at the auction    *)
(* again.  The wait is not awaited: the function returns, and the order is *)
(* forgotten, before the first transaction is sent.                        *)
(*                                                                         *)
(*   stats     awaits the taker's stats account (mustGet)                  *)
(*   waiting   waitForSlotOrCrossOrExpiry has not resolved                 *)
(*   sending   awaits jit / jitSignedMsg; the transaction was sent         *)
(*   answered  the call has returned or thrown, the callback has not resumed*)
(*   paused    sleeps 200 ms before the next round                         *)
(*   cooldown  sleeps three seconds before it forgets the order            *)
(*   rejected  mustGet threw: the promise is rejected and nobody handles it*)
(***************************************************************************)
EXTENDS BaseJitter, Functions

CONSTANTS
    MakerBuys,      \* the orders that sell: the maker's side is to buy
    OrderSlot,      \* order -> the slot it was placed in
    Duration,       \* order -> auctionDuration
    LastSlot,       \* bound: the last slot, after every auction
    Holdings,       \* where a try may find the maker's position: short (at
                    \* or below minPosition), long (at or above maxPosition)
                    \* or within
    Rounds,         \* rounds of the sending loop (10 in the code)
    Tries           \* bound: the tries that run at once

ASSUME SniperAssumption ==
    /\ MakerBuys \subseteq Orders
    /\ OrderSlot \in [Orders -> Nat] /\ Duration \in [Orders -> Nat \ {0}]
    /\ LastSlot \in Nat
    /\ \A o \in Orders : OrderSlot[o] + Duration[o] < LastSlot
    /\ Holdings \subseteq {"short", "within", "long"}
    /\ Rounds \in Nat \ {0}

VARIABLES
    slot,       \* slotSubscriber.currentSlot
    tasks       \* the running tries

vars == <<baseVars, slot, tasks>>

(* What getAuctionAndOrderDetails finds with the prices of the moment: the  *)
(* auction crosses so many slots after it began, or the limit price crosses *)
(* after the auction, or it never does.                                     *)
Looks(o) == [crosses: {"auction"}, at: 0..(Duration[o] - 1)]
              \cup [crosses: {"after", "never"}, at: {Duration[o] + 1}]

(* The slot it waits for.                                                   *)
Target(o, look) == OrderSlot[o] + look.at

(* willCross.  Where the auction does not cross, each side's test of the    *)
(* limit price is a disjunction with the maker's direction, so one of the   *)
(* two is true whatever the price.                                          *)
WillCross(o, look) ==
    \/ look.crosses # "never"
    \/ o \in MakerBuys \/ o \notin MakerBuys

NoLook == [crosses |-> "unknown", at |-> 0]

Task == [pc: {"idle", "stats", "waiting", "sending", "answered", "paused",
              "cooldown", "rejected"},
         s: Signatures \cup {None},
         look: (UNION {Looks(o) : o \in Orders}) \cup {NoLook},
         target: 0..LastSlot,           \* targetSlot
         listening: BOOLEAN,            \* the once-listener of newSlot
         timer: BOOLEAN,                \* the interval
         i: 0..(Rounds - 1),
         params: PerpValues \cup SpotValues \cup {None},
         answer: Answers,
         landed: Nat]                   \* transactions that were executed

Idle == [pc |-> "idle", s |-> None, look |-> NoLook, target |-> 0,
         listening |-> FALSE, timer |-> FALSE, i |-> 0, params |-> None,
         answer |-> "None", landed |-> 0]

(* A call is made with parameters of the order's own kind of market.        *)
TypeOK ==
    /\ BaseTypeOK
    /\ slot \in 0..LastSlot
    /\ tasks \in [Tries -> Task]
    /\ \A k \in Tries :
          tasks[k].pc = "sending" =>
             tasks[k].params \in IF tasks[k].s.order \in SpotOrders
                                 THEN SpotValues ELSE PerpValues

Init == /\ BaseInit
        /\ slot = 0
        /\ tasks = [k \in Tries |-> Idle]

Running(k) == \/ tasks[k].pc \notin {"idle", "rejected"}
                 \/ tasks[k].timer

-----------------------------------------------------------------------------
(* Starting tries. *)

Begin(sigs) ==
    /\ \E try \in Injection(sigs, {k \in Tries : tasks[k] = Idle}) :
          tasks' = [k \in Tries |->
                      IF \E s \in sigs : try[s] = k
                      THEN [Idle EXCEPT !.pc = "stats",
                                        !.s = CHOOSE s \in sigs : try[s] = k]
                      ELSE tasks[k]]
    /\ UNCHANGED slot

(* The function reads the perp parameters, for spot orders too, before its  *)
(* first await, and gives up when there are none.                           *)
Dropped(view) == {o \in Started(view) : perpParams[MarketOf[o]] = None}

OnAccountUpdate ==
    /\ AccountHandled(Dropped(update))
    /\ Begin({Chain(o) : o \in Started(update) \ Dropped(update)})

OnSwiftOrder(o, small) ==
    /\ SwiftHandled(o, small)
    /\ Begin(IF SwiftStarts(o, small) THEN {Swift(o)} ELSE {})

-----------------------------------------------------------------------------
(* Waiting. *)

OrderOf(k) == tasks[k].s.order

Becomes(k, task) == tasks' = [tasks EXCEPT ![k] = task]

Forgets(k) == /\ Forget(tasks[k].s)
              /\ UNCHANGED <<book, update, perpParams, spotParams, passedOver>>

(* Slip: the perp parameters for every order.                               *)
SendsWithPerp(task) ==
    [task EXCEPT !.pc = "sending", !.params = perpParams[MarketOf[task.s.order]]]

(* The callback of the wait reads the parameters and sends.                 *)
Sends(task) ==
    LET o == task.s.order
    IN  [task EXCEPT !.pc = "sending",
                     !.params = IF o \in SpotOrders
                                THEN spotParams[MarketOf[o]]
                                ELSE perpParams[MarketOf[o]]]

(* Whether the last look found a slot to send at.                           *)
Crosses(task) == WillCross(task.s.order, task.look)

(* "don't increase risk if we're past max positions": the position is at a  *)
(* limit and the taker's order goes in its direction.  The maker's own      *)
(* order would go the other way, so the tries given up are those that would *)
(* bring it back.                                                           *)
AtLimit(o, held) ==
    /\ o \notin SpotOrders
    /\ \/ held = "short" /\ o \in MakerBuys
       \/ held = "long"  /\ o \notin MakerBuys

(* After the stats: the order is forgotten, whether the maker's position is *)
(* at its limit, the target slot has passed, or the try begins to wait.     *)
StatsLoaded(k, held, look) ==
    LET target == Target(OrderOf(k), look)
        seen   == [tasks[k] EXCEPT !.look = look, !.target = target]
    IN  /\ tasks[k].pc = "stats"
        /\ ~AtLimit(OrderOf(k), held)
        /\ Forgets(k)
        /\ Becomes(k,
             IF slot <= target THEN [seen EXCEPT !.pc = "waiting",
                                                 !.listening = TRUE,
                                                 !.timer = TRUE]
             ELSE IF Crosses(seen) THEN Sends(seen) ELSE Idle)
        /\ UNCHANGED slot

(* Slip: it gives up without deleteOnGoingAuction.                          *)
PositionAtLimitLeaks(k, held) ==
    /\ tasks[k].pc = "stats"
    /\ AtLimit(OrderOf(k), held)
    /\ Becomes(k, Idle)
    /\ UNCHANGED <<baseVars, slot>>

PositionAtLimit(k, held) ==
    /\ tasks[k].pc = "stats"
    /\ AtLimit(OrderOf(k), held)
    /\ Forgets(k)
    /\ Becomes(k, Idle)
    /\ UNCHANGED slot

StatsFailed(k) ==
    /\ tasks[k].pc = "stats"
    /\ Becomes(k, [tasks[k] EXCEPT !.pc = "rejected"])
    /\ UNCHANGED <<baseVars, slot>>

(* Slip: the listener does not compare the slot with its target.            *)
HeardAny(task, n) ==
    LET heard == [task EXCEPT !.listening = FALSE]
    IN  IF task.listening /\ Crosses(task)
        THEN Sends(heard) ELSE heard

(* The listener hears one slot only; the interval goes on after it.         *)
Heard(task, n) ==
    LET heard == [task EXCEPT !.listening = FALSE]
    IN  IF task.listening /\ n >= task.target /\ Crosses(task)
        THEN Sends(heard) ELSE heard

NewSlot(n) ==
    /\ slot < n
    /\ slot' = n
    /\ tasks' = [k \in Tries |-> Heard(tasks[k], n)]
    /\ UNCHANGED baseVars

(* The interval before the target slot: another look at the prices.         *)
TickLooks(k, look) ==
    LET seen == [tasks[k] EXCEPT !.look = look]
    IN  /\ tasks[k].timer /\ slot < tasks[k].target
        /\ Becomes(k, IF Crosses(seen)
                      THEN [seen EXCEPT !.target = Target(OrderOf(k), look)]
                      ELSE seen)
        /\ UNCHANGED <<baseVars, slot>>

(* Slip: the interval is not cleared.                                       *)
TickEndsUncleared(k) ==
    LET quiet == [tasks[k] EXCEPT !.listening = FALSE]
    IN  /\ tasks[k].timer /\ slot >= tasks[k].target
        /\ Becomes(k, IF tasks[k].pc = "waiting" THEN Sends(quiet) ELSE quiet)
        /\ UNCHANGED <<baseVars, slot>>

(* Slip: the listener is not removed.                                       *)
TickEndsListening(k) ==
    LET task  == tasks[k]
        quiet == [task EXCEPT !.timer = FALSE]
    IN  /\ task.timer /\ slot >= task.target
        /\ Becomes(k, IF task.pc = "waiting" THEN Sends(quiet)
                      ELSE IF task.pc = "idle" THEN Idle
                      ELSE quiet)
        /\ UNCHANGED <<baseVars, slot>>

(* The interval from the target slot of its last look on: it clears itself  *)
(* and the listener, and ends the wait unless the listener has done so; an  *)
(* auction that will not cross has expired.                                 *)
TickEnds(k) ==
    LET task  == tasks[k]
        quiet == [task EXCEPT !.listening = FALSE, !.timer = FALSE]
    IN  /\ task.timer /\ slot >= task.target
        /\ IF task.pc = "waiting" /\ ~Crosses(task)
           THEN Forgets(k) /\ Becomes(k, Idle)
           ELSE /\ Becomes(k, IF task.pc = "waiting" THEN Sends(quiet)
                              ELSE IF task.pc = "idle" THEN Idle
                              ELSE quiet)
                /\ UNCHANGED baseVars
        /\ UNCHANGED slot

-----------------------------------------------------------------------------
(* Sending. *)

(* The callback is over; its interval may not be.                           *)
Over(task) == IF task.timer THEN [task EXCEPT !.pc = "idle"] ELSE Idle

(* What it waited for matters no more; an interval that still runs will     *)
(* find its target slot passed.                                             *)
Answered(k, answer, landed) ==
    Becomes(k, [tasks[k] EXCEPT !.pc = "answered", !.answer = answer,
                                !.landed = @ + landed,
                                !.look = NoLook, !.target = 0])

Refused(k, answer) ==
    /\ tasks[k].pc = "sending"
    /\ answer \in Refusals(OrderOf(k))
    /\ Answered(k, answer, 0)
    /\ UNCHANGED <<baseVars, slot>>

(* The transaction is executed, and the confirmation comes or does not.     *)
Lands(k, after, answer) ==
    /\ tasks[k].pc = "sending"
    /\ book[OrderOf(k)].phase # "closed"
    /\ book' = [book EXCEPT ![OrderOf(k)] = after]
    /\ Answered(k, answer, 1)
    /\ UNCHANGED <<update, perpParams, spotParams, seenOrders, onGoingAuctions,
                   passedOver, slot>>

(* Slip: a lost confirmation is tried again.                                *)
RetriesTimeout(answer) == answer \in Retried \cup {"Timeout"}

Retries(answer) == answer \in Retried

Resumes(k) ==
    /\ tasks[k].pc = "answered"
    /\ Becomes(k, [tasks[k] EXCEPT !.pc = IF Retries(tasks[k].answer)
                                          THEN "paused" ELSE "cooldown"])
    /\ UNCHANGED <<baseVars, slot>>

(* Another round with the parameters of the first, or the end of the loop,  *)
(* after which nothing is deleted.                                          *)
NextRound(k) ==
    LET task == tasks[k]
    IN  /\ task.pc = "paused"
        /\ Becomes(k, IF task.i + 1 < Rounds
                      THEN [task EXCEPT !.pc = "sending", !.i = @ + 1,
                                        !.answer = "None"]
                      ELSE Over(task))
        /\ UNCHANGED <<baseVars, slot>>

Wakes(k) ==
    /\ tasks[k].pc = "cooldown"
    /\ Forgets(k)
    /\ Becomes(k, Over(tasks[k]))
    /\ UNCHANGED slot

TryStep(k) ==
    /\ tasks[k].pc # "idle"
    /\ \/ \E held \in Holdings, look \in Looks(OrderOf(k)) : StatsLoaded(k, held, look)
       \/ \E held \in Holdings : PositionAtLimit(k, held)
       \/ StatsFailed(k)
       \/ \E answer \in Answers : Refused(k, answer)
       \/ \E after \in Outcomes(OrderOf(k)), answer \in {"Sent", "Timeout"} :
             Lands(k, after, answer)
       \/ Resumes(k) \/ NextRound(k) \/ Wakes(k)

Tick(k) ==
    /\ tasks[k].timer
    /\ \/ \E look \in Looks(OrderOf(k)) : TickLooks(k, look)
       \/ TickEnds(k)

SlotPasses == \E n \in 1..LastSlot : NewSlot(n)

Next ==
    \/ Environment /\ UNCHANGED <<slot, tasks>>
    \/ OnAccountUpdate
    \/ \E o \in SwiftOrders, small \in BOOLEAN : OnSwiftOrder(o, small)
    \/ SlotPasses
    \/ \E k \in Tries : TryStep(k) \/ Tick(k)

Spec == Init /\ [][Next]_vars

(* Every await ends, timers fire, and slots pass.                           *)
FairSpec == /\ Spec
            /\ WF_vars(SlotPasses)
            /\ \A k \in Tries : WF_vars(TryStep(k)) /\ WF_vars(Tick(k))

-----------------------------------------------------------------------------
(* Properties *)

(* A try sends first at the slot it waited for or later, by the last look   *)
(* at the prices before, on each of the three ways out of the wait.         *)
NeverEarly ==
    \A k \in Tries : tasks[k].pc = "sending" => slot >= tasks[k].target

(* Nothing stays behind when a wait is over: the listener is gone, and a    *)
(* wait always has the interval that can end it.                            *)
WaitIsWatched ==
    \A k \in Tries :
        /\ tasks[k].listening => tasks[k].pc = "waiting"
        /\ tasks[k].pc = "waiting" => tasks[k].timer

(* Although tries of one order overlap and delete each other's entry, no    *)
(* entry of a perp order is left without a try that awaits the stats (or    *)
(* whose stats could not be loaded).                                        *)
EntriesAwaitStats ==
    \A s \in onGoingAuctions :
        \/ s.order \in SpotOrders
        \/ \E k \in Tries : /\ tasks[k].s = s
                             /\ tasks[k].pc \in {"stats", "rejected"}

(* A try never fills twice, even when a confirmation was lost.              *)
OneFillPerTry ==
    \A k \in Tries : tasks[k].landed <= 1

(* A try comes to an end, and so does its interval.                         *)
TriesEnd ==
    \A k \in Tries : Running(k) ~> ~Running(k)

(* ts/sdk/Readme.md: the sniper "will not send orders if the price of the   *)
(* order does not cross the bid/ask".  It does not send where its last look *)
(* found that the order never crosses.                                      *)
SendsOnlyCrossing ==
    \A k \in Tries :
        tasks[k].pc = "sending" => tasks[k].look.crosses # "never"
=============================================================================
