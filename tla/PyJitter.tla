----------------------------- MODULE PyJitter ------------------------------
(***************************************************************************)
(* The Python jitters (python/sdk/jit_proxy/jitter): the handler of account*)
(* updates in base_jitter.py with one map of tries, ongoing_auctions, and  *)
(* the tries of jitter_shotgun.py and jitter_sniper.py.                    *)
(*                                                                         *)
(* They differ from the TypeScript ones: every update starts a task of its *)
(* own, so updates queue up; there is no seenOrders; JitterShotgun takes   *)
(* the parameters of the right market type and forgets an order that is    *)
(* not found at once; and the wait of JitterSniper returns a slot only from*)
(* an event listener, where nobody receives it, so it always ends as       *)
(* expired and what follows it in the file is never reached.               *)
(*                                                                         *)
(* asyncio runs a task without interruption up to an await.  A try is:     *)
(*   stats     awaits the taker's stats account                            *)
(*   sending, answered, cooldown    as in JitterShotgun                    *)
(*   waiting   JitterSniper: sleeps 50 ms, and looks again                 *)
(*   died      an exception ended the task; its entry stays                *)
(***************************************************************************)
EXTENDS Integers, Sequences, FiniteSets

CONSTANTS
    OrderCount, Markets, MarketOf, SpotOrders, Filtered,
    PerpValues, SpotValues, None,
    Sideless,       \* parameter sets with both position limits 0
    Duration,       \* order -> auction_duration
    Slots,          \* bound: tries of one order at once
    Backlog         \* bound: updates that wait for their task

Orders == 1..OrderCount

ASSUME PyAssumption ==
    /\ OrderCount \in Nat \ {0} /\ Backlog \in Nat \ {0} /\ Slots = 1..2
    /\ MarketOf \in [Orders -> Markets] /\ Duration \in [Orders -> Nat]
    /\ SpotOrders \subseteq Orders /\ Filtered \subseteq Orders
    /\ None \notin PerpValues \cup SpotValues
    /\ PerpValues \cap SpotValues = {}

VARIABLES
    strategy,       \* which of the two classes runs
    book,           \* the taker's orders on chain
    over,           \* orders whose auction's last slot has come
    changed,        \* the account changed since it was last reported
    updates,        \* reported accounts whose handlers have not run yet
    perp_params, spot_params,   \* market index -> parameter set, or None
    ongoing_auctions,
    tries,          \* order -> slot -> a running try
    wasted          \* order -> calls made when it was gone

vars == <<strategy, book, over, changed, updates, perp_params, spot_params,
          ongoing_auctions, tries, wasted>>
chain == <<book, over, changed>>
bot   == <<strategy, updates, perp_params, spot_params, ongoing_auctions>>

(* What a call comes to: an error that is retried (0x1770, 0x1771, 0x1779,  *)
(* 0x1793), an order that is not found (0x1772), or a signature or another  *)
(* error, after which the try sleeps and is done.                           *)
Answers == {"Retry", "NotFound", "Settled"}

Phases == {"new", "auction", "rests", "closed"}
Book   == [Orders -> [phase: Phases, dust: BOOLEAN]]

(* The size of an order that is gone does not matter.                       *)
Order(phase, dust) == [phase |-> phase, dust |-> dust /\ phase # "closed"]

Try    == [pc: {"idle", "stats", "sending", "answered", "cooldown", "waiting",
                "died"},
           i: Nat, params: PerpValues \cup SpotValues \cup {None},
           answer: Answers \cup {"None"},
           crosses: BOOLEAN]        \* will_cross of the last look

Idle == [pc |-> "idle", i |-> 0, params |-> None, answer |-> "None",
         crosses |-> FALSE]

(* A call is made with parameters of the order's kind of market, and never  *)
(* with both limits 0.                                                      *)
TypeOK ==
    /\ strategy \in {"Shotgun", "Sniper"}
    /\ book \in Book /\ over \subseteq Orders /\ changed \in BOOLEAN
    /\ updates \in Seq(Book) /\ Len(updates) <= Backlog
    /\ perp_params \in [Markets -> PerpValues \cup {None}]
    /\ spot_params \in [Markets -> SpotValues \cup {None}]
    /\ ongoing_auctions \subseteq Orders
    /\ tries \in [Orders -> [Slots -> Try]]
    /\ wasted \in [Orders -> Nat]
    /\ \A o \in Orders, k \in Slots : tries[o][k].pc = "sending" =>
          tries[o][k].params \in (IF o \in SpotOrders THEN SpotValues
                                                      ELSE PerpValues) \ Sideless

Init ==
    /\ strategy \in {"Shotgun", "Sniper"}
    /\ book = [o \in Orders |-> [phase |-> "new", dust |-> FALSE]]
    /\ over = {} /\ changed = FALSE
    /\ updates = <<>>
    /\ perp_params \in [Markets -> PerpValues \cup {None}]
    /\ spot_params \in [Markets -> SpotValues \cup {None}]
    /\ ongoing_auctions = {}
    /\ tries = [o \in Orders |-> [k \in Slots |-> Idle]]
    /\ wasted = [o \in Orders |-> 0]

-----------------------------------------------------------------------------
(* The taker and the market. *)

OrderMoves(o, phase, dust) ==
    /\ \/ book[o].phase = "new" /\ phase = "auction"
       \/ book[o].phase \in {"auction", "rests"} /\ phase \in {book[o].phase, "closed"}
    /\ book[o].dust => dust
    /\ book' = [book EXCEPT ![o] = Order(phase, dust)]
    /\ book' # book
    /\ changed' = TRUE
    /\ UNCHANGED <<over, bot, tries, wasted>>

(* The auction's last slot has come: a wait expires in it already.          *)
LastSlot(o) ==
    /\ book[o].phase # "new" /\ o \notin over
    /\ over' = over \cup {o}
    /\ UNCHANGED <<book, changed, bot, tries, wasted>>

(* It has passed: only now the order has no auction price.                  *)
AuctionEnds(o) ==
    /\ book[o].phase = "auction" /\ o \in over
    /\ book' = [book EXCEPT ![o].phase = "rests"]
    /\ UNCHANGED <<over, changed, bot, tries, wasted>>

(* on_account_update_sync: the account as it is now, for a task of its own. *)
Reports ==
    /\ changed /\ Len(updates) < Backlog
    /\ changed' = FALSE
    /\ updates' = Append(updates, book)
    /\ UNCHANGED <<book, over, strategy, perp_params, spot_params,
                   ongoing_auctions, tries, wasted>>

UpdatePerpParams(m, value) ==
    /\ perp_params' = [perp_params EXCEPT ![m] = value]
    /\ UNCHANGED <<chain, strategy, updates, spot_params, ongoing_auctions,
                   tries, wasted>>

UpdateSpotParams(m, value) ==
    /\ spot_params' = [spot_params EXCEPT ![m] = value]
    /\ UNCHANGED <<chain, strategy, updates, perp_params, ongoing_auctions,
                   tries, wasted>>

-----------------------------------------------------------------------------
(* on_account_update: no await in it, so it is one step. *)

(* The parameters of the order's kind of market; an entry is replaced, never*)
(* removed.                                                                 *)
ParamsOf(o) == IF o \in SpotOrders THEN spot_params[MarketOf[o]]
                                   ELSE perp_params[MarketOf[o]]

Considered(view, o) == view[o].phase = "auction"

(* Slip: return, not continue, at an order that is being tried.             *)
ReturnsWhenTried(view, o) ==
    /\ Considered(view, o)
    /\ o \in Filtered \cup ongoing_auctions \/ ParamsOf(o) = None \/ view[o].dust

(* The orders at which the handler returns, whatever comes after them.      *)
Returns(view, o) ==
    /\ Considered(view, o)
    /\ \/ o \in Filtered
       \/ o \notin ongoing_auctions /\ (ParamsOf(o) = None \/ view[o].dust)

Reached(view) == {o \in Orders : \A before \in 1..(o - 1) : ~Returns(view, before)}

(* Slip: an order that is being tried is not left out.                      *)
StartedAgain(view) == {o \in Reached(view) : Considered(view, o) /\ ~Returns(view, o)}

Started(view) ==
    {o \in Reached(view) : /\ Considered(view, o) /\ ~Returns(view, o)
                           /\ o \notin ongoing_auctions}

FreeSlot(o) == IF tries[o][1].pc = "idle" THEN 1 ELSE 2

(* The entry is made right after the task is created, before it runs.       *)
OnAccountUpdate ==
    /\ updates # <<>>
    /\ updates' = Tail(updates)
    /\ \A o \in Started(Head(updates)) : tries[o][FreeSlot(o)].pc = "idle"
    /\ ongoing_auctions' = ongoing_auctions \cup Started(Head(updates))
    /\ tries' = [o \in Orders |->
                   IF o \in Started(Head(updates))
                   THEN [tries[o] EXCEPT ![FreeSlot(o)] = [Idle EXCEPT !.pc = "stats"]]
                   ELSE tries[o]]
    /\ UNCHANGED <<chain, strategy, perp_params, spot_params, wasted>>

-----------------------------------------------------------------------------
(* Tries. *)

Becomes(o, k, try) == tries' = [tries EXCEPT ![o][k] = try]

(* The entry is deleted and the task is done.                               *)
Ends(o, k) ==
    /\ ongoing_auctions' = ongoing_auctions \ {o}
    /\ Becomes(o, k, Idle)
    /\ UNCHANGED <<chain, strategy, updates, perp_params, spot_params, wasted>>

Continues(o, k, try) == Becomes(o, k, try) /\ UNCHANGED <<chain, bot, wasted>>

(* An exception that nobody catches.                                        *)
Dies(o, k) == Continues(o, k, [Idle EXCEPT !.pc = "died"])

(* Slip: spot orders take the perp parameters.                              *)
NextCallWithPerp(o, k, i) ==
    LET params == perp_params[MarketOf[o]]
    IN  IF i >= Duration[o] \/ params \in Sideless
        THEN Ends(o, k)
        ELSE /\ Becomes(o, k, [Idle EXCEPT !.pc = "sending", !.i = i, !.params = params])
             /\ wasted' = [wasted EXCEPT ![o] =
                             IF book[o].phase = "closed" THEN @ + 1 ELSE @]
             /\ UNCHANGED <<chain, bot>>

(* JitterShotgun's for loop: at the end of the range, or when both limits   *)
(* are 0, the entry is deleted; otherwise it calls jit.                     *)
NextCall(o, k, i) ==
    LET params == ParamsOf(o)
    IN  IF i >= Duration[o] \/ params \in Sideless
        THEN Ends(o, k)
        ELSE /\ Becomes(o, k, [Idle EXCEPT !.pc = "sending", !.i = i, !.params = params])
             /\ wasted' = [wasted EXCEPT ![o] =
                             IF book[o].phase = "closed" THEN @ + 1 ELSE @]
             /\ UNCHANGED <<chain, bot>>

StatsLoaded(o, k) ==
    /\ strategy = "Shotgun" /\ tries[o][k].pc = "stats"
    /\ NextCall(o, k, 0)

StatsFailed(o, k) ==
    /\ tries[o][k].pc = "stats"
    /\ Dies(o, k)

Answered(try, answer) ==
    [Idle EXCEPT !.pc = "answered", !.i = try.i, !.answer = answer]

(* The transaction is refused or lost.  An error of Drift's own may have the*)
(* code of any of these.                                                    *)
Refused(o, k, answer) ==
    /\ tries[o][k].pc = "sending"
    /\ book[o].phase = "closed" => answer # "Retry"
    /\ Continues(o, k, Answered(tries[o][k], answer))

(* It is executed; the confirmation comes or does not.                      *)
Lands(o, k, phase, dust) ==
    /\ tries[o][k].pc = "sending"
    /\ book[o].phase \in {"auction", "rests"}
    /\ phase \in {book[o].phase, "closed"} /\ (book[o].dust => dust)
    /\ book' = [book EXCEPT ![o] = Order(phase, dust)]
    /\ changed' = (changed \/ book' # book)
    /\ Becomes(o, k, Answered(tries[o][k], "Settled"))
    /\ UNCHANGED <<over, bot, wasted>>

(* Slip: an order that is not found is tried again.                         *)
RetriesMissing(answer) == answer \in {"Retry", "NotFound"}

Retries(answer) == answer = "Retry"

Resumes(o, k) ==
    LET try == tries[o][k]
    IN  /\ try.pc = "answered"
        /\ IF Retries(try.answer) THEN NextCall(o, k, try.i + 1)
           ELSE IF try.answer = "NotFound" THEN Ends(o, k)
           ELSE Continues(o, k, [Idle EXCEPT !.pc = "cooldown"])

Wakes(o, k) ==
    /\ tries[o][k].pc = "cooldown"
    /\ Ends(o, k)

-----------------------------------------------------------------------------
(* JitterSniper. *)

(* Past the stats it looks at the auction, which divides by its duration    *)
(* less one, and at its position, which it may not have.  It gives up on a  *)
(* short taker when it is short to its limit; otherwise it waits.           *)
SniperLooks(o, k, crosses) ==
    /\ strategy = "Sniper" /\ tries[o][k].pc = "stats"
    /\ \/ Duration[o] = 1 /\ Dies(o, k)
       \/ o \notin SpotOrders /\ Dies(o, k)
       \/ Duration[o] # 1 /\ o \notin SpotOrders /\ Ends(o, k)
       \/ /\ Duration[o] # 1
          /\ IF o \in over
             THEN Ends(o, k)
             ELSE Continues(o, k, [Idle EXCEPT !.pc = "waiting", !.crosses = crosses])

(* Slip: the wait ends at the last slot only, and sleeps when that passes.  *)
WaitSleepsOn(o, k, crosses) ==
    /\ tries[o][k].pc = "waiting"
    /\ Continues(o, k, [tries[o][k] EXCEPT !.crosses = crosses])

(* Every 50 ms the wait ends as expired from the auction's last slot on, or *)
(* it looks again.                                                          *)
WaitLooks(o, k, crosses) ==
    /\ tries[o][k].pc = "waiting"
    /\ IF o \in over
       THEN Ends(o, k)
       ELSE Continues(o, k, [tries[o][k] EXCEPT !.crosses = crosses])

TryStep(o, k) ==
    \/ StatsLoaded(o, k) \/ StatsFailed(o, k)
    \/ \E answer \in Answers : Refused(o, k, answer)
    \/ \E phase \in Phases, dust \in BOOLEAN : Lands(o, k, phase, dust)
    \/ Resumes(o, k) \/ Wakes(o, k)
    \/ \E crosses \in BOOLEAN : SniperLooks(o, k, crosses) \/ WaitLooks(o, k, crosses)

Next ==
    \/ \E o \in Orders, phase \in Phases, dust \in BOOLEAN : OrderMoves(o, phase, dust)
    \/ \E o \in Orders : LastSlot(o) \/ AuctionEnds(o)
    \/ Reports
    \/ \E m \in Markets, v \in PerpValues : UpdatePerpParams(m, v)
    \/ \E m \in Markets, v \in SpotValues : UpdateSpotParams(m, v)
    \/ OnAccountUpdate
    \/ \E o \in Orders, k \in Slots : TryStep(o, k)

Spec == Init /\ [][Next]_vars

(* Awaits end, tasks run, and the subscriber reports changes.  That slots   *)
(* pass is assumed for JitterSniper only: JitterShotgun's orders may stay   *)
(* in their auctions.                                                       *)
FairSpec ==
    /\ Spec
    /\ WF_vars(Reports) /\ WF_vars(OnAccountUpdate)
    /\ \A o \in Orders : WF_vars(strategy = "Sniper" /\ (LastSlot(o) \/ AuctionEnds(o)))
    /\ \A o \in Orders, k \in Slots : WF_vars(TryStep(o, k))

-----------------------------------------------------------------------------
(* Properties *)

Running(o, k) == tries[o][k].pc \notin {"idle", "died"}

(* An entry is that of exactly one try, which runs or has died of an        *)
(* exception: no update, however many are queued, starts a second try of an *)
(* order, and no try deletes an entry that is not there ("del" would raise).*)
EntriesAreTries ==
    \A o \in Orders :
        Cardinality({k \in Slots : tries[o][k].pc # "idle"}) =
            IF o \in ongoing_auctions THEN 1 ELSE 0

(* An order that is gone is called for once by the try that ran when it     *)
(* went, and once for each update that waited then: the error for it is     *)
(* final, but an older update starts another try, as nothing else remembers *)
(* the order.                                                               *)
FewWastedCalls == \A o \in Orders : wasted[o] <= Backlog + 1

Eligible(o) == /\ book[o].phase = "auction" /\ ~book[o].dust
               /\ o \notin Filtered /\ ParamsOf(o) # None

(* No order before it makes the handler return.                             *)
InSight(o) ==
    \A before \in 1..(o - 1) : book[before].phase = "auction" =>
        /\ before \notin Filtered /\ ParamsOf(before) # None
        /\ ~book[before].dust

(* Under JitterShotgun an eligible order comes to be tried, whatever is     *)
(* tried before it: only an order that is filtered, nearly filled or not    *)
(* listened to can hide it (and does, for as long as it is in its auction). *)
OrdersComeUp ==
    \A o \in Orders :
        strategy = "Shotgun" /\ changed /\ Eligible(o) /\ InSight(o) ~>
            o \in ongoing_auctions \/ ~Eligible(o) \/ ~InSight(o)

(* A try comes to an end; that of JitterSniper with its auction.            *)
TriesEnd ==
    \A o \in Orders, k \in Slots : Running(o, k) ~> ~Running(o, k)

(* python/README.md: the sniper "will wait until it detects an order that   *)
(* has a high chance of crossing the JitParams and retry up to 3 times on   *)
(* errors".  A wait whose last look found that the order will cross before  *)
(* its auction ends, ends in a call.                                        *)
CrossingIsSent ==
    [][ \A o \in Orders, k \in Slots :
          tries[o][k].pc = "waiting" /\ tries[o][k].crosses
              => tries'[o][k].pc \in {"waiting", "sending"} ]_vars
=============================================================================
