----------------------------- MODULE BaseJitter -----------------------------
(***************************************************************************)
(* What the TypeScript jitters share (ts/sdk/src/jitter/baseJitter.ts): one*)
(* taker's orders as they go through their auctions, the account updates   *)
(* and swift messages that tell the jitter of them, the parameters it was  *)
(* given per market, and the two registries that decide which orders are   *)
(* tried.  JitterShotgun and JitterSniper add what a try does.             *)
(*                                                                         *)
(* JavaScript runs a handler without interruption up to an await; the      *)
(* account handler has none, so it is one step.                            *)
(***************************************************************************)
EXTENDS Integers

CONSTANTS
    OrderCount,     \* bound: the taker's orders, in the order of its array
    Markets,        \* market indexes
    MarketOf,       \* order -> market
    SpotOrders,     \* the orders on spot markets; the others are perp orders
    SwiftOrders,    \* perp orders signed off chain (signed messages)
    Filtered,       \* the orders the user filter rejects
    IgnoreSwift,    \* auctionSubscriberIgnoresSwiftOrders
    PerpValues,     \* parameter sets given through updatePerpParams
    SpotValues,     \* parameter sets given through updateSpotParams
    None            \* not a parameter set, not an update

Orders == 1..OrderCount

ASSUME JitterAssumption ==
    /\ OrderCount \in Nat \ {0}
    /\ MarketOf \in [Orders -> Markets]
    /\ SpotOrders \subseteq Orders /\ SwiftOrders \subseteq Orders \ SpotOrders
    /\ Filtered \subseteq Orders
    /\ IgnoreSwift \in BOOLEAN
    /\ None \notin PerpValues \cup SpotValues
    /\ PerpValues \cap SpotValues = {}

(* An order is known by its id in the taker's account, and a swift order    *)
(* also by the number made of its uuid: two signatures for one order.       *)
Signatures == {[via |-> "chain", order |-> o] : o \in Orders}
                \cup {[via |-> "swift", order |-> o] : o \in SwiftOrders}
Chain(o) == [via |-> "chain", order |-> o]
Swift(o) == [via |-> "swift", order |-> o]

(* An order starts "new", is in its auction, may rest after it, and closes  *)
(* (filled, cancelled or expired).  dust: no more than the minimum order    *)
(* size is unfilled.                                                        *)
Phases   == {"new", "auction", "rests", "closed"}
Book     == [Orders -> [phase: Phases, dust: BOOLEAN]]

VARIABLES
    book,           \* the taker's orders on chain
    update,         \* an account update under way to the jitter, or None
    perpParams,     \* market -> parameter set, or None when not listened to
    spotParams,
    seenOrders,     \* signatures that are not considered again
    onGoingAuctions,\* signatures with an entry in the map of promises
    passedOver      \* how often a handler returned before it got to an
                    \* order it should have considered

baseVars == <<book, update, perpParams, spotParams, seenOrders,
              onGoingAuctions, passedOver>>

BaseTypeOK ==
    /\ book \in Book
    /\ update \in Book \cup {None}
    /\ perpParams \in [Markets -> PerpValues \cup {None}]
    /\ spotParams \in [Markets -> SpotValues \cup {None}]
    /\ seenOrders \subseteq Signatures
    /\ onGoingAuctions \subseteq Signatures
    /\ passedOver \in [Orders -> Nat]

BaseInit ==
    /\ book = [o \in Orders |-> [phase |-> "new", dust |-> FALSE]]
    /\ update = None
    /\ perpParams \in [Markets -> PerpValues \cup {None}]
    /\ spotParams \in [Markets -> SpotValues \cup {None}]
    /\ seenOrders = {} /\ onGoingAuctions = {}
    /\ passedOver = [o \in Orders |-> 0]

-----------------------------------------------------------------------------
(* The taker, the market, and what reaches the jitter. *)

OrderMoves(o, phase, dust) ==
    /\ book[o].phase # "closed"
    /\ \/ book[o].phase = "new" /\ phase = "auction"
       \/ book[o].phase = "auction" /\ phase \in {"auction", "rests", "closed"}
       \/ book[o].phase = "rests" /\ phase \in {"rests", "closed"}
    /\ book[o].dust => dust
    /\ book' = [book EXCEPT ![o] = [phase |-> phase, dust |-> dust]]
    /\ book' # book
    /\ UNCHANGED <<update, perpParams, spotParams, seenOrders,
                   onGoingAuctions, passedOver>>

(* The auction subscriber sends the account as it is now; the handler may   *)
(* run when it has changed again, and a later update replaces one that was  *)
(* not handled yet.                                                         *)
SendUpdate ==
    /\ update # book
    /\ update' = book
    /\ UNCHANGED <<book, perpParams, spotParams, seenOrders, onGoingAuctions,
                   passedOver>>

UpdatePerpParams(m, value) ==
    /\ perpParams[m] # value
    /\ perpParams' = [perpParams EXCEPT ![m] = value]
    /\ UNCHANGED <<book, update, spotParams, seenOrders, onGoingAuctions,
                   passedOver>>

UpdateSpotParams(m, value) ==
    /\ spotParams[m] # value
    /\ spotParams' = [spotParams EXCEPT ![m] = value]
    /\ UNCHANGED <<book, update, perpParams, seenOrders, onGoingAuctions,
                   passedOver>>

Environment ==
    \/ \E o \in Orders, phase \in Phases, dust \in BOOLEAN : OrderMoves(o, phase, dust)
    \/ SendUpdate
    \/ \E m \in Markets, v \in PerpValues : UpdatePerpParams(m, v)
    \/ \E m \in Markets, v \in SpotValues : UpdateSpotParams(m, v)

-----------------------------------------------------------------------------
(* The handler of account updates: a loop over the account's orders, in     *)
(* which some conditions continue with the next order and others return.    *)

Listened(o) == IF o \in SpotOrders THEN spotParams[MarketOf[o]] # None
                                   ELSE perpParams[MarketOf[o]] # None

(* Slip: the swift subscriber's orders are taken from the account as well.  *)
ConsideredAnyway(view, o) == view[o].phase = "auction"

(* Not skipped by the first conditions: open, with an auction price, and    *)
(* not left to the swift subscriber.                                        *)
Considered(view, o) ==
    /\ view[o].phase = "auction"
    /\ ~(IgnoreSwift /\ o \in SwiftOrders)

Fresh(view, o) == Considered(view, o) /\ o \notin Filtered
                                      /\ Chain(o) \notin seenOrders

(* An order that could be tried, were it not already.                       *)
Tryable(view, o) == Listened(o) /\ ~view[o].dust

(* The orders at which the handler returns, whatever comes after them.      *)
Returns(view, o) ==
    \/ Considered(view, o) /\ o \in Filtered
    \/ Fresh(view, o) /\ Chain(o) \notin onGoingAuctions /\ ~Tryable(view, o)

Reached(view) == {o \in Orders : \A before \in 1..(o - 1) : ~Returns(view, before)}

(* Slip: an order is remembered only after the market and size checks.      *)
NotedAfterChecks(view) ==
    {o \in Reached(view) : /\ Fresh(view, o)
                           /\ Chain(o) \in onGoingAuctions \/ Tryable(view, o)}

(* The orders it remembers as seen, and those it starts a try for.          *)
Noted(view)   == {o \in Reached(view) : Fresh(view, o)}
Started(view) == {o \in Noted(view) : /\ Chain(o) \notin onGoingAuctions
                                      /\ Tryable(view, o)}

(* The registries after the handler ran on the update under way.  A try runs*)
(* up to its first await before its entry is made: one of dropped gives up  *)
(* there, and is forgotten before it is entered.                            *)
AccountHandled(dropped) ==
    /\ update # None
    /\ update' = None
    /\ seenOrders' = (seenOrders \cup {Chain(o) : o \in Noted(update)})
                        \ {Chain(o) : o \in dropped}
    /\ onGoingAuctions' = onGoingAuctions \cup {Chain(o) : o \in Started(update)}
    /\ passedOver' = [o \in Orders |->
                        IF Fresh(update, o) /\ o \notin Reached(update)
                        THEN passedOver[o] + 1 ELSE passedOver[o]]
    /\ UNCHANGED <<book, perpParams, spotParams>>

(* The handler of swift messages awaits the taker's account before it looks *)
(* at any of its own state, so what follows is one step too.  A message may *)
(* come before its order is on chain, late, or twice; when the account      *)
(* cannot be loaded it is lost.  One that is small (below the minimum size) *)
(* is noted and returned from, as in a market without parameters.           *)
SwiftStarts(o, small) == /\ Swift(o) \notin onGoingAuctions
                         /\ perpParams[MarketOf[o]] # None
                         /\ ~small

SwiftHandled(o, small) ==
    /\ o \in SwiftOrders /\ o \notin Filtered
    /\ Swift(o) \notin seenOrders
    /\ seenOrders' = seenOrders \cup {Swift(o)}
    /\ onGoingAuctions' = onGoingAuctions \cup
                            (IF SwiftStarts(o, small) THEN {Swift(o)} ELSE {})
    /\ UNCHANGED <<book, update, perpParams, spotParams, passedOver>>

-----------------------------------------------------------------------------
(* What a try's transaction can do, and how a try ends. *)

(* What jit and jitSignedMsg throw, by what both strategies make of it.     *)
Retried == {"BidNotCrossed", "AskNotCrossed", "NoFill", "OracleInvalid"}
Final   == {"TakerOrderNotFound", "PositionLimitBreached", "Timeout"}
Answers == {"None", "Sent"} \cup Retried \cup Final

(* The errors of a transaction that was not executed.  An error of Drift's  *)
(* own may have the code of any of these; an order that is gone is not found*)
(* or its uuid is not, before Drift is called.                              *)
Refusals(o) == IF book[o].phase = "closed" THEN Final ELSE Retried \cup Final

(* How an executed transaction can leave the order; a swift order that is   *)
(* not on chain yet is placed by the same transaction.                      *)
Outcomes(o) ==
    {after \in [phase: {"auction", "rests", "closed"}, dust: BOOLEAN] :
        /\ book[o].phase = "rests" => after.phase # "auction"
        /\ book[o].phase = "new" => after.phase # "rests"
        /\ book[o].dust => after.dust}

(* deleteOnGoingAuction                                                     *)
Forget(s) ==
    /\ onGoingAuctions' = onGoingAuctions \ {s}
    /\ seenOrders' = seenOrders \ {s}
=============================================================================
