----------------------------- MODULE RustJitter -----------------------------
(***************************************************************************)
(* The Rust jitter (rust/src/jitter.rs) with its Shotgun strategy.  Every  *)
(* account event is handled by a tokio task of its own, so handlers of one *)
(* taker's account run at the same time; swift messages are handled one    *)
(* after the other by the task that reads the stream.  A handler looks an  *)
(* order up in ongoing_auctions, awaits the taker's stats, and only then   *)
(* starts the try and inserts the entry; entries are never removed.        *)
(*                                                                         *)
(* While it awaits, the handler of an account event holds the DashMap guard*)
(* of the market's parameters: an update of them blocks its thread until   *)
(* the guard is dropped.  The number of threads is not modelled.           *)
(***************************************************************************)
EXTENDS Integers, FiniteSets

CONSTANTS
    OrderCount,     \* bound: the taker's orders, in the order of its array
    Markets,        \* keys of perp_params and spot_params
    MarketOf,       \* order -> market
    SwiftOrders,    \* perp orders signed off chain
    Handlers,       \* bound: account events handled at the same time
    Params,         \* parameter sets
    Refusing,       \* those whose min_position is above every open amount
    Sideless,       \* those with max_position or min_position 0
    Duration,       \* auction_duration of every order
    None

Orders == 1..OrderCount
Chain(o) == [via |-> "chain", order |-> o]
Swift(o) == [via |-> "swift", order |-> o]
Signatures == {Chain(o) : o \in Orders} \cup {Swift(o) : o \in SwiftOrders}

(* One more than the tries of a signature that can run at the same time.    *)
Slots == 1..(Cardinality(Handlers) + 1)

ASSUME RustAssumption ==
    /\ OrderCount \in Nat \ {0} /\ Duration \in Nat \ {0}
    /\ MarketOf \in [Orders -> Markets] /\ SwiftOrders \subseteq Orders
    /\ IsFiniteSet(Handlers)
    /\ Refusing \cup Sideless \subseteq Params /\ None \notin Params

VARIABLES
    book,       \* the taker's orders on chain
    params,     \* market -> parameter set, or None
    excluding,  \* exclusion_criteria: account events are passed over
    ongoing,    \* keys of ongoing_auctions
    handlers,   \* the tasks of account events
    stream,     \* the swift order the stream's task is at, or None
    tries,      \* signature -> slot -> a spawned try
    started,    \* signature -> tries spawned so far, capped
    landed      \* signature -> transactions executed so far, capped

vars == <<book, params, excluding, ongoing, handlers, stream, tries, started,
          landed>>

(* What only the maker changes.                                             *)
settings == <<params, excluding>>

(* small: less than the minimum order size is unfilled.                     *)
Book    == [Orders -> [phase: {"new", "open", "closed"}, small: BOOLEAN]]
Handler == [pc: {"idle", "order", "params", "stats"}, view: Book \cup {None}, at: Orders]
Asleep  == [pc |-> "idle", view |-> None, at |-> 1]

(* What the loop of a try makes of the client's answer.                     *)
Answers == {"None", "Ok", "NoSignature", "Retried", "Filled", "Other"}
Try     == [pc: {"idle", "spawned", "sending", "answered", "sleeping"},
            i: Nat, params: Params \cup {None}, answer: Answers]
NoTry   == [pc |-> "idle", i |-> 0, params |-> None, answer |-> "None"]

(* Counters stop one above the bound the properties state.                  *)
Cap == Cardinality(Handlers) + 1

Types ==
    /\ book \in Book
    /\ params \in [Markets -> Params \cup {None}]
    /\ excluding \in BOOLEAN
    /\ ongoing \subseteq Signatures
    /\ handlers \in [Handlers -> Handler]
    /\ stream \in SwiftOrders \cup {None}
    /\ tries \in [Signatures -> [Slots -> Try]]
    /\ started \in [Signatures -> 0..Cap] /\ landed \in [Signatures -> 0..Cap]

(* A handler that awaits the stats has found parameters, and every try that *)
(* runs was given some.                                                     *)
Supplied ==
    /\ \A h \in Handlers :
          handlers[h].pc = "stats" => params[MarketOf[handlers[h].at]] # None
    /\ \A s \in Signatures, k \in Slots :
          tries[s][k].pc # "idle" => tries[s][k].params # None

TypeOK == Types /\ Supplied

(* The maker sets parameters of some markets before it subscribes.          *)
MakerInit ==
    /\ params \in [Markets -> Params \cup {None}]
    /\ excluding = FALSE

Init ==
    /\ book = [o \in Orders |-> [phase |-> "new", small |-> FALSE]]
    /\ MakerInit
    /\ ongoing = {}
    /\ handlers = [h \in Handlers |-> Asleep]
    /\ stream = None
    /\ tries = [s \in Signatures |-> [k \in Slots |-> NoTry]]
    /\ started = [s \in Signatures |-> 0] /\ landed = [s \in Signatures |-> 0]

-----------------------------------------------------------------------------
(* The taker and the maker. *)

OrderMoves(o, phase, small) ==
    /\ book[o].phase # "closed"
    /\ book[o].phase = "new" => phase = "open" /\ ~small
    /\ book[o].phase = "open" => phase # "new"
    /\ book[o].small => small
    /\ book' = [book EXCEPT ![o] = [phase |-> phase, small |-> small]]
    /\ book' # book
    /\ UNCHANGED <<settings, ongoing, handlers, stream, tries, started, landed>>

(* Slip: the parameters change under a handler that awaits.                 *)
UpdateParamsAnyTime(m, value) ==
    /\ params[m] # value
    /\ params' = [params EXCEPT ![m] = value]
    /\ UNCHANGED <<book, excluding, ongoing, handlers, stream, tries, started,
                   landed>>

(* set_exclusion_criteria                                                   *)
SetExclusion ==
    /\ excluding' = ~excluding
    /\ UNCHANGED <<book, params, ongoing, handlers, stream, tries, started,
                   landed>>

(* update_perp_params / update_spot_params; the insert waits for guards.    *)
UpdateParams(m, value) ==
    /\ params[m] # value
    /\ \A h \in Handlers :
          handlers[h].pc = "stats" => MarketOf[handlers[h].at] # m
    /\ params' = [params EXCEPT ![m] = value]
    /\ UNCHANGED <<book, excluding, ongoing, handlers, stream, tries, started,
                   landed>>

-----------------------------------------------------------------------------
(* Handlers *)

Capped(n) == IF n < Cap THEN n + 1 ELSE n

(* A spawned try, with a copy of the parameters, in the first free slot.    *)
Spawn(s, k) ==
    /\ tries[s][k].pc = "idle"
    /\ \A l \in 1..(k - 1) : tries[s][l].pc # "idle"
    /\ tries' = [tries EXCEPT ![s][k] =
                   [NoTry EXCEPT !.pc = "spawned",
                                 !.params = params[MarketOf[s.order]]]]
    /\ started' = [started EXCEPT ![s] = Capped(@)]

(* Slip: it is not asked whether there are parameters.                      *)
WantedUnlistened(o, small) == ~small /\ params[MarketOf[o]] \notin Refusing

(* Parameters are there and let the order through.                          *)
Wanted(o, small) == /\ params[MarketOf[o]] # None
                    /\ ~small /\ params[MarketOf[o]] \notin Refusing

AtNext(h) ==
    LET handler == handlers[h]
    IN  handlers' = [handlers EXCEPT ![h] =
                        IF handler.at = OrderCount THEN Asleep
                        ELSE [handler EXCEPT !.pc = "order", !.at = @ + 1]]

(* The subscriber delivers the account as it is; the task may run late.     *)
AuctionEvent(h) ==
    /\ handlers[h].pc = "idle"
    /\ \E o \in Orders : book[o].phase = "open"
    /\ handlers' = [handlers EXCEPT
                       ![h] = [pc |-> "order", view |-> book, at |-> 1]]
    /\ UNCHANGED <<book, settings, ongoing, stream, tries, started, landed>>

(* on_auction, the loop up to the look at ongoing_auctions.                 *)
Looks(h) ==
    LET o == handlers[h].at
    IN  /\ handlers[h].pc = "order"
        /\ IF \/ handlers[h].view[o].phase # "open" \/ excluding
              \/ Chain(o) \in ongoing
           THEN AtNext(h)
           ELSE handlers' = [handlers EXCEPT ![h].pc = "params"]
        /\ UNCHANGED <<book, settings, ongoing, stream, tries, started, landed>>

(* The parameters are looked up on their own, other threads run in between: *)
(* return, or keep the guard and await the taker's stats.                   *)
TakesParams(h) ==
    LET o == handlers[h].at
    IN  /\ handlers[h].pc = "params"
        /\ handlers' = [handlers EXCEPT ![h] =
                           IF Wanted(o, handlers[h].view[o].small)
                           THEN [@ EXCEPT !.pc = "stats"] ELSE Asleep]
        /\ UNCHANGED <<book, settings, ongoing, stream, tries, started, landed>>

(* Slip: the try is spawned without an entry.                               *)
StatsArriveUnentered(h, k) ==
    /\ handlers[h].pc = "stats"
    /\ Spawn(Chain(handlers[h].at), k)
    /\ AtNext(h)
    /\ UNCHANGED <<book, settings, ongoing, stream, landed>>

StatsArrive(h, k) ==
    /\ handlers[h].pc = "stats"
    /\ Spawn(Chain(handlers[h].at), k)
    /\ ongoing' = ongoing \cup {Chain(handlers[h].at)}
    /\ AtNext(h)
    /\ UNCHANGED <<book, settings, stream, landed>>

(* The request fails: the task panics (perp) or returns the error (spot).   *)
StatsFail(h) ==
    /\ handlers[h].pc = "stats"
    /\ handlers' = [handlers EXCEPT ![h] = Asleep]
    /\ UNCHANGED <<book, settings, ongoing, stream, tries, started, landed>>

(* on_swift_order up to the await.                                          *)
SwiftEvent(o) ==
    /\ stream = None /\ Swift(o) \notin ongoing
    /\ stream' = o
    /\ UNCHANGED <<book, settings, ongoing, handlers, tries, started, landed>>

SwiftStarts(k) ==
    /\ stream # None
    /\ Wanted(stream, FALSE)
    /\ Spawn(Swift(stream), k)
    /\ ongoing' = ongoing \cup {Swift(stream)}
    /\ stream' = None
    /\ UNCHANGED <<book, settings, handlers, landed>>

(* The accounts cannot be loaded, or the order is not wanted.               *)
SwiftEnds ==
    /\ stream # None
    /\ stream' = None
    /\ UNCHANGED <<book, settings, ongoing, handlers, tries, started, landed>>

-----------------------------------------------------------------------------
(* Tries *)

Becomes(s, k, try) == tries' = [tries EXCEPT ![s][k] = try]

(* The head of the loop in round i: over, or the parameters have a limit of *)
(* 0, or a transaction is sent.                                             *)
Round(s, k, i) ==
    Becomes(s, k,
        IF i >= Duration \/ tries[s][k].params \in Sideless
        THEN NoTry
        ELSE [tries[s][k] EXCEPT !.pc = "sending", !.i = i, !.answer = "None"])

TryBegins(s, k) ==
    /\ tries[s][k].pc = "spawned"
    /\ Round(s, k, 0)
    /\ UNCHANGED <<book, settings, ongoing, handlers, stream, started, landed>>

Answered(s, k, answer) ==
    Becomes(s, k, [tries[s][k] EXCEPT !.pc = "answered", !.answer = answer])

(* Nothing was executed.                                                    *)
Refused(s, k, answer) ==
    /\ tries[s][k].pc = "sending"
    /\ book[s.order].phase = "closed" => answer # "Retried"
    /\ answer = "Filled" => book[s.order].phase = "closed"
    /\ Answered(s, k, answer)
    /\ UNCHANGED <<book, settings, ongoing, handlers, stream, started, landed>>

(* The transaction was executed; the signature comes back, or an error does *)
(* (a timeout of the confirmation).                                         *)
Lands(s, k, phase, small, answer) ==
    /\ tries[s][k].pc = "sending"
    /\ book[s.order].phase # "closed"
    /\ book[s.order].small => small
    /\ book' = [book EXCEPT ![s.order] = [phase |-> phase, small |-> small]]
    /\ landed' = [landed EXCEPT ![s] = Capped(@)]
    /\ Answered(s, k, answer)
    /\ UNCHANGED <<settings, ongoing, handlers, stream, started>>

(* Slip: any error is retried.                                              *)
RetriesAny(answer) == answer \in {"Retried", "Other"}

(* check_err: None, which means another round.                              *)
Retries(answer) == answer = "Retried"

Resumes(s, k) ==
    LET try == tries[s][k]
    IN  /\ try.pc = "answered"
        /\ IF try.answer = "NoSignature" THEN Round(s, k, try.i + 1)
           ELSE Becomes(s, k, IF Retries(try.answer)
                              THEN [try EXCEPT !.pc = "sleeping"] ELSE NoTry)
        /\ UNCHANGED <<book, settings, ongoing, handlers, stream, started,
                       landed>>

Wakes(s, k) ==
    /\ tries[s][k].pc = "sleeping"
    /\ Round(s, k, tries[s][k].i + 1)
    /\ UNCHANGED <<book, settings, ongoing, handlers, stream, started, landed>>

TryStep(s, k) ==
    \/ TryBegins(s, k) \/ Resumes(s, k) \/ Wakes(s, k)
    \/ \E answer \in {"NoSignature", "Retried", "Filled", "Other"} :
          Refused(s, k, answer)
    \/ \E phase \in {"open", "closed"}, small \in BOOLEAN :
          \E answer \in {"Ok", "Other"} : Lands(s, k, phase, small, answer)

Next ==
    \/ \E o \in Orders, phase \in {"new", "open", "closed"}, small \in BOOLEAN :
          OrderMoves(o, phase, small)
    \/ \E m \in Markets, value \in Params : UpdateParams(m, value)
    \/ SetExclusion
    \/ \E h \in Handlers :
          \/ AuctionEvent(h) \/ Looks(h) \/ TakesParams(h) \/ StatsFail(h)
          \/ \E k \in Slots : StatsArrive(h, k)
    \/ \E o \in SwiftOrders : SwiftEvent(o)
    \/ SwiftEnds \/ \E k \in Slots : SwiftStarts(k)
    \/ \E s \in Signatures, k \in Slots : TryStep(s, k)

Spec == Init /\ [][Next]_vars

-----------------------------------------------------------------------------
(* Properties *)

Most(s) == IF s.via = "chain" THEN Cardinality(Handlers) ELSE 1

(* The check of ongoing_auctions and the insert are apart, so handlers that *)
(* run at the same time can all start a try of an order.  Because entries   *)
(* stay, that is all: over any number of events an order is tried at most   *)
(* once by each handler that ran at the same time, and once by the stream.  *)
StartsPerSignature == \A s \in Signatures : started[s] <= Most(s)

(* The same for transactions executed: a try that may have filled sends no  *)
(* other.                                                                   *)
FillsPerSignature == \A s \in Signatures : landed[s] <= Most(s)

(* A try of an account's order runs with parameters that the checks of its  *)
(* handler were made with, although these checks are before the await.      *)
StartsWithCheckedParams ==
    \A s \in Signatures, k \in Slots :
        tries[s][k].pc = "spawned" => tries[s][k].params \in Params \ Refusing
=============================================================================
