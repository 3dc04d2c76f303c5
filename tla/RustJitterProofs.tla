-------------------------- MODULE RustJitterProofs --------------------------
(***************************************************************************)
(* Theorems about RustJitter for every number of handlers, order and       *)
(* market.  StartCounts counts the handlers that have looked an order up   *)
(* and not started its try yet together with the tries they started;       *)
(* FillCounts counts the tries that may still send together with what has  *)
(* landed.                                                                 *)
(***************************************************************************)
EXTENDS RustJitter, FiniteSetTheorems, TLAPS

USE RustAssumption

-----------------------------------------------------------------------------
(* Numbers, sets and signatures *)

LEMMA HandlersAreFinite == Cardinality(Handlers) \in Nat /\ Cap \in Nat \ {0}
  BY FS_CardinalityType DEF Cap

LEMMA CappedInRange == \A n \in 0..Cap : Capped(n) \in 0..Cap
  BY HandlersAreFinite DEF Capped

LEMMA SlotsAreFinite == IsFiniteSet(Slots)
<1>1. 1 \in Int /\ Cardinality(Handlers) + 1 \in Int
  BY HandlersAreFinite
<1> QED BY <1>1, FS_Interval DEF Slots

LEMMA SignatureKinds ==
    /\ \A o \in Orders : Chain(o) \in Signatures
    /\ \A o \in SwiftOrders : Swift(o) \in Signatures
    /\ \A o, p : Chain(o) # Swift(p) /\ Chain(o).order = o /\ Swift(o).order = o
    /\ \A o, p : (Chain(o) = Chain(p) => o = p) /\ (Swift(o) = Swift(p) => o = p)
    /\ \A o : Chain(o).via = "chain" /\ Swift(o).via = "swift"
    /\ \A s \in Signatures : /\ s.order \in Orders
                             /\ \/ s = Chain(s.order)
                                \/ s.order \in SwiftOrders /\ s = Swift(s.order)
<1>1. \A o : /\ Chain(o).via = "chain" /\ Swift(o).via = "swift"
             /\ Chain(o).order = o /\ Swift(o).order = o
  BY DEF Chain, Swift
<1>2. \A s \in Signatures : \/ \E o \in Orders : s = Chain(o)
                            \/ \E o \in SwiftOrders : s = Swift(o)
  BY DEF Signatures
<1>3. /\ \A o \in Orders : Chain(o) \in Signatures
      /\ \A o \in SwiftOrders : Swift(o) \in Signatures
  BY DEF Signatures
<1>4. \A o, p : Chain(o) # Swift(p)
  <2>1. "chain" # "swift"
    OBVIOUS
  <2> QED BY <1>1, <2>1
<1>5. SwiftOrders \subseteq Orders
  OBVIOUS
<1>6. \A s \in Signatures : /\ s.order \in Orders
                            /\ \/ s = Chain(s.order)
                               \/ s.order \in SwiftOrders /\ s = Swift(s.order)
  BY <1>1, <1>2, <1>5
<1>7. \A o, p : (Chain(o) = Chain(p) => o = p) /\ (Swift(o) = Swift(p) => o = p)
  BY <1>1
<1> QED
  BY <1>1, <1>3, <1>4, <1>6, <1>7

-----------------------------------------------------------------------------
(* The steps, by what they do to tries and registries *)

(* Nothing is started, sent or answered.                                    *)
Waits == UNCHANGED <<ongoing, tries, started, landed>>

(* One try goes on; landed counts a transaction when it was executed.       *)
MayLand(t) == \/ t.pc \in {"spawned", "sending", "sleeping"}
              \/ t.pc = "answered" /\ t.answer \in {"NoSignature", "Retried"}

GoesOn(s, k) ==
    /\ \E u \in Try :
          /\ Becomes(s, k, u) /\ u.pc # "spawned"
          /\ u.pc # "idle" => /\ tries[s][k].pc # "idle"
                              /\ u.params = tries[s][k].params
          /\ \/ UNCHANGED landed /\ (MayLand(u) => MayLand(tries[s][k]))
             \/ /\ landed' = [landed EXCEPT ![s] = Capped(@)]
                /\ MayLand(tries[s][k]) /\ ~MayLand(u)
    /\ book' \in Book
    /\ UNCHANGED <<settings, ongoing, handlers, stream, started>>

LEMMA RoundSteps ==
    ASSUME Types, NEW s \in Signatures, NEW k \in Slots, NEW i \in Nat,
           Round(s, k, i), MayLand(tries[s][k]),
           UNCHANGED <<book, settings, ongoing, handlers, stream, started, landed>>
    PROVE  GoesOn(s, k)
<1> DEFINE u == IF i >= Duration \/ tries[s][k].params \in Sideless
                THEN NoTry
                ELSE [tries[s][k] EXCEPT !.pc = "sending", !.i = i, !.answer = "None"]
<1>1. tries[s][k] \in Try /\ book' \in Book
  BY DEF Types
<1>2. NoTry \in Try /\ NoTry.pc = "idle"
  BY DEF NoTry, Try, Answers
<1>3. u \in Try /\ u.pc \in {"idle", "sending"}
  BY <1>1, <1>2 DEF Try, Answers
<1>6. u.pc # "idle" => tries[s][k].pc # "idle" /\ u.params = tries[s][k].params
  BY <1>1, <1>2 DEF Try, MayLand
<1>4. Becomes(s, k, u)
  BY DEF Round
<1> HIDE DEF u
<1>5. u.pc # "spawned" /\ UNCHANGED landed /\ (MayLand(u) => MayLand(tries[s][k]))
  BY <1>3
<1> QED BY <1>1, <1>3, <1>4, <1>5, <1>6 DEF GoesOn

LEMMA TryStepKinds ==
    ASSUME Types, NEW s \in Signatures, NEW k \in Slots, TryStep(s, k)
    PROVE  GoesOn(s, k)
<1> DEFINE t == tries[s][k]
<1>1. t \in Try /\ t.i \in Nat /\ book \in Book /\ s.order \in Orders
  BY SignatureKinds DEF Types, Try
<1>2. NoTry \in Try /\ NoTry.pc = "idle"
  BY DEF NoTry, Try, Answers
<1>3. CASE TryBegins(s, k)
  BY <1>3, RoundSteps DEF TryBegins, MayLand
<1>4. CASE Wakes(s, k)
  <2>1. t.i + 1 \in Nat
    BY <1>1
  <2> QED BY <1>4, <2>1, RoundSteps DEF Wakes, MayLand
<1>5. CASE Resumes(s, k)
  <2>1. CASE t.answer = "NoSignature"
    <3>1. t.i + 1 \in Nat
      BY <1>1
    <3> QED BY <1>5, <2>1, <3>1, RoundSteps DEF Resumes, MayLand
  <2>2. CASE t.answer # "NoSignature"
    <3> DEFINE u == IF Retries(t.answer) THEN [t EXCEPT !.pc = "sleeping"] ELSE NoTry
    <3>1. Becomes(s, k, u) /\ t.pc = "answered"
          /\ UNCHANGED <<book, settings, ongoing, handlers, stream, started, landed>>
      BY <1>5, <2>2 DEF Resumes
    <3>2. u \in Try /\ u.pc # "spawned"
      BY <1>1, <1>2 DEF Try
    <3>3. MayLand(u) => MayLand(t)
      BY <1>2, <3>1 DEF MayLand, Retries
    <3>4. u.pc # "idle" => t.pc # "idle" /\ u.params = t.params
      BY <1>1, <1>2, <3>1 DEF Try
    <3> QED BY <1>1, <3>1, <3>2, <3>3, <3>4 DEF GoesOn
  <2> QED BY <2>1, <2>2
<1>6. ASSUME NEW answer \in {"NoSignature", "Retried", "Filled", "Other"},
             Refused(s, k, answer)
      PROVE  GoesOn(s, k)
  <2> DEFINE u == [t EXCEPT !.pc = "answered", !.answer = answer]
  <2>1. u \in Try /\ u.pc = "answered" /\ u.params = t.params
    BY <1>1 DEF Try, Answers
  <2>2. Becomes(s, k, u) /\ MayLand(t) /\ t.pc # "idle"
        /\ UNCHANGED <<book, settings, ongoing, handlers, stream, started, landed>>
    BY <1>6 DEF Refused, Answered, MayLand
  <2> QED BY <1>1, <2>1, <2>2 DEF GoesOn
<1>7. ASSUME NEW phase \in {"open", "closed"}, NEW small \in BOOLEAN,
             NEW answer \in {"Ok", "Other"}, Lands(s, k, phase, small, answer)
      PROVE  GoesOn(s, k)
  <2> DEFINE u == [t EXCEPT !.pc = "answered", !.answer = answer]
  <2>1. u \in Try /\ u.pc = "answered" /\ u.answer = answer /\ u.params = t.params
    BY <1>1 DEF Try, Answers
  <2>2. /\ Becomes(s, k, u) /\ MayLand(t) /\ t.pc # "idle"
        /\ landed' = [landed EXCEPT ![s] = Capped(@)]
        /\ UNCHANGED <<settings, ongoing, handlers, stream, started>>
    BY <1>7 DEF Lands, Answered, MayLand
  <2>3. ~MayLand(u)
    BY <2>1 DEF MayLand
  <2>4. book' \in Book
    BY <1>1, <1>7 DEF Lands, Book
  <2> QED BY <2>1, <2>2, <2>3, <2>4 DEF GoesOn
<1> QED
  BY <1>3, <1>4, <1>5, <1>6, <1>7 DEF TryStep

(* A handler goes on without starting a try.                                *)
HandlerStep(h) ==
    AuctionEvent(h) \/ Looks(h) \/ TakesParams(h) \/ StatsFail(h)

(* A step is one of these.                                                  *)
LEMMA Steps ==
    ASSUME Types, [Next]_vars
    PROVE  \/ Waits /\ UNCHANGED <<settings, handlers, stream>> /\ book' \in Book
           \/ SetExclusion
           \/ \E m \in Markets, value \in Params : UpdateParams(m, value)
           \/ \E h \in Handlers : HandlerStep(h)
           \/ \E h \in Handlers, k \in Slots : StatsArrive(h, k)
           \/ \E o \in SwiftOrders : SwiftEvent(o)
           \/ SwiftEnds
           \/ \E k \in Slots : SwiftStarts(k)
           \/ \E s \in Signatures, k \in Slots : GoesOn(s, k)
<1>1. ASSUME NEW o \in Orders, NEW phase \in {"new", "open", "closed"},
             NEW small \in BOOLEAN, OrderMoves(o, phase, small)
      PROVE  Waits /\ UNCHANGED <<settings, handlers, stream>> /\ book' \in Book
  BY <1>1 DEF OrderMoves, Waits, Types, Book
<1>2. CASE UNCHANGED vars
  BY <1>2 DEF vars, settings, Waits, Types
<1> QED
  BY <1>1, <1>2, TryStepKinds DEF Next, HandlerStep
-----------------------------------------------------------------------------
(* Types *)

LEMMA BecomesOne ==
    ASSUME Types, NEW s \in Signatures, NEW k \in Slots, NEW u \in Try,
           Becomes(s, k, u)
    PROVE  /\ tries' \in [Signatures -> [Slots -> Try]]
           /\ \A t \in Signatures, l \in Slots :
                 tries'[t][l] = IF t = s /\ l = k THEN u ELSE tries[t][l]
  BY DEF Types, Becomes

Spawned(s) == [NoTry EXCEPT !.pc = "spawned", !.params = params[MarketOf[s.order]]]

LEMMA SpawnedFields ==
    ASSUME Types, NEW s \in Signatures
    PROVE  /\ Spawned(s) \in Try
           /\ Spawned(s).pc = "spawned" /\ Spawned(s).params = params[MarketOf[s.order]]
<1>1. params[MarketOf[s.order]] \in Params \cup {None}
  BY SignatureKinds DEF Types
<1> QED BY <1>1 DEF Spawned, NoTry, Try, Answers

LEMMA SpawnOne ==
    ASSUME Types, NEW s \in Signatures, NEW k \in Slots, Spawn(s, k)
    PROVE  /\ tries[s][k].pc = "idle"
           /\ tries' \in [Signatures -> [Slots -> Try]]
           /\ \A t \in Signatures, l \in Slots :
                 tries'[t][l] = IF t = s /\ l = k THEN Spawned(s) ELSE tries[t][l]
           /\ started' \in [Signatures -> 0..Cap]
           /\ \A t \in Signatures :
                 started'[t] = IF t = s THEN Capped(started[s]) ELSE started[t]
<1>1. /\ tries[s][k].pc = "idle" /\ Becomes(s, k, Spawned(s))
      /\ started' = [started EXCEPT ![s] = Capped(@)]
  BY DEF Spawn, Becomes, Spawned
<1>2. Capped(started[s]) \in 0..Cap
  BY CappedInRange DEF Types
<1>3. /\ started' \in [Signatures -> 0..Cap]
      /\ \A t \in Signatures :
            started'[t] = IF t = s THEN Capped(started[s]) ELSE started[t]
  BY <1>1, <1>2 DEF Types
<1> QED
  BY <1>1, <1>3, BecomesOne, SpawnedFields

LEMMA AtNextTypes ==
    ASSUME Types, NEW h \in Handlers, AtNext(h)
    PROVE  /\ handlers' \in [Handlers -> Handler]
           /\ handlers'[h].pc \notin {"params", "stats"}
           /\ \A g \in Handlers : g # h => handlers'[g] = handlers[g]
<1> DEFINE was == handlers[h]
           is  == IF was.at = OrderCount THEN Asleep
                  ELSE [was EXCEPT !.pc = "order", !.at = @ + 1]
<1>1. was \in Handler /\ was.at \in Orders
  BY DEF Types, Handler
<1>2. was.at # OrderCount => was.at + 1 \in Orders
  BY <1>1 DEF Orders
<1>3. 1 \in Orders
  BY DEF Orders
<1>4. is \in Handler /\ is.pc \notin {"params", "stats"}
  <2>1. Asleep \in Handler /\ Asleep.pc = "idle"
    BY <1>3 DEF Asleep, Handler
  <2>2. was.at # OrderCount => is \in Handler /\ is.pc = "order"
    BY <1>1, <1>2 DEF Handler
  <2> QED BY <2>1, <2>2
<1>5. handlers' = [handlers EXCEPT ![h] = is]
  BY DEF AtNext
<1> HIDE DEF is
<1> QED BY <1>4, <1>5 DEF Types

(* Every variable has its type.                                             *)
LEMMA AlwaysTypes == Spec => []Types
<1>1. Init => Types
  <2> SUFFICES ASSUME Init PROVE Types
    OBVIOUS
  <2>1. NoTry \in Try /\ Asleep \in Handler /\ 0 \in 0..Cap
    BY HandlersAreFinite DEF NoTry, Try, Answers, Asleep, Handler, Orders
  <2>2. book \in Book
    BY DEF Init, Book
  <2> QED BY <2>1, <2>2 DEF Init, MakerInit, Types
<1>2. Types /\ [Next]_vars => Types'
  <2> SUFFICES ASSUME Types, [Next]_vars PROVE Types'
    OBVIOUS
  <2>1. CASE Waits /\ UNCHANGED <<settings, handlers, stream>> /\ book' \in Book
    BY <2>1 DEF Waits, settings, Types
  <2>2. CASE SetExclusion
    BY <2>2 DEF SetExclusion, Types
  <2>3. ASSUME NEW m \in Markets, NEW value \in Params, UpdateParams(m, value)
        PROVE  Types'
    BY <2>3 DEF UpdateParams, Types
  <2>4. ASSUME NEW h \in Handlers, HandlerStep(h)
        PROVE  Types'
    <3>1. handlers' \in [Handlers -> Handler]
      <4>0. handlers[h] \in Handler /\ Asleep \in Handler
        BY DEF Types, Asleep, Handler, Orders
      <4>1. CASE AuctionEvent(h)
        <5>1. [pc |-> "order", view |-> book, at |-> 1] \in Handler
          BY DEF Types, Handler, Orders
        <5> QED BY <4>1, <5>1 DEF AuctionEvent, Types
      <4>2. CASE Looks(h) /\ AtNext(h)
        BY <4>2, AtNextTypes
      <4>3. CASE Looks(h) /\ ~AtNext(h)
        <5>1. [handlers[h] EXCEPT !.pc = "params"] \in Handler
          BY <4>0 DEF Handler
        <5>2. handlers' = [handlers EXCEPT ![h] = [handlers[h] EXCEPT !.pc = "params"]]
          BY <4>3 DEF Looks
        <5> QED BY <4>0, <5>1, <5>2 DEF Types
      <4>4. CASE TakesParams(h)
        <5>1. [handlers[h] EXCEPT !.pc = "stats"] \in Handler
          BY <4>0 DEF Handler
        <5>2. \/ handlers' = [handlers EXCEPT ![h] = [handlers[h] EXCEPT !.pc = "stats"]]
              \/ handlers' = [handlers EXCEPT ![h] = Asleep]
          BY <4>4 DEF TakesParams
        <5> QED BY <4>0, <5>1, <5>2 DEF Types
      <4>5. CASE StatsFail(h)
        BY <4>0, <4>5 DEF StatsFail, Types
      <4> QED BY <2>4, <4>1, <4>2, <4>3, <4>4, <4>5 DEF HandlerStep
    <3>2. UNCHANGED <<book, settings, ongoing, stream, tries, started, landed>>
      BY <2>4 DEF HandlerStep, AuctionEvent, Looks, TakesParams, StatsFail
    <3> QED BY <3>1, <3>2 DEF Types, settings
  <2>5. ASSUME NEW h \in Handlers, NEW k \in Slots, StatsArrive(h, k)
        PROVE  Types'
    <3> DEFINE s == Chain(handlers[h].at)
    <3>1. s \in Signatures
      BY SignatureKinds DEF Types, Handler
    <3>2. /\ Spawn(s, k) /\ AtNext(h) /\ ongoing' = ongoing \cup {s}
          /\ UNCHANGED <<book, settings, stream, landed>>
      BY <2>5 DEF StatsArrive
    <3> QED BY <3>1, <3>2, SpawnOne, AtNextTypes DEF Types, settings
  <2>6. ASSUME NEW o \in SwiftOrders, SwiftEvent(o)
        PROVE  Types'
    BY <2>6 DEF SwiftEvent, Types, settings
  <2>7. CASE SwiftEnds
    BY <2>7 DEF SwiftEnds, Types, settings
  <2>8. ASSUME NEW k \in Slots, SwiftStarts(k)
        PROVE  Types'
    <3>1. /\ Swift(stream) \in Signatures /\ Spawn(Swift(stream), k)
          /\ ongoing' = ongoing \cup {Swift(stream)} /\ stream' = None
          /\ UNCHANGED <<book, settings, handlers, landed>>
      BY <2>8, SignatureKinds DEF SwiftStarts, Types
    <3> QED BY <3>1, SpawnOne DEF Types, settings
  <2>9. ASSUME NEW s \in Signatures, NEW k \in Slots, GoesOn(s, k)
        PROVE  Types'
    <3>1. tries' \in [Signatures -> [Slots -> Try]]
      BY <2>9, BecomesOne DEF GoesOn
    <3>2. landed' \in [Signatures -> 0..Cap]
      BY <2>9, CappedInRange DEF GoesOn, Types
    <3> QED BY <2>9, <3>1, <3>2 DEF GoesOn, Types, settings
  <2> QED
    BY <2>1, <2>2, <2>3, <2>4, <2>5, <2>6, <2>7, <2>8, <2>9, Steps
<1>3. QED
  BY <1>1, <1>2, PTL DEF Spec
-----------------------------------------------------------------------------
(* Tries started *)

(* The handlers that found no entry of o and can still start a try of it.   *)
Awaiting(o) == {h \in Handlers : handlers[h].pc \in {"params", "stats"}
                                    /\ handlers[h].at = o}

StartCounts ==
    /\ \A o \in Orders :
          IF Chain(o) \in ongoing
          THEN started[Chain(o)] + Cardinality(Awaiting(o)) <= Cardinality(Handlers)
          ELSE started[Chain(o)] = 0
    /\ \A o \in SwiftOrders :
          IF Swift(o) \in ongoing THEN started[Swift(o)] <= 1 ELSE started[Swift(o)] = 0
    /\ stream # None => Swift(stream) \notin ongoing

LEMMA AwaitingIsFinite ==
    ASSUME NEW o
    PROVE  /\ IsFiniteSet(Awaiting(o)) /\ Cardinality(Awaiting(o)) \in Nat
           /\ Cardinality(Awaiting(o)) <= Cardinality(Handlers)
<1>1. Awaiting(o) \in SUBSET Handlers
  BY DEF Awaiting
<1> QED BY <1>1, FS_Subset, FS_CardinalityType

(* A set does not grow by losing elements.                                  *)
LEMMA FewerAwait ==
    ASSUME NEW o, Awaiting(o)' \subseteq Awaiting(o)
    PROVE  /\ Cardinality(Awaiting(o)') \in Nat
           /\ Cardinality(Awaiting(o)') <= Cardinality(Awaiting(o))
<1> DEFINE before == Awaiting(o)
           after  == Awaiting(o)'
<1>1. IsFiniteSet(before) /\ after \in SUBSET before
  BY AwaitingIsFinite
<1> HIDE DEF before, after
<1>2. Cardinality(after) \in Nat /\ Cardinality(after) <= Cardinality(before)
  BY <1>1, FS_Subset, FS_CardinalityType
<1> QED BY <1>2 DEF before, after

(* A handler comes to await only for an order that has no entry, and with   *)
(* parameters only if they let the order through.                           *)
LEMMA HandlerSteps ==
    ASSUME Types, NEW h \in Handlers, HandlerStep(h)
    PROVE  /\ UNCHANGED <<book, settings, ongoing, stream, tries, started, landed>>
           /\ \A o \in Orders : Awaiting(o)' \subseteq Awaiting(o) \/ Chain(o) \notin ongoing
           /\ \A g \in Handlers :
                 handlers'[g].pc = "stats" =>
                    \/ handlers'[g] = handlers[g]
                    \/ /\ handlers'[g].at = handlers[h].at
                       /\ Wanted(handlers[h].at, handlers[h].view[handlers[h].at].small)
<1> DEFINE at == handlers[h].at
           Ready == Wanted(at, handlers[h].view[at].small)
           Awaits(g) == handlers'[g].pc \in {"params", "stats"}
           Same(g) == handlers'[g] = handlers[g]
           Looked(g) == handlers'[g].pc = "params" /\ Chain(at) \notin ongoing
           Took(g) == /\ handlers'[g].pc = "stats" /\ Ready
                      /\ g = h /\ handlers[g].pc = "params"
<1>1. UNCHANGED <<book, settings, ongoing, stream, tries, started, landed>>
  BY DEF HandlerStep, AuctionEvent, Looks, TakesParams, StatsFail
<1>2. \A g \in Handlers :
         Awaits(g) => Same(g) \/ (handlers'[g].at = at /\ (Looked(g) \/ Took(g)))
  <2>0. handlers[h] \in Handler /\ handlers \in [Handlers -> Handler]
        /\ Asleep.pc = "idle"
    BY DEF Types, Asleep
  <2>1. CASE AuctionEvent(h)
    BY <2>0, <2>1 DEF AuctionEvent
  <2>2. CASE StatsFail(h)
    BY <2>0, <2>2 DEF StatsFail
  <2>3. CASE Looks(h) /\ AtNext(h)
    BY <2>3, AtNextTypes
  <2>4. CASE Looks(h) /\ ~AtNext(h)
    <3>1. /\ [handlers[h] EXCEPT !.pc = "params"].at = at
          /\ [handlers[h] EXCEPT !.pc = "params"].pc = "params"
      BY <2>0 DEF Handler
    <3>2. /\ Chain(at) \notin ongoing
          /\ handlers' = [handlers EXCEPT ![h] = [handlers[h] EXCEPT !.pc = "params"]]
      BY <2>4 DEF Looks
    <3> QED BY <2>0, <3>1, <3>2
  <2>5. CASE TakesParams(h)
    <3>1. /\ [handlers[h] EXCEPT !.pc = "stats"].at = at
          /\ [handlers[h] EXCEPT !.pc = "stats"].pc = "stats"
      BY <2>0 DEF Handler
    <3>2. /\ handlers[h].pc = "params"
          /\ \/ /\ handlers' = [handlers EXCEPT ![h] = [handlers[h] EXCEPT !.pc = "stats"]]
                /\ Ready
             \/ handlers' = [handlers EXCEPT ![h] = Asleep]
      BY <2>5 DEF TakesParams
    <3> HIDE DEF Ready
    <3> QED BY <2>0, <3>1, <3>2
  <2> QED BY <2>1, <2>2, <2>3, <2>4, <2>5 DEF HandlerStep
<1>3. ASSUME NEW o \in Orders, Chain(o) \in ongoing
      PROVE  Awaiting(o)' \subseteq Awaiting(o)
  <2> SUFFICES ASSUME NEW g \in Handlers, Awaits(g), handlers'[g].at = o
               PROVE  handlers[g].pc \in {"params", "stats"} /\ handlers[g].at = o
    BY DEF Awaiting
  <2> HIDE DEF Ready
  <2> QED BY <1>2, <1>3
<1> QED BY <1>1, <1>2, <1>3

(* The handler that starts the try awaits no longer.                        *)
LEMMA OneAwaitsLess ==
    ASSUME Types, NEW h \in Handlers, NEW k \in Slots, StatsArrive(h, k),
           NEW o \in Orders, o = handlers[h].at
    PROVE  /\ \A p : Awaiting(p)' \subseteq Awaiting(p)
           /\ Cardinality(Awaiting(o)') \in Nat
           /\ Cardinality(Awaiting(o)') + 1 <= Cardinality(Awaiting(o))
<1> DEFINE before == Awaiting(o)
           after  == Awaiting(o)'
<1>1. h \in before
  BY DEF Types, Handler, StatsArrive, Awaiting
<1>2. \A g \in Handlers : handlers'[g].pc \in {"params", "stats"}
                              => g # h /\ handlers'[g] = handlers[g]
  BY AtNextTypes DEF StatsArrive
<1>3. \A p : Awaiting(p)' \subseteq Awaiting(p)
  BY <1>2 DEF Awaiting
<1>4. after \in SUBSET (before \ {h})
  BY <1>2, <1>3 DEF Awaiting
<1>5. IsFiniteSet(before) /\ Cardinality(before) \in Nat
  BY AwaitingIsFinite
<1> HIDE DEF before, after
<1>6. IsFiniteSet(before \ {h}) /\ Cardinality(before \ {h}) = Cardinality(before) - 1
  BY <1>1, <1>5, FS_RemoveElement
<1>7. /\ Cardinality(after) \in Nat
      /\ Cardinality(after) <= Cardinality(before \ {h})
  BY <1>4, <1>6, FS_Subset, FS_CardinalityType
<1>8. Cardinality(after) + 1 <= Cardinality(before)
  BY <1>5, <1>6, <1>7
<1> QED BY <1>1, <1>3, <1>7, <1>8 DEF before, after

(* The count of starts is below its cap when a try is spawned.              *)
LEMMA SpawnCounts ==
    ASSUME Types, StartCounts
    PROVE  /\ \A h \in Handlers, k \in Slots :
                 StatsArrive(h, k) =>
                    /\ Chain(handlers[h].at) \in Signatures
                    /\ Spawn(Chain(handlers[h].at), k)
                    /\ Capped(started[Chain(handlers[h].at)])
                          = started[Chain(handlers[h].at)] + 1
           /\ \A k \in Slots :
                 SwiftStarts(k) => /\ Swift(stream) \in Signatures
                                   /\ Spawn(Swift(stream), k)
                                   /\ started[Swift(stream)] = 0
                                   /\ Capped(started[Swift(stream)]) = 1
<1>1. ASSUME NEW h \in Handlers, NEW k \in Slots, StatsArrive(h, k)
      PROVE  /\ Chain(handlers[h].at) \in Signatures
             /\ Spawn(Chain(handlers[h].at), k)
             /\ Capped(started[Chain(handlers[h].at)])
                   = started[Chain(handlers[h].at)] + 1
  <2>0. PICK o \in Orders : o = handlers[h].at
    BY DEF Types, Handler
  <2> DEFINE n == started[Chain(o)]
  <2>1. Chain(o) \in Signatures /\ n \in 0..Cap
    BY SignatureKinds DEF Types
  <2>2. Cardinality(Awaiting(o)) \in Nat \ {0}
    BY <1>1, <2>0, OneAwaitsLess, AwaitingIsFinite
  <2>3. n < Cap
    <3>1. CASE Chain(o) \in ongoing
      <4>1. n + Cardinality(Awaiting(o)) <= Cardinality(Handlers)
        BY <2>1, <3>1 DEF StartCounts
      <4> HIDE DEF n
      <4> QED BY <2>1, <2>2, <4>1, HandlersAreFinite DEF Cap
    <3>2. CASE Chain(o) \notin ongoing
      BY <2>1, <3>2, HandlersAreFinite DEF StartCounts
    <3> QED BY <3>1, <3>2
  <2> QED BY <1>1, <2>0, <2>1, <2>3 DEF Capped, StatsArrive
<1>2. ASSUME NEW k \in Slots, SwiftStarts(k)
      PROVE  /\ Swift(stream) \in Signatures /\ Spawn(Swift(stream), k)
             /\ started[Swift(stream)] = 0 /\ Capped(started[Swift(stream)]) = 1
  <2>1. /\ stream \in SwiftOrders /\ Swift(stream) \notin ongoing
        /\ Swift(stream) \in Signatures /\ Spawn(Swift(stream), k)
    BY <1>2, SignatureKinds DEF SwiftStarts, Types, StartCounts
  <2>2. started[Swift(stream)] = 0
    BY <2>1 DEF StartCounts
  <2> QED BY <2>1, <2>2, HandlersAreFinite DEF Capped
<1> QED BY <1>1, <1>2

LEMMA StepKeepsStartCounts ==
    ASSUME Types, StartCounts, [Next]_vars
    PROVE  StartCounts'
<1>0. /\ \A o \in Orders : Chain(o) \in Signatures /\ started[Chain(o)] \in Nat
      /\ \A o \in SwiftOrders : Swift(o) \in Signatures
  BY SignatureKinds, HandlersAreFinite DEF Types
<1>1. ASSUME UNCHANGED <<ongoing, started>>,
             \/ stream' = stream
             \/ stream' \in SwiftOrders /\ Swift(stream') \notin ongoing
             \/ stream' = None,
             \A o \in Orders : Awaiting(o)' \subseteq Awaiting(o) \/ Chain(o) \notin ongoing
      PROVE  StartCounts'
  <2>1. ASSUME NEW o \in Orders, Chain(o) \in ongoing
        PROVE  started[Chain(o)] + Cardinality(Awaiting(o)') <= Cardinality(Handlers)
    <3>1. started[Chain(o)] + Cardinality(Awaiting(o)) <= Cardinality(Handlers)
      BY <2>1 DEF StartCounts
    <3>2. /\ Cardinality(Awaiting(o)') \in Nat
          /\ Cardinality(Awaiting(o)') <= Cardinality(Awaiting(o))
      BY <1>1, <2>1, FewerAwait
    <3> QED BY <1>0, <3>1, <3>2, AwaitingIsFinite, HandlersAreFinite
  <2> QED BY <1>1, <2>1 DEF StartCounts
<1>2. ASSUME NEW h \in Handlers, HandlerStep(h)
      PROVE  StartCounts'
  BY <1>1, <1>2, HandlerSteps
<1>3. ASSUME NEW h \in Handlers, NEW k \in Slots, StatsArrive(h, k)
      PROVE  StartCounts'
  <2>0. PICK o \in Orders : o = handlers[h].at
    BY DEF Types, Handler
  <2> DEFINE n == started[Chain(o)]
             before == Cardinality(Awaiting(o))
             after  == Cardinality(Awaiting(o)')
             all    == Cardinality(Handlers)
  <2>1. /\ Chain(o) \in Signatures /\ Spawn(Chain(o), k) /\ Capped(n) = n + 1
        /\ ongoing' = ongoing \cup {Chain(o)} /\ stream' = stream
    BY <1>3, <2>0, SpawnCounts DEF StatsArrive
  <2>2. /\ \A p : Awaiting(p)' \subseteq Awaiting(p)
        /\ after \in Nat /\ after + 1 <= before /\ before \in Nat /\ before <= all
    BY <1>3, <2>0, OneAwaitsLess, AwaitingIsFinite
  <2>3. \A s \in Signatures :
           started'[s] = IF s = Chain(o) THEN n + 1 ELSE started[s]
    BY <2>1, SpawnOne
  <2>4. started'[Chain(o)] + after <= all
    <3>1. n \in Nat /\ all \in Nat /\ started'[Chain(o)] = n + 1
      BY <1>0, <2>1, <2>2, <2>3, HandlersAreFinite
    <3>2. n + before <= all
      BY <2>2, <3>1 DEF StartCounts
    <3> HIDE DEF n, before, after, all
    <3> QED BY <2>2, <3>1, <3>2
  <2>5. ASSUME NEW p \in Orders, p # o
        PROVE  IF Chain(p) \in ongoing'
               THEN started'[Chain(p)] + Cardinality(Awaiting(p)') <= Cardinality(Handlers)
               ELSE started'[Chain(p)] = 0
    <3>1. started'[Chain(p)] = started[Chain(p)] /\ (Chain(p) \in ongoing' <=> Chain(p) \in ongoing)
      BY <1>0, <2>1, <2>3, <2>5, SignatureKinds
    <3>2. CASE Chain(p) \in ongoing
      <4>1. started[Chain(p)] + Cardinality(Awaiting(p)) <= Cardinality(Handlers)
        BY <3>2 DEF StartCounts
      <4>2. /\ Cardinality(Awaiting(p)') \in Nat
            /\ Cardinality(Awaiting(p)') <= Cardinality(Awaiting(p))
        BY <2>2, FewerAwait
      <4> QED BY <1>0, <3>1, <3>2, <4>1, <4>2, AwaitingIsFinite, HandlersAreFinite
    <3>3. CASE Chain(p) \notin ongoing
      BY <3>1, <3>3 DEF StartCounts
    <3> QED BY <3>2, <3>3
  <2>6. ASSUME NEW p \in SwiftOrders
        PROVE  /\ started'[Swift(p)] = started[Swift(p)]
               /\ Swift(p) \in ongoing' <=> Swift(p) \in ongoing
    BY <1>0, <2>1, <2>3, SignatureKinds
  <2>7. stream' # None => Swift(stream') \notin ongoing'
    BY <2>1, SignatureKinds DEF StartCounts
  <2>8. Chain(o) \in ongoing'
    BY <2>1
  <2>9. ASSUME NEW p \in Orders
        PROVE  IF Chain(p) \in ongoing'
               THEN started'[Chain(p)] + Cardinality(Awaiting(p)') <= all
               ELSE started'[Chain(p)] = 0
    BY <2>4, <2>5, <2>8
  <2> QED BY <2>6, <2>7, <2>9 DEF StartCounts
<1>4. ASSUME NEW k \in Slots, SwiftStarts(k)
      PROVE  StartCounts'
  <2>1. /\ Swift(stream) \in Signatures /\ Spawn(Swift(stream), k)
        /\ started[Swift(stream)] = 0 /\ Capped(started[Swift(stream)]) = 1
        /\ ongoing' = ongoing \cup {Swift(stream)} /\ stream' = None
        /\ handlers' = handlers
    BY <1>4, SpawnCounts DEF SwiftStarts
  <2>2. \A s \in Signatures :
           started'[s] = IF s = Swift(stream) THEN 1 ELSE started[s]
    BY <2>1, SpawnOne
  <2>3. \A o : Awaiting(o)' = Awaiting(o)
    BY <2>1 DEF Awaiting
  <2>4. \A o \in Orders : /\ started'[Chain(o)] = started[Chain(o)]
                          /\ Chain(o) \in ongoing' <=> Chain(o) \in ongoing
    BY <1>0, <2>1, <2>2, SignatureKinds
  <2>5. ASSUME NEW o \in SwiftOrders
        PROVE  IF Swift(o) \in ongoing' THEN started'[Swift(o)] <= 1
                                        ELSE started'[Swift(o)] = 0
    <3>1. CASE Swift(o) = Swift(stream)
      BY <2>1, <2>2, <3>1
    <3>2. CASE Swift(o) # Swift(stream)
      BY <1>0, <2>1, <2>2, <3>2 DEF StartCounts
    <3> QED BY <3>1, <3>2
  <2> QED BY <2>1, <2>3, <2>4, <2>5 DEF StartCounts
<1>5. ASSUME handlers' = handlers
      PROVE  \A o : Awaiting(o)' \subseteq Awaiting(o)
  BY <1>5 DEF Awaiting
<1>6. CASE Waits /\ UNCHANGED <<settings, handlers, stream>>
  BY <1>1, <1>5, <1>6 DEF Waits
<1>7. CASE SetExclusion \/ \E m \in Markets, value \in Params : UpdateParams(m, value)
  BY <1>1, <1>5, <1>7 DEF SetExclusion, UpdateParams
<1>8. CASE SwiftEnds \/ \E o \in SwiftOrders : SwiftEvent(o)
  BY <1>1, <1>5, <1>8 DEF SwiftEnds, SwiftEvent
<1>9. ASSUME NEW s \in Signatures, NEW k \in Slots, GoesOn(s, k)
      PROVE  StartCounts'
  BY <1>1, <1>5, <1>9 DEF GoesOn
<1> QED
  BY <1>2, <1>3, <1>4, <1>6, <1>7, <1>8, <1>9, Steps

LEMMA AlwaysStartCounts == Spec => []StartCounts
<1>1. Init => StartCounts
  BY SignatureKinds DEF Init, StartCounts
<1>2. Types /\ StartCounts /\ [Next]_vars => StartCounts'
  BY StepKeepsStartCounts
<1>3. QED
  BY <1>1, <1>2, AlwaysTypes, PTL DEF Spec

(* Although the look-up and the entry are apart, an order is tried at most  *)
(* once by each handler that ran at the same time, over any number of       *)
(* events, and at most once by the stream of swift orders.                  *)
THEOREM StartsAreBounded == Spec => []StartsPerSignature
<1>1. Types /\ StartCounts => StartsPerSignature
  <2> SUFFICES ASSUME Types, StartCounts, NEW s \in Signatures
               PROVE  started[s] <= Most(s)
    BY DEF StartsPerSignature
  <2>0. started[s] \in Nat
    BY HandlersAreFinite DEF Types
  <2>1. CASE s = Chain(s.order)
    <3>1. \/ started[s] + Cardinality(Awaiting(s.order)) <= Cardinality(Handlers)
          \/ started[s] = 0
      BY <2>1, SignatureKinds DEF StartCounts
    <3>2. Most(s) = Cardinality(Handlers)
      <4>1. s.via = "chain"
        BY <2>1, SignatureKinds
      <4> QED BY <4>1 DEF Most
    <3> QED BY <2>0, <3>1, <3>2, AwaitingIsFinite, HandlersAreFinite
  <2>2. CASE s.order \in SwiftOrders /\ s = Swift(s.order)
    <3>1. started[s] <= 1
      BY <2>0, <2>2 DEF StartCounts
    <3>2. Most(s) = 1
      <4>1. s.via = "swift"
        BY <2>2, SignatureKinds
      <4> QED BY <4>1 DEF Most
    <3> QED BY <3>1, <3>2
  <2> QED BY <2>1, <2>2, SignatureKinds
<1>2. QED
  BY <1>1, AlwaysStartCounts, AlwaysTypes, PTL
-----------------------------------------------------------------------------
(* Transactions executed *)

(* The tries of s that may still send a transaction.                        *)
Open(s) == {k \in Slots : MayLand(tries[s][k])}

FillCounts == \A s \in Signatures : landed[s] + Cardinality(Open(s)) <= started[s]

LEMMA OpenIsFinite ==
    ASSUME NEW s
    PROVE  IsFiniteSet(Open(s)) /\ Cardinality(Open(s)) \in Nat
<1>1. Open(s) \in SUBSET Slots
  BY DEF Open
<1> QED BY <1>1, SlotsAreFinite, FS_Subset, FS_CardinalityType

LEMMA SpawnKeepsFillCounts ==
    ASSUME Types, FillCounts, NEW s \in Signatures, NEW k \in Slots, Spawn(s, k),
           Capped(started[s]) = started[s] + 1, landed' = landed
    PROVE  FillCounts'
<1>0. \A t \in Signatures : landed[t] \in Nat /\ started[t] \in Nat
  BY HandlersAreFinite DEF Types
<1>1. /\ tries[s][k].pc = "idle"
      /\ \A t \in Signatures, l \in Slots :
            tries'[t][l] = IF t = s /\ l = k THEN Spawned(s) ELSE tries[t][l]
      /\ \A t \in Signatures :
            started'[t] = IF t = s THEN started[s] + 1 ELSE started[t]
  BY SpawnOne
<1>2. ASSUME NEW t \in Signatures, t # s
      PROVE  Open(t)' = Open(t)
  BY <1>1, <1>2 DEF Open
<1> DEFINE before == Open(s)
           after  == Open(s)'
<1>3. after = before \cup {k} /\ k \notin before
  BY <1>1, SpawnedFields DEF Open, MayLand
<1>4. Cardinality(after) = Cardinality(before) + 1 /\ Cardinality(before) \in Nat
  <2>1. IsFiniteSet(before) /\ Cardinality(before) \in Nat
    BY OpenIsFinite
  <2> HIDE DEF before, after
  <2> QED BY <1>3, <2>1, FS_AddElement
<1> HIDE DEF before, after
<1>5. ASSUME NEW t \in Signatures
      PROVE  landed'[t] + Cardinality(Open(t)') <= started'[t]
  <2>1. landed[t] + Cardinality(Open(t)) <= started[t]
    BY DEF FillCounts
  <2>2. CASE t = s
    <3>1. landed[s] + Cardinality(before) <= started[s]
      BY <2>1, <2>2 DEF before
    <3>2. landed'[t] + Cardinality(after) <= started'[t]
      BY <1>0, <1>1, <1>4, <2>2, <3>1
    <3> QED BY <2>2, <3>2 DEF after
  <2>3. CASE t # s
    BY <1>1, <1>2, <2>1, <2>3
  <2> QED BY <2>2, <2>3
<1> QED BY <1>5 DEF FillCounts

LEMMA GoesOnKeepsFillCounts ==
    ASSUME Types, FillCounts, NEW s \in Signatures, NEW k \in Slots, GoesOn(s, k)
    PROVE  FillCounts'
<1>0. \A t \in Signatures : landed[t] \in Nat /\ started[t] \in Nat
  BY HandlersAreFinite DEF Types
<1>1. PICK u \in Try :
         /\ Becomes(s, k, u)
         /\ \/ UNCHANGED landed /\ (MayLand(u) => MayLand(tries[s][k]))
            \/ /\ landed' = [landed EXCEPT ![s] = Capped(@)]
               /\ MayLand(tries[s][k]) /\ ~MayLand(u)
  BY DEF GoesOn
<1>2. \A t \in Signatures, l \in Slots :
         tries'[t][l] = IF t = s /\ l = k THEN u ELSE tries[t][l]
  BY <1>1, BecomesOne
<1>3. started' = started
  BY DEF GoesOn
<1>4. ASSUME NEW t \in Signatures, t # s
      PROVE  Open(t)' = Open(t) /\ landed'[t] = landed[t]
  BY <1>1, <1>2, <1>4 DEF Open, Types
<1> DEFINE before == Open(s)
           after  == Open(s)'
<1>5. landed'[s] + Cardinality(after) <= landed[s] + Cardinality(before)
  <2>1. IsFiniteSet(before) /\ Cardinality(before) \in Nat
    BY OpenIsFinite
  <2>2. CASE UNCHANGED landed /\ (MayLand(u) => MayLand(tries[s][k]))
    <3>1. after \in SUBSET before
      BY <1>2, <2>2 DEF Open
    <3> HIDE DEF before, after
    <3>2. Cardinality(after) \in Nat /\ Cardinality(after) <= Cardinality(before)
      BY <2>1, <3>1, FS_Subset, FS_CardinalityType
    <3> QED BY <1>0, <2>1, <2>2, <3>2
  <2>3. CASE /\ landed' = [landed EXCEPT ![s] = Capped(@)]
             /\ MayLand(tries[s][k]) /\ ~MayLand(u)
    <3>1. after = before \ {k} /\ k \in before
      BY <1>2, <2>3 DEF Open
    <3>2. landed'[s] \in Nat /\ landed'[s] <= landed[s] + 1
      BY <1>0, <2>3, HandlersAreFinite DEF Types, Capped
    <3> HIDE DEF before, after
    <3>3. Cardinality(after) = Cardinality(before) - 1
      BY <2>1, <3>1, FS_RemoveElement
    <3> QED BY <1>0, <2>1, <3>2, <3>3
  <2> QED BY <1>1, <2>2, <2>3
<1>6. ASSUME NEW t \in Signatures
      PROVE  landed'[t] + Cardinality(Open(t)') <= started'[t]
  <2>1. landed[t] + Cardinality(Open(t)) <= started[t]
    BY DEF FillCounts
  <2>2. CASE t = s
    <3>1. landed'[s] \in Nat /\ Cardinality(after) \in Nat /\ Cardinality(before) \in Nat
      <4>1. landed'[s] \in Nat
        BY <1>0, <1>1, HandlersAreFinite DEF Types, Capped
      <4>2. after \in SUBSET Slots
        BY DEF Open
      <4>3. Cardinality(before) \in Nat
        BY OpenIsFinite
      <4> HIDE DEF after, before
      <4>4. Cardinality(after) \in Nat
        BY <4>2, SlotsAreFinite, FS_Subset, FS_CardinalityType
      <4> QED BY <4>1, <4>3, <4>4
    <3>2. landed[s] + Cardinality(before) <= started[s]
      BY <2>1, <2>2
    <3> HIDE DEF after, before
    <3>3. landed'[s] + Cardinality(after) <= started'[s]
      BY <1>0, <1>3, <1>5, <3>1, <3>2
    <3> QED BY <2>2, <3>3 DEF after
  <2>3. CASE t # s
    BY <1>3, <1>4, <2>1, <2>3
  <2> QED BY <2>2, <2>3
<1> QED BY <1>6 DEF FillCounts

LEMMA StepKeepsFillCounts ==
    ASSUME Types, StartCounts, FillCounts, [Next]_vars
    PROVE  FillCounts'
<1>1. ASSUME UNCHANGED <<tries, started, landed>>
      PROVE  FillCounts'
  BY <1>1 DEF FillCounts, Open
<1>2. ASSUME NEW h \in Handlers, NEW k \in Slots, StatsArrive(h, k)
      PROVE  FillCounts'
  BY <1>2, SpawnCounts, SpawnKeepsFillCounts DEF StatsArrive
<1>3. ASSUME NEW k \in Slots, SwiftStarts(k)
      PROVE  FillCounts'
  <2>1. /\ Swift(stream) \in Signatures /\ Spawn(Swift(stream), k)
        /\ Capped(started[Swift(stream)]) = started[Swift(stream)] + 1
        /\ landed' = landed
    <3>1. 1 = 0 + 1
      OBVIOUS
    <3> QED BY <1>3, <3>1, SpawnCounts DEF SwiftStarts
  <2> QED BY <2>1, SpawnKeepsFillCounts
<1>4. ASSUME NEW h \in Handlers, HandlerStep(h)
      PROVE  FillCounts'
  BY <1>1, <1>4, HandlerSteps
<1>5. CASE Waits \/ SetExclusion \/ SwiftEnds \/ \E o \in SwiftOrders : SwiftEvent(o)
  BY <1>1, <1>5 DEF Waits, SetExclusion, SwiftEnds, SwiftEvent
<1>6. CASE \E m \in Markets, value \in Params : UpdateParams(m, value)
  BY <1>1, <1>6 DEF UpdateParams
<1> QED
  BY <1>2, <1>3, <1>4, <1>5, <1>6, GoesOnKeepsFillCounts, Steps

LEMMA AlwaysFillCounts == Spec => []FillCounts
<1>1. Init => FillCounts
  <2> SUFFICES ASSUME Init, NEW s \in Signatures
               PROVE  landed[s] + Cardinality(Open(s)) <= started[s]
    BY DEF FillCounts
  <2>1. landed[s] = 0 /\ started[s] = 0 /\ Open(s) = {}
    BY DEF Init, Open, MayLand, NoTry
  <2> QED BY <2>1, FS_EmptySet
<1>2. Types /\ StartCounts /\ FillCounts /\ [Next]_vars => FillCounts'
  BY StepKeepsFillCounts
<1>3. QED
  BY <1>1, <1>2, AlwaysTypes, AlwaysStartCounts, PTL DEF Spec

(* No more transactions of an order are executed than tries of it were      *)
(* started, because a try that may have filled sends no other.              *)
THEOREM FillsAreBounded == Spec => []FillsPerSignature
<1>1. Types /\ FillCounts /\ StartsPerSignature => FillsPerSignature
  <2> SUFFICES ASSUME Types, FillCounts, StartsPerSignature, NEW s \in Signatures
               PROVE  landed[s] <= Most(s)
    BY DEF FillsPerSignature
  <2>1. landed[s] \in Nat /\ started[s] \in Nat /\ Most(s) \in Nat
    BY HandlersAreFinite DEF Types, Most
  <2>2. /\ landed[s] + Cardinality(Open(s)) <= started[s] /\ started[s] <= Most(s)
        /\ Cardinality(Open(s)) \in Nat
    BY OpenIsFinite DEF FillCounts, StartsPerSignature
  <2> QED BY <2>1, <2>2
<1>2. QED
  BY <1>1, AlwaysFillCounts, StartsAreBounded, AlwaysTypes, PTL

-----------------------------------------------------------------------------
(* The parameters of a try *)

(* While a handler awaits, it holds the parameters it has checked.          *)
CheckedParams ==
    /\ \A h \in Handlers :
          handlers[h].pc = "stats" => params[MarketOf[handlers[h].at]] \in Params \ Refusing
    /\ \A s \in Signatures, k \in Slots :
          tries[s][k].pc # "idle" => tries[s][k].params # None
    /\ StartsWithCheckedParams

LEMMA WantedParams ==
    ASSUME Types, NEW o \in Orders, NEW small, Wanted(o, small)
    PROVE  params[MarketOf[o]] \in Params \ Refusing
  BY DEF Wanted, Types

LEMMA StepKeepsCheckedParams ==
    ASSUME Types, CheckedParams, [Next]_vars
    PROVE  CheckedParams'
<1>1. ASSUME UNCHANGED <<params, handlers, tries>>
      PROVE  CheckedParams'
  BY <1>1 DEF CheckedParams, StartsWithCheckedParams
<1>2. ASSUME NEW s \in Signatures, NEW k \in Slots, Spawn(s, k),
             params[MarketOf[s.order]] \in Params \ Refusing
      PROVE  /\ StartsWithCheckedParams'
             /\ \A t \in Signatures, l \in Slots :
                   tries'[t][l].pc # "idle" => tries'[t][l].params # None
  <2> DEFINE u == Spawned(s)
  <2>1. u.params \in Params \ Refusing /\ u.params # None
    BY <1>2, SpawnedFields
  <2>2. \A t \in Signatures, l \in Slots :
           tries'[t][l] = u \/ tries'[t][l] = tries[t][l]
    BY <1>2, SpawnOne
  <2> HIDE DEF u
  <2> QED BY <2>1, <2>2 DEF CheckedParams, StartsWithCheckedParams
<1>3. ASSUME NEW h \in Handlers, NEW k \in Slots, StatsArrive(h, k)
      PROVE  CheckedParams'
  <2> DEFINE o == handlers[h].at
  <2>1. /\ Chain(o) \in Signatures /\ Spawn(Chain(o), k) /\ params' = params
        /\ params[MarketOf[o]] \in Params \ Refusing /\ Chain(o).order = o
    BY <1>3, SignatureKinds DEF StatsArrive, settings, CheckedParams, Types, Handler
  <2>2. \A g \in Handlers : handlers'[g].pc = "stats" => handlers'[g] = handlers[g]
    BY <1>3, AtNextTypes DEF StatsArrive
  <2>3. /\ StartsWithCheckedParams'
        /\ \A t \in Signatures, l \in Slots :
              tries'[t][l].pc # "idle" => tries'[t][l].params # None
    BY <1>2, <2>1
  <2> QED BY <2>1, <2>2, <2>3 DEF CheckedParams
<1>4. ASSUME NEW k \in Slots, SwiftStarts(k)
      PROVE  CheckedParams'
  <2>1. /\ stream \in Orders /\ Swift(stream) \in Signatures /\ Swift(stream).order = stream
        /\ Spawn(Swift(stream), k) /\ Wanted(stream, FALSE)
        /\ params' = params /\ handlers' = handlers
    BY <1>4, SignatureKinds DEF SwiftStarts, settings, Types
  <2>2. /\ StartsWithCheckedParams'
        /\ \A t \in Signatures, l \in Slots :
              tries'[t][l].pc # "idle" => tries'[t][l].params # None
    BY <1>2, <2>1, WantedParams
  <2> QED BY <2>1, <2>2 DEF CheckedParams
<1>5. ASSUME NEW h \in Handlers, HandlerStep(h)
      PROVE  CheckedParams'
  <2>1. params' = params /\ tries' = tries
    BY <1>5, HandlerSteps DEF settings
  <2>2. ASSUME NEW g \in Handlers, handlers'[g].pc = "stats"
        PROVE  params[MarketOf[handlers'[g].at]] \in Params \ Refusing
    <3>1. CASE handlers'[g] = handlers[g]
      BY <2>2, <3>1 DEF CheckedParams
    <3>2. CASE /\ handlers'[g].at = handlers[h].at
               /\ Wanted(handlers[h].at, handlers[h].view[handlers[h].at].small)
      <4>1. handlers[h].at \in Orders
        BY DEF Types, Handler
      <4> QED BY <3>2, <4>1, WantedParams
    <3> QED BY <1>5, <2>2, <3>1, <3>2, HandlerSteps
  <2> QED BY <2>1, <2>2 DEF CheckedParams, StartsWithCheckedParams
<1>6. ASSUME NEW m \in Markets, NEW value \in Params, UpdateParams(m, value)
      PROVE  CheckedParams'
  <2>1. /\ \A h \in Handlers : handlers[h].pc = "stats" => MarketOf[handlers[h].at] # m
        /\ params' = [params EXCEPT ![m] = value] /\ handlers' = handlers /\ tries' = tries
    BY <1>6 DEF UpdateParams
  <2>2. \A n \in Markets : n # m => params'[n] = params[n]
    BY <2>1 DEF Types
  <2>3. \A h \in Handlers : MarketOf[handlers[h].at] \in Markets
    BY DEF Types, Handler
  <2> QED BY <2>1, <2>2, <2>3 DEF CheckedParams, StartsWithCheckedParams
<1>7. ASSUME NEW s \in Signatures, NEW k \in Slots, GoesOn(s, k)
      PROVE  CheckedParams'
  <2>1. PICK u \in Try : /\ Becomes(s, k, u) /\ u.pc # "spawned"
                         /\ u.pc # "idle" => /\ tries[s][k].pc # "idle"
                                             /\ u.params = tries[s][k].params
    BY <1>7 DEF GoesOn
  <2>2. params' = params /\ handlers' = handlers
    BY <1>7 DEF GoesOn, settings
  <2>3. \A t \in Signatures, l \in Slots :
           tries'[t][l] = IF t = s /\ l = k THEN u ELSE tries[t][l]
    BY <2>1, BecomesOne
  <2>4. u.pc # "idle" => u.params # None
    BY <2>1 DEF CheckedParams
  <2>5. \A t \in Signatures, l \in Slots :
           tries'[t][l].pc # "idle" => tries'[t][l].params # None
    BY <2>3, <2>4 DEF CheckedParams
  <2>6. StartsWithCheckedParams'
    BY <2>1, <2>3 DEF CheckedParams, StartsWithCheckedParams
  <2> QED BY <2>2, <2>5, <2>6 DEF CheckedParams
<1>8. CASE Waits /\ UNCHANGED <<settings, handlers, stream>>
  BY <1>1, <1>8 DEF Waits, settings
<1>9. CASE SetExclusion \/ SwiftEnds \/ \E o \in SwiftOrders : SwiftEvent(o)
  BY <1>1, <1>9 DEF SetExclusion, SwiftEnds, SwiftEvent, settings
<1> QED
  BY <1>3, <1>4, <1>5, <1>6, <1>7, <1>8, <1>9, Steps

LEMMA AlwaysCheckedParams == Spec => []CheckedParams
<1>1. Init => CheckedParams
  BY DEF Init, CheckedParams, StartsWithCheckedParams, NoTry, Asleep
<1>2. Types /\ CheckedParams /\ [Next]_vars => CheckedParams'
  BY StepKeepsCheckedParams
<1>3. QED
  BY <1>1, <1>2, AlwaysTypes, PTL DEF Spec

(* Every variable has its type, a handler that awaits the stats has found   *)
(* parameters and every try was given some: a market without parameters is  *)
(* never tried.                                                             *)
THEOREM RustTypeCorrect == Spec => []TypeOK
<1>1. Types /\ CheckedParams => TypeOK
  BY DEF CheckedParams, Supplied, TypeOK
<1>2. QED
  BY <1>1, AlwaysTypes, AlwaysCheckedParams, PTL

(* A try starts with parameters that let its order through, although they   *)
(* were checked before an await: an update of them waits for the guard.     *)
THEOREM ParamsStayChecked == Spec => []StartsWithCheckedParams
<1>1. CheckedParams => StartsWithCheckedParams
  BY DEF CheckedParams
<1>2. QED
  BY <1>1, AlwaysCheckedParams, PTL
=============================================================================
