--------------------------- MODULE PyJitterProofs ---------------------------
(***************************************************************************)
(* Theorems about PyJitter for every number of orders, auction and length  *)
(* of the queue of updates.  WastedCalls needs the entries of the tries    *)
(* (Entries), and the updates in the queue that still show a closed order  *)
(* in its auction (Wasting).                                               *)
(***************************************************************************)
EXTENDS PyJitter, FiniteSetTheorems, SequenceTheorems, TLAPS

USE PyAssumption

Closed(o)  == book[o].phase = "closed"
Used(o, k) == tries[o][k].pc # "idle"

(* A try that may still make a call when its order is gone.                 *)
MayCall(t) == t.pc = "stats" \/ (t.pc = "answered" /\ Retries(t.answer))

SendsWith(o) == (IF o \in SpotOrders THEN SpotValues ELSE PerpValues) \ Sideless

-----------------------------------------------------------------------------
(* The steps of a try *)

LEMMA BecomesOne ==
    ASSUME TypeOK, NEW o \in Orders, NEW k \in Slots, NEW u \in Try,
           Becomes(o, k, u)
    PROVE  /\ tries' \in [Orders -> [Slots -> Try]]
           /\ \A p \in Orders, l \in Slots :
                 tries'[p][l] = IF p = o /\ l = k THEN u ELSE tries[p][l]
  BY DEF TypeOK, Becomes

LEMMA IdleFields ==
    /\ Idle \in Try /\ Idle.pc = "idle"
    /\ \A pc \in {"stats", "sending", "answered", "cooldown", "waiting", "died"} :
          [Idle EXCEPT !.pc = pc] \in Try /\ [Idle EXCEPT !.pc = pc].pc = pc
  BY DEF Idle, Try

(* A try goes on with u, without a call, or with one.                       *)
GoesOn(o, k) ==
    /\ Used(o, k)
    /\ \E u \in Try :
          /\ Becomes(o, k, u) /\ u.pc # "idle"
          /\ \/ /\ u.pc # "sending" /\ UNCHANGED wasted
                /\ MayCall(u) => MayCall(tries[o][k]) \/ ~Closed(o)
             \/ /\ u.pc = "sending" /\ u.params \in SendsWith(o)
                /\ MayCall(tries[o][k])
                /\ wasted' = [wasted EXCEPT ![o] = IF Closed(o) THEN @ + 1 ELSE @]
    /\ book' \in Book /\ changed' \in BOOLEAN
    /\ \A p \in Orders : Closed(p) => book'[p].phase = "closed"
    /\ UNCHANGED <<over, bot>>

ParamsSet == \A o \in ongoing_auctions : ParamsOf(o) # None

Entries ==
    \A o \in Orders : /\ ~(Used(o, 1) /\ Used(o, 2))
                      /\ o \in ongoing_auctions <=> \E k \in Slots : Used(o, k)

LEMMA ParamsOfType ==
    ASSUME TypeOK, NEW o \in Orders
    PROVE  ParamsOf(o) \in (IF o \in SpotOrders THEN SpotValues ELSE PerpValues) \cup {None}
  BY DEF ParamsOf, TypeOK

LEMMA NextCallSteps ==
    ASSUME TypeOK, ParamsSet, Entries, NEW o \in Orders, NEW k \in Slots,
           NEW i \in Nat, NextCall(o, k, i), MayCall(tries[o][k])
    PROVE  Used(o, k) /\ (Ends(o, k) \/ GoesOn(o, k))
<1> DEFINE params == ParamsOf(o)
           u == [Idle EXCEPT !.pc = "sending", !.i = i, !.params = params]
<1>1. Used(o, k)
  BY DEF MayCall, Used
<1>2. params \in (IF o \in SpotOrders THEN SpotValues ELSE PerpValues)
  BY <1>1, ParamsOfType DEF ParamsSet, Entries
<1>3. CASE i >= Duration[o] \/ params \in Sideless
  BY <1>1, <1>3 DEF NextCall
<1>4. CASE ~(i >= Duration[o] \/ params \in Sideless)
  <2>1. /\ Becomes(o, k, u) /\ UNCHANGED <<chain, bot>>
        /\ wasted' = [wasted EXCEPT ![o] = IF Closed(o) THEN @ + 1 ELSE @]
    BY <1>4 DEF NextCall, Closed
  <2>2. u \in Try /\ u.pc = "sending" /\ u.params = params
    BY <1>2 DEF Idle, Try
  <2>3. /\ book' \in Book /\ changed' \in BOOLEAN /\ UNCHANGED <<over, bot>>
        /\ \A p \in Orders : Closed(p) => book'[p].phase = "closed"
    BY <2>1 DEF TypeOK, chain, Closed
  <2>4. u.params \in SendsWith(o)
    BY <1>2, <1>4, <2>2 DEF SendsWith
  <2> HIDE DEF u
  <2> QED BY <1>1, <2>1, <2>2, <2>3, <2>4 DEF GoesOn
<1> QED BY <1>3, <1>4

LEMMA ContinuesGoesOn ==
    ASSUME TypeOK, NEW o \in Orders, NEW k \in Slots, NEW u \in Try,
           Used(o, k), Continues(o, k, u), u.pc \notin {"idle", "sending"},
           MayCall(u) => MayCall(tries[o][k]) \/ ~Closed(o)
    PROVE  GoesOn(o, k)
<1>1. Becomes(o, k, u) /\ UNCHANGED <<chain, bot, wasted>>
  BY DEF Continues
<1>2. /\ book' \in Book /\ changed' \in BOOLEAN /\ UNCHANGED <<over, bot>>
      /\ \A p \in Orders : Closed(p) => book'[p].phase = "closed"
  BY <1>1 DEF TypeOK, chain, Closed
<1> QED BY <1>1, <1>2 DEF GoesOn

LEMMA TryStepKinds ==
    ASSUME TypeOK, ParamsSet, Entries, NEW o \in Orders, NEW k \in Slots,
           TryStep(o, k)
    PROVE  Used(o, k) /\ (Ends(o, k) \/ GoesOn(o, k))
<1> DEFINE t == tries[o][k]
<1>1. t \in Try /\ t.i \in Nat
  BY DEF TypeOK, Try
<1>2. CASE StatsLoaded(o, k)
  BY <1>2, NextCallSteps DEF StatsLoaded, MayCall
<1>3. ASSUME Dies(o, k), Used(o, k)
      PROVE  GoesOn(o, k)
  <2>1. ~MayCall([Idle EXCEPT !.pc = "died"])
    BY IdleFields DEF MayCall
  <2> QED BY <1>3, <2>1, IdleFields, ContinuesGoesOn DEF Dies
<1>4. CASE StatsFailed(o, k)
  BY <1>3, <1>4 DEF StatsFailed, Used
<1>5. ASSUME NEW answer \in Answers, Refused(o, k, answer)
      PROVE  Used(o, k) /\ GoesOn(o, k)
  <2> DEFINE u == Answered(t, answer)
  <2>1. u \in Try /\ u.pc = "answered" /\ u.answer = answer
    BY <1>1 DEF Answered, Idle, Try
  <2>2. /\ Used(o, k) /\ Continues(o, k, u)
        /\ Closed(o) => answer # "Retry"
    BY <1>5 DEF Refused, Used, Closed
  <2>3. MayCall(u) => ~Closed(o)
    BY <2>1, <2>2 DEF MayCall, Retries
  <2> HIDE DEF u
  <2> QED BY <2>1, <2>2, <2>3, ContinuesGoesOn
<1>6. ASSUME NEW phase \in Phases, NEW dust \in BOOLEAN, Lands(o, k, phase, dust)
      PROVE  Used(o, k) /\ GoesOn(o, k)
  <2> DEFINE u == Answered(t, "Settled")
  <2>1. u \in Try /\ u.pc = "answered" /\ u.answer = "Settled"
    BY <1>1 DEF Answered, Idle, Try, Answers
  <2>2. /\ Used(o, k) /\ Becomes(o, k, u) /\ UNCHANGED <<over, bot, wasted>>
        /\ book' = [book EXCEPT ![o] = Order(phase, dust)]
        /\ ~Closed(o) /\ changed' = (changed \/ book' # book)
    BY <1>6 DEF Lands, Used, Closed
  <2>3. changed' \in BOOLEAN
    BY <2>2 DEF TypeOK
  <2>4. book' \in Book /\ \A p \in Orders : Closed(p) => book'[p].phase = "closed"
    BY <2>2 DEF TypeOK, Book, Order, Closed
  <2>5. ~MayCall(u)
    BY <2>1 DEF MayCall, Retries
  <2> HIDE DEF u
  <2> QED BY <2>1, <2>2, <2>3, <2>4, <2>5 DEF GoesOn
<1>7. CASE Resumes(o, k)
  <2>0. t.pc = "answered" /\ Used(o, k)
    BY <1>7 DEF Resumes, Used
  <2>1. CASE Retries(t.answer)
    <3>1. NextCall(o, k, t.i + 1) /\ t.i + 1 \in Nat /\ MayCall(t)
      BY <1>1, <1>7, <2>1 DEF Resumes, MayCall
    <3> QED BY <3>1, NextCallSteps
  <2>2. CASE ~Retries(t.answer)
    <3>1. Ends(o, k) \/ Continues(o, k, [Idle EXCEPT !.pc = "cooldown"])
      BY <1>7, <2>2 DEF Resumes
    <3>2. ~MayCall([Idle EXCEPT !.pc = "cooldown"])
      BY IdleFields DEF MayCall
    <3> QED BY <2>0, <3>1, <3>2, IdleFields, ContinuesGoesOn
  <2> QED BY <2>1, <2>2
<1>8. CASE Wakes(o, k)
  BY <1>8 DEF Wakes, Used
<1>9. ASSUME NEW crosses \in BOOLEAN, SniperLooks(o, k, crosses)
      PROVE  Used(o, k) /\ (Ends(o, k) \/ GoesOn(o, k))
  <2> DEFINE u == [Idle EXCEPT !.pc = "waiting", !.crosses = crosses]
  <2>1. Used(o, k) /\ (Dies(o, k) \/ Ends(o, k) \/ Continues(o, k, u))
    BY <1>9 DEF SniperLooks, Used
  <2>2. u \in Try /\ u.pc = "waiting"
    BY DEF Idle, Try
  <2>3. ~MayCall(u)
    BY <2>2 DEF MayCall
  <2> HIDE DEF u
  <2> QED BY <1>3, <2>1, <2>2, <2>3, ContinuesGoesOn
<1>10. ASSUME NEW crosses \in BOOLEAN, WaitLooks(o, k, crosses)
       PROVE  Used(o, k) /\ (Ends(o, k) \/ GoesOn(o, k))
  <2> DEFINE u == [t EXCEPT !.crosses = crosses]
  <2>1. t.pc = "waiting" /\ Used(o, k) /\ (Ends(o, k) \/ Continues(o, k, u))
    BY <1>10 DEF WaitLooks, Used
  <2>2. u \in Try /\ u.pc = "waiting"
    BY <1>1, <2>1 DEF Try
  <2>3. ~MayCall(u)
    BY <2>2 DEF MayCall
  <2> HIDE DEF u
  <2> QED BY <2>1, <2>2, <2>3, ContinuesGoesOn
<1> QED
  BY <1>2, <1>4, <1>5, <1>6, <1>7, <1>8, <1>9, <1>10 DEF TryStep
-----------------------------------------------------------------------------
(* The other steps *)

(* The taker's orders move: none that is closed is opened again.            *)
AccountMoves ==
    /\ book' \in Book /\ over' \subseteq Orders /\ changed' \in BOOLEAN
    /\ \A p \in Orders : Closed(p) => book'[p].phase = "closed"
    /\ UNCHANGED <<bot, tries, wasted>>

ParamsMove ==
    /\ perp_params' \in [Markets -> PerpValues \cup {None}]
    /\ spot_params' \in [Markets -> SpotValues \cup {None}]
    /\ \A o \in Orders : ParamsOf(o) # None => ParamsOf(o)' # None
    /\ UNCHANGED <<chain, strategy, updates, ongoing_auctions, tries, wasted>>

LEMMA Steps ==
    ASSUME TypeOK, ParamsSet, Entries, [Next]_vars
    PROVE  \/ AccountMoves \/ ParamsMove \/ Reports \/ OnAccountUpdate
           \/ \E o \in Orders, k \in Slots : Used(o, k) /\ (Ends(o, k) \/ GoesOn(o, k))
<1>1. ASSUME NEW o \in Orders, NEW phase \in Phases, NEW dust \in BOOLEAN,
             OrderMoves(o, phase, dust)
      PROVE  AccountMoves
  BY <1>1 DEF OrderMoves, Order, AccountMoves, TypeOK, Book, Closed
<1>6. ASSUME NEW o \in Orders, LastSlot(o)
      PROVE  AccountMoves
  BY <1>6 DEF LastSlot, AccountMoves, TypeOK, Closed
<1>2. ASSUME NEW o \in Orders, AuctionEnds(o)
      PROVE  AccountMoves
  <2>1. book[o].phase = "auction" /\ book' = [book EXCEPT ![o].phase = "rests"]
    BY <1>2 DEF AuctionEnds
  <2>2. book' \in Book /\ \A p \in Orders : Closed(p) => book'[p].phase = "closed"
    <3>0. /\ book \in Book /\ book[o] \in [phase: Phases, dust: BOOLEAN]
          /\ "rests" \in Phases
      BY DEF TypeOK, Book, Phases
    <3>1. [book[o] EXCEPT !.phase = "rests"] \in [phase: Phases, dust: BOOLEAN]
      BY <3>0
    <3>2. ~Closed(o) /\ book' = [book EXCEPT ![o] = [book[o] EXCEPT !.phase = "rests"]]
      BY <2>1 DEF Closed
    <3>3. book' \in Book
      BY <3>0, <3>1, <3>2 DEF Book
    <3>4. \A p \in Orders : p # o => book'[p] = book[p]
      BY <3>0, <3>2 DEF Book
    <3> QED BY <3>2, <3>3, <3>4 DEF Closed
  <2> QED BY <1>2, <2>2 DEF AuctionEnds, AccountMoves, TypeOK
<1>3. CASE UNCHANGED vars
  BY <1>3 DEF vars, bot, AccountMoves, TypeOK, Closed
<1>4. ASSUME NEW m \in Markets, NEW v \in PerpValues, UpdatePerpParams(m, v)
      PROVE  ParamsMove
  BY <1>4 DEF UpdatePerpParams, ParamsMove, ParamsOf, TypeOK
<1>5. ASSUME NEW m \in Markets, NEW v \in SpotValues, UpdateSpotParams(m, v)
      PROVE  ParamsMove
  BY <1>5 DEF UpdateSpotParams, ParamsMove, ParamsOf, TypeOK
<1> QED
  BY <1>1, <1>2, <1>3, <1>4, <1>5, <1>6, TryStepKinds DEF Next

(* The handler starts tries in free slots, for orders without an entry.     *)
LEMMA HandlerStarts ==
    ASSUME TypeOK, Entries, OnAccountUpdate
    PROVE  /\ Started(Head(updates)) \subseteq Orders \ ongoing_auctions
           /\ tries' \in [Orders -> [Slots -> Try]]
           /\ \A o \in Orders, l \in Slots :
                 tries'[o][l] = IF o \in Started(Head(updates)) /\ l = 1
                                THEN [Idle EXCEPT !.pc = "stats"] ELSE tries[o][l]
           /\ \A o \in Started(Head(updates)), l \in Slots : tries[o][l].pc = "idle"
<1> DEFINE new == Started(Head(updates))
<1>1. new \subseteq Orders \ ongoing_auctions
  BY DEF Started, Reached
<1>2. \A o \in new, l \in Slots : tries[o][l].pc = "idle"
  BY <1>1 DEF Entries, Used
<1>3. \A o \in new : FreeSlot(o) = 1
  BY <1>2 DEF FreeSlot
<1>4. [Idle EXCEPT !.pc = "stats"] \in Try
  BY IdleFields
<1>5. tries' = [o \in Orders |->
                  IF o \in new
                  THEN [tries[o] EXCEPT ![FreeSlot(o)] = [Idle EXCEPT !.pc = "stats"]]
                  ELSE tries[o]]
  BY DEF OnAccountUpdate
<1> HIDE DEF new
<1>6. ASSUME NEW o \in Orders
      PROVE  /\ tries'[o] \in [Slots -> Try]
             /\ \A l \in Slots : tries'[o][l] = IF o \in new /\ l = 1
                                   THEN [Idle EXCEPT !.pc = "stats"] ELSE tries[o][l]
  <2>1. CASE o \in new
    <3>1. tries'[o] = [tries[o] EXCEPT ![1] = [Idle EXCEPT !.pc = "stats"]]
      BY <1>3, <1>5, <2>1
    <3> QED BY <1>4, <2>1, <3>1 DEF TypeOK
  <2>2. CASE o \notin new
    BY <1>5, <2>2 DEF TypeOK
  <2> QED BY <2>1, <2>2
<1>7. tries' \in [Orders -> [Slots -> Try]]
  BY <1>5, <1>6
<1> QED BY <1>1, <1>2, <1>6, <1>7 DEF new

LEMMA HandlerParams ==
    ASSUME NEW view, NEW o \in Started(view)
    PROVE  ParamsOf(o) # None /\ view[o].phase = "auction"
  BY DEF Started, Returns, Considered

-----------------------------------------------------------------------------
(* Types, parameters and entries *)

Core == TypeOK /\ ParamsSet /\ Entries

LEMMA StepKeepsCore ==
    ASSUME Core, [Next]_vars
    PROVE  Core'
<1>0. /\ TypeOK /\ ParamsSet /\ Entries
      /\ 1 \in Slots /\ 2 \in Slots /\ \A k \in Slots : k = 1 \/ k = 2
  BY DEF Core
<1>1. CASE AccountMoves
  <2>1. UNCHANGED <<strategy, updates, perp_params, spot_params, ongoing_auctions,
                    tries, wasted>>
    BY <1>1 DEF AccountMoves, bot
  <2>2. ParamsSet' /\ Entries'
    BY <1>0, <2>1 DEF ParamsSet, ParamsOf, Entries, Used
  <2>3. TypeOK'
    BY <1>0, <1>1, <2>1 DEF AccountMoves, TypeOK
  <2> QED BY <2>2, <2>3 DEF Core
<1>2. CASE ParamsMove
  <2>1. UNCHANGED <<book, over, changed, strategy, updates, ongoing_auctions, tries,
                    wasted>>
    BY <1>2 DEF ParamsMove, chain
  <2>2. ParamsSet' /\ Entries'
    BY <1>0, <1>2, <2>1 DEF ParamsMove, ParamsSet, Entries, Used, TypeOK
  <2>3. TypeOK'
    BY <1>0, <1>2, <2>1 DEF ParamsMove, TypeOK
  <2> QED BY <2>2, <2>3 DEF Core
<1>3. CASE Reports
  <2>1. UNCHANGED <<book, over, strategy, perp_params, spot_params, ongoing_auctions,
                    tries, wasted>> /\ changed' = FALSE
    BY <1>3 DEF Reports
  <2>2. updates' \in Seq(Book) /\ Len(updates') <= Backlog
    BY <1>0, <1>3, AppendProperties DEF Reports, TypeOK
  <2>3. ParamsSet' /\ Entries'
    BY <1>0, <2>1 DEF ParamsSet, ParamsOf, Entries, Used
  <2>4. TypeOK'
    BY <1>0, <2>1, <2>2 DEF TypeOK
  <2> QED BY <2>3, <2>4 DEF Core
<1>4. CASE OnAccountUpdate
  <2> DEFINE new == Started(Head(updates))
  <2>1. /\ UNCHANGED <<book, over, changed, strategy, perp_params, spot_params, wasted>>
        /\ ongoing_auctions' = ongoing_auctions \cup new
        /\ updates # <<>> /\ updates' = Tail(updates)
    BY <1>4 DEF OnAccountUpdate, chain
  <2>2. /\ new \subseteq Orders \ ongoing_auctions
        /\ tries' \in [Orders -> [Slots -> Try]]
        /\ \A o \in Orders, l \in Slots :
              tries'[o][l] = IF o \in new /\ l = 1
                             THEN [Idle EXCEPT !.pc = "stats"] ELSE tries[o][l]
        /\ \A o \in new, l \in Slots : tries[o][l].pc = "idle"
        /\ \A o \in new : ParamsOf(o) # None
    BY <1>0, <1>4, HandlerStarts, HandlerParams
  <2> HIDE DEF new
  <2>3. updates' \in Seq(Book) /\ Len(updates') <= Backlog
    BY <1>0, <2>1, HeadTailProperties DEF TypeOK
  <2>4. ParamsSet'
    BY <1>0, <2>1, <2>2 DEF ParamsSet, ParamsOf
  <2>5. \A o \in Orders, l \in Slots : Used(o, l)' <=> Used(o, l) \/ (o \in new /\ l = 1)
    BY <2>2, IdleFields DEF Used
  <2>6. \A o \in new, l \in Slots : ~Used(o, l)
    BY <2>2 DEF Used
  <2>7. Entries'
    BY <1>0, <2>1, <2>2, <2>5, <2>6 DEF Entries
  <2>8. \A o \in Orders, l \in Slots :
           tries'[o][l].pc = "sending" => tries'[o][l] = tries[o][l]
    BY <2>2, IdleFields
  <2>9. TypeOK'
    BY <1>0, <2>1, <2>2, <2>3, <2>8 DEF TypeOK
  <2> QED BY <2>4, <2>7, <2>9 DEF Core
<1>5. ASSUME NEW o \in Orders, NEW k \in Slots, Used(o, k), Ends(o, k)
      PROVE  Core'
  <2>1. /\ UNCHANGED <<book, over, changed, strategy, updates, perp_params, spot_params,
                       wasted>>
        /\ ongoing_auctions' = ongoing_auctions \ {o} /\ Becomes(o, k, Idle)
    BY <1>5 DEF Ends, chain
  <2>2. /\ tries' \in [Orders -> [Slots -> Try]]
        /\ \A p \in Orders, l \in Slots :
              tries'[p][l] = IF p = o /\ l = k THEN Idle ELSE tries[p][l]
    BY <1>0, <2>1, IdleFields, BecomesOne
  <2>3. \A p \in Orders, l \in Slots : Used(p, l)' <=> Used(p, l) /\ ~(p = o /\ l = k)
    BY <2>2, IdleFields DEF Used
  <2>4. \A l \in Slots : ~Used(o, l)'
    BY <1>0, <1>5, <2>3 DEF Entries
  <2>5. Entries'
    BY <1>0, <2>1, <2>3, <2>4 DEF Entries
  <2>6. ParamsSet'
    BY <1>0, <2>1 DEF ParamsSet, ParamsOf
  <2>7. TypeOK'
    <3>1. \A p \in Orders, l \in Slots :
             tries'[p][l].pc = "sending" => tries'[p][l] = tries[p][l]
      BY <2>2, IdleFields
    <3>2. ongoing_auctions' \subseteq Orders
      BY <1>0, <2>1 DEF TypeOK
    <3> QED BY <1>0, <2>1, <2>2, <3>1, <3>2 DEF TypeOK
  <2> QED BY <2>5, <2>6, <2>7 DEF Core
<1>6. ASSUME NEW o \in Orders, NEW k \in Slots, GoesOn(o, k)
      PROVE  Core'
  <2>1. PICK u \in Try :
           /\ Becomes(o, k, u) /\ u.pc # "idle"
           /\ u.pc = "sending" => u.params \in SendsWith(o)
           /\ \/ UNCHANGED wasted
              \/ wasted' = [wasted EXCEPT ![o] = IF Closed(o) THEN @ + 1 ELSE @]
    BY <1>6 DEF GoesOn
  <2>2. /\ book' \in Book /\ changed' \in BOOLEAN /\ Used(o, k)
        /\ UNCHANGED <<over, strategy, updates, perp_params, spot_params,
                       ongoing_auctions>>
    BY <1>6 DEF GoesOn, bot
  <2>3. /\ tries' \in [Orders -> [Slots -> Try]]
        /\ \A p \in Orders, l \in Slots :
              tries'[p][l] = IF p = o /\ l = k THEN u ELSE tries[p][l]
    BY <1>0, <2>1, BecomesOne
  <2>4. \A p \in Orders, l \in Slots : Used(p, l)' <=> Used(p, l)
    BY <2>1, <2>2, <2>3 DEF Used
  <2>5. ParamsSet' /\ Entries'
    BY <1>0, <2>2, <2>4 DEF ParamsSet, ParamsOf, Entries
  <2>6. wasted' \in [Orders -> Nat]
    <3>1. wasted \in [Orders -> Nat] /\ wasted[o] + 1 \in Nat
      BY <1>0 DEF TypeOK
    <3>2. \/ wasted' = wasted
          \/ wasted' = [wasted EXCEPT ![o] = wasted[o] + 1]
          \/ wasted' = [wasted EXCEPT ![o] = wasted[o]]
      BY <2>1
    <3> QED BY <3>1, <3>2
  <2>7. \A p \in Orders, l \in Slots :
           tries'[p][l].pc = "sending" => tries'[p][l].params \in SendsWith(p)
    <3>1. \A p \in Orders, l \in Slots :
             tries[p][l].pc = "sending" => tries[p][l].params \in SendsWith(p)
      BY <1>0 DEF TypeOK, SendsWith
    <3> QED BY <2>1, <2>3, <3>1
  <2>8. TypeOK'
    BY <1>0, <2>2, <2>3, <2>6, <2>7 DEF TypeOK, SendsWith
  <2> QED BY <2>5, <2>8 DEF Core
<1> QED
  BY <1>0, <1>1, <1>2, <1>3, <1>4, <1>5, <1>6, Steps

LEMMA AlwaysCore == Spec => []Core
<1>1. Init => Core
  <2> SUFFICES ASSUME Init PROVE Core
    OBVIOUS
  <2>1. book \in Book /\ \A o \in Orders, k \in Slots : tries[o][k] = Idle
    BY DEF Init, Book, Phases
  <2>2. ParamsSet /\ Entries
    BY <2>1, IdleFields DEF Init, ParamsSet, Entries, Used
  <2>3. updates \in Seq(Book) /\ Len(updates) <= Backlog
    BY DEF Init
  <2>4. tries \in [Orders -> [Slots -> Try]]
    BY IdleFields DEF Init
  <2>5. TypeOK
    BY <2>1, <2>3, <2>4, IdleFields DEF Init, TypeOK
  <2> QED BY <2>2, <2>5 DEF Core
<1>2. Core /\ [Next]_vars => Core'
  BY StepKeepsCore
<1>3. QED
  BY <1>1, <1>2, PTL DEF Spec

(* Calls are made with parameters of the order's kind of market, never with *)
(* both limits 0, and every variable has its type.                          *)
THEOREM PyTypeCorrect == Spec => []TypeOK
<1>1. Core => TypeOK
  BY DEF Core
<1>2. QED
  BY <1>1, AlwaysCore, PTL

(* An entry is that of exactly one try, however many updates are queued.    *)
THEOREM PyEntriesAreTries == Spec => []EntriesAreTries
<1>1. Core => EntriesAreTries
  <2> SUFFICES ASSUME Core, NEW o \in Orders
               PROVE  Cardinality({k \in Slots : tries[o][k].pc # "idle"}) =
                         IF o \in ongoing_auctions THEN 1 ELSE 0
    BY DEF EntriesAreTries
  <2> DEFINE used == {k \in Slots : tries[o][k].pc # "idle"}
  <2>1. /\ ~(1 \in used /\ 2 \in used)
        /\ o \in ongoing_auctions <=> 1 \in used \/ 2 \in used
    <3>1. \A k : k \in Slots <=> k = 1 \/ k = 2
      OBVIOUS
    <3> QED BY <3>1 DEF Core, Entries, Used
  <2>2. used \subseteq {1, 2}
    OBVIOUS
  <2> HIDE DEF used
  <2>3. IF o \in ongoing_auctions THEN used = {1} \/ used = {2} ELSE used = {}
    BY <2>1, <2>2
  <2>4. Cardinality({1}) = 1 /\ Cardinality({2}) = 1 /\ Cardinality({}) = 0
    BY FS_Singleton, FS_EmptySet
  <2>5. Cardinality(used) = IF o \in ongoing_auctions THEN 1 ELSE 0
    BY <2>3, <2>4
  <2> QED BY <2>5 DEF used
<1>2. QED
  BY <1>1, AlwaysCore, PTL
-----------------------------------------------------------------------------
(* Calls for orders that are gone *)

(* The last of the queue's updates that shows o in its auction is the n-th  *)
(* at most.                                                                 *)
ShownUpTo(o, n) ==
    /\ n \in 0..Len(updates)
    /\ \A i \in 1..Len(updates) : i > n => updates[i][o].phase # "auction"

Pending(o) == IF \E k \in Slots : MayCall(tries[o][k]) THEN 1 ELSE 0

Wasting ==
    \A o \in Orders :
        IF Closed(o)
        THEN \E n \in Nat : ShownUpTo(o, n) /\ wasted[o] + n + Pending(o) <= Backlog + 1
        ELSE wasted[o] = 0

LEMMA CloseWastes ==
    ASSUME TypeOK, NEW o \in Orders, wasted[o] = 0
    PROVE  \E n \in Nat : ShownUpTo(o, n) /\ wasted[o] + n + Pending(o) <= Backlog + 1
<1>1. ShownUpTo(o, Len(updates)) /\ Len(updates) \in Nat /\ Len(updates) <= Backlog
  BY DEF ShownUpTo, TypeOK
<1>2. Pending(o) \in 0..1
  BY DEF Pending
<1> QED BY <1>1, <1>2

(* What a step that is not the handler's does to the count.                 *)
LEMMA QuietStep ==
    ASSUME TypeOK, TypeOK', Wasting, NEW o \in Orders,
           updates' = updates \/ updates' = Append(updates, book),
           Closed(o) => book'[o].phase = "closed",
           ~Closed(o) => wasted'[o] = wasted[o],
           Closed(o) => wasted'[o] + Pending(o)' <= wasted[o] + Pending(o)
    PROVE  IF Closed(o)'
           THEN \E n \in Nat : ShownUpTo(o, n)' /\ wasted'[o] + n + Pending(o)' <= Backlog + 1
           ELSE wasted'[o] = 0
<1>0. /\ Pending(o) \in 0..1 /\ Pending(o)' \in 0..1
      /\ wasted[o] \in Nat /\ wasted'[o] \in Nat
  BY DEF Pending, TypeOK
<1>1. CASE Closed(o)
  <2>1. PICK n \in Nat : ShownUpTo(o, n) /\ wasted[o] + n + Pending(o) <= Backlog + 1
    BY <1>1 DEF Wasting
  <2>2. ShownUpTo(o, n)'
    <3>0. updates \in Seq(Book) /\ book \in Book
      BY DEF TypeOK
    <3>1. CASE updates' = updates
      BY <2>1, <3>1 DEF ShownUpTo
    <3>2. CASE updates' = Append(updates, book)
      <4>1. /\ Len(updates') = Len(updates) + 1 /\ Len(updates) \in Nat
            /\ \A i \in 1..Len(updates) : updates'[i] = updates[i]
            /\ updates'[Len(updates) + 1] = book
        BY <3>0, <3>2, AppendProperties
      <4>2. ASSUME NEW i \in 1..Len(updates'), i > n
            PROVE  updates'[i][o].phase # "auction"
        <5>1. CASE i \in 1..Len(updates)
          BY <2>1, <4>1, <4>2, <5>1 DEF ShownUpTo
        <5>2. CASE i = Len(updates) + 1
          BY <1>1, <4>1, <5>2 DEF Closed
        <5> QED BY <4>1, <5>1, <5>2
      <4>3. n \in 0..Len(updates')
        BY <2>1, <4>1 DEF ShownUpTo
      <4> QED BY <4>2, <4>3 DEF ShownUpTo
    <3> QED BY <3>1, <3>2
  <2>3. Closed(o)' /\ wasted'[o] + n + Pending(o)' <= Backlog + 1
    <3>1. wasted'[o] + Pending(o)' <= wasted[o] + Pending(o)
      BY <1>1
    <3>2. Closed(o)'
      BY <1>1 DEF Closed
    <3> QED BY <1>0, <2>1, <3>1, <3>2
  <2> QED BY <2>2, <2>3
<1>2. CASE ~Closed(o)
  <2>1. wasted'[o] = 0
    BY <1>2 DEF Wasting
  <2>2. \E n \in Nat : ShownUpTo(o, n)' /\ wasted'[o] + n + Pending(o)' <= Backlog + 1
    <3>1. PICK n \in Nat : n = Len(updates') /\ n <= Backlog
      BY DEF TypeOK
    <3>2. ShownUpTo(o, n)'
      BY <3>1 DEF ShownUpTo
    <3>3. wasted'[o] + n + Pending(o)' <= Backlog + 1
      BY <1>0, <2>1, <3>1
    <3> QED BY <3>2, <3>3
  <2> QED BY <2>1, <2>2
<1> QED BY <1>1, <1>2

(* The handler takes an update off the queue, and starts a try of o when    *)
(* this one still showed it in its auction.                                 *)
LEMMA HandlerStep ==
    ASSUME Core, TypeOK', Wasting, NEW o \in Orders, OnAccountUpdate
    PROVE  IF Closed(o)'
           THEN \E n \in Nat : ShownUpTo(o, n)' /\ wasted'[o] + n + Pending(o)' <= Backlog + 1
           ELSE wasted'[o] = 0
<1>0. /\ Pending(o) \in 0..1 /\ Pending(o)' \in 0..1
      /\ wasted[o] \in Nat /\ updates \in Seq(Book) /\ TypeOK /\ Entries
  BY DEF Core, Pending, TypeOK
<1>1. /\ book' = book /\ wasted' = wasted
      /\ updates # <<>> /\ updates' = Tail(updates)
  BY DEF OnAccountUpdate, chain
<1>2. CASE ~Closed(o)
  BY <1>1, <1>2 DEF Wasting, Closed
<1>3. CASE Closed(o)
  <2>1. PICK n \in Nat : ShownUpTo(o, n) /\ wasted[o] + n + Pending(o) <= Backlog + 1
    BY <1>3 DEF Wasting
  <2>2. /\ Len(updates') = Len(updates) - 1 /\ Len(updates) \in Nat \ {0}
        /\ \A i \in 1..Len(updates') : updates'[i] = updates[i + 1]
        /\ Head(updates) = updates[1]
    BY <1>0, <1>1, HeadTailProperties
  <2>3. CASE n = 0
    <3>1. updates[1][o].phase # "auction"
      BY <2>1, <2>2, <2>3 DEF ShownUpTo
    <3>2. o \notin Started(Head(updates))
      BY <2>2, <3>1, HandlerParams
    <3>3. \A l \in Slots : tries'[o][l] = tries[o][l]
      BY <1>0, <3>2, HandlerStarts
    <3>4. Pending(o)' = Pending(o)
      BY <3>3 DEF Pending
    <3>5. ShownUpTo(o, 0)'
      <4>1. ASSUME NEW i \in 1..Len(updates')
            PROVE  updates'[i][o].phase # "auction"
        <5>1. i + 1 \in 1..Len(updates) /\ i + 1 > 0
          BY <2>2
        <5> QED BY <2>1, <2>2, <2>3, <5>1 DEF ShownUpTo
      <4>2. 0 \in 0..Len(updates')
        BY <2>2
      <4> QED BY <4>1, <4>2 DEF ShownUpTo
    <3>6. wasted'[o] + 0 + Pending(o)' <= Backlog + 1
      BY <1>0, <1>1, <2>1, <2>3, <3>4
    <3> QED BY <1>1, <1>3, <3>5, <3>6 DEF Closed
  <2>4. CASE n # 0
    <3>1. n - 1 \in Nat
      BY <2>4
    <3>2. ShownUpTo(o, n - 1)'
      <4>1. ASSUME NEW i \in 1..Len(updates'), i > n - 1
            PROVE  updates'[i][o].phase # "auction"
        <5>1. i + 1 \in 1..Len(updates) /\ i + 1 > n
          BY <2>2, <4>1
        <5> QED BY <2>1, <2>2, <5>1 DEF ShownUpTo
      <4>2. n - 1 \in 0..Len(updates')
        BY <2>1, <2>2, <2>4 DEF ShownUpTo
      <4> QED BY <4>1, <4>2 DEF ShownUpTo
    <3>3. wasted'[o] + (n - 1) + Pending(o)' <= Backlog + 1
      BY <1>0, <1>1, <2>1
    <3> QED BY <1>1, <1>3, <3>1, <3>2, <3>3 DEF Closed
  <2> QED BY <2>3, <2>4
<1> QED BY <1>2, <1>3

LEMMA StepKeepsWasting ==
    ASSUME Core, Core', Wasting, [Next]_vars
    PROVE  Wasting'
<1>0. /\ TypeOK /\ ParamsSet /\ Entries /\ TypeOK'
      /\ 1 \in Slots /\ 2 \in Slots /\ \A k \in Slots : k = 1 \/ k = 2
  BY DEF Core
<1> SUFFICES ASSUME NEW o \in Orders
             PROVE  IF Closed(o)'
                    THEN \E n \in Nat : /\ ShownUpTo(o, n)'
                                        /\ wasted'[o] + n + Pending(o)' <= Backlog + 1
                    ELSE wasted'[o] = 0
  BY DEF Wasting
<1>1. wasted[o] \in Nat /\ Pending(o) \in 0..1
  BY <1>0 DEF TypeOK, Pending
<1>2. ASSUME tries' = tries, wasted' = wasted
      PROVE  wasted'[o] + Pending(o)' <= wasted[o] + Pending(o)
  BY <1>1, <1>2 DEF Pending
<1>3. CASE AccountMoves
  BY <1>0, <1>2, <1>3, QuietStep DEF AccountMoves, bot
<1>4. CASE ParamsMove
  BY <1>0, <1>2, <1>4, QuietStep DEF ParamsMove, chain, Closed
<1>5. CASE Reports
  BY <1>0, <1>2, <1>5, QuietStep DEF Reports, Closed
<1>6. CASE OnAccountUpdate
  BY <1>0, <1>6, HandlerStep
<1>7. ASSUME NEW p \in Orders, NEW k \in Slots, Used(p, k), Ends(p, k)
      PROVE  IF Closed(o)'
             THEN \E n \in Nat : /\ ShownUpTo(o, n)'
                                 /\ wasted'[o] + n + Pending(o)' <= Backlog + 1
             ELSE wasted'[o] = 0
  <2>1. /\ Becomes(p, k, Idle) /\ wasted' = wasted /\ book' = book /\ updates' = updates
    BY <1>7 DEF Ends, chain
  <2>2. \A l \in Slots : tries'[o][l] = Idle \/ tries'[o][l] = tries[o][l]
    BY <1>0, <2>1, IdleFields, BecomesOne
  <2>3. ~MayCall(Idle)
    BY IdleFields DEF MayCall
  <2>4. wasted'[o] + Pending(o)' <= wasted[o] + Pending(o)
    BY <1>1, <2>1, <2>2, <2>3 DEF Pending
  <2> QED BY <1>0, <2>1, <2>4, QuietStep DEF Closed
<1>8. ASSUME NEW p \in Orders, NEW k \in Slots, GoesOn(p, k)
      PROVE  IF Closed(o)'
             THEN \E n \in Nat : /\ ShownUpTo(o, n)'
                                 /\ wasted'[o] + n + Pending(o)' <= Backlog + 1
             ELSE wasted'[o] = 0
  <2>1. PICK u \in Try :
           /\ Becomes(p, k, u) /\ u.pc # "idle"
           /\ \/ /\ u.pc # "sending" /\ UNCHANGED wasted
                 /\ MayCall(u) => MayCall(tries[p][k]) \/ ~Closed(p)
              \/ /\ u.pc = "sending" /\ MayCall(tries[p][k])
                 /\ wasted' = [wasted EXCEPT ![p] = IF Closed(p) THEN @ + 1 ELSE @]
    BY <1>8 DEF GoesOn
  <2>2. /\ Used(p, k) /\ updates' = updates
        /\ Closed(o) => book'[o].phase = "closed"
    BY <1>8 DEF GoesOn, bot
  <2>3. \A q \in Orders, l \in Slots :
           tries'[q][l] = IF q = p /\ l = k THEN u ELSE tries[q][l]
    BY <1>0, <2>1, BecomesOne
  <2>4. CASE o # p
    <3>1. wasted'[o] = wasted[o] /\ \A l \in Slots : tries'[o][l] = tries[o][l]
      BY <1>0, <2>1, <2>3, <2>4 DEF TypeOK
    <3>2. wasted'[o] + Pending(o)' <= wasted[o] + Pending(o)
      BY <1>1, <3>1 DEF Pending
    <3> QED BY <1>0, <2>2, <3>1, <3>2, QuietStep
  <2>5. CASE o = p
    <3>1. \A l \in Slots : l # k => ~MayCall(tries[o][l])
      BY <1>0, <2>2, <2>5 DEF Entries, Used, MayCall
    <3>2. /\ Pending(o)' = IF MayCall(u) THEN 1 ELSE 0
          /\ Pending(o) = IF MayCall(tries[o][k]) THEN 1 ELSE 0
      BY <2>3, <2>5, <3>1 DEF Pending
    <3>3. ~Closed(o) => wasted'[o] = wasted[o]
      BY <1>0, <2>1, <2>5 DEF TypeOK
    <3>4. ASSUME Closed(o)
          PROVE  wasted'[o] + Pending(o)' <= wasted[o] + Pending(o)
      <4>1. CASE /\ u.pc # "sending" /\ UNCHANGED wasted
                 /\ MayCall(u) => MayCall(tries[p][k]) \/ ~Closed(p)
        BY <1>1, <2>5, <3>2, <3>4, <4>1
      <4>2. CASE /\ u.pc = "sending" /\ MayCall(tries[p][k])
                 /\ wasted' = [wasted EXCEPT ![p] = IF Closed(p) THEN @ + 1 ELSE @]
        <5>1. wasted'[o] = wasted[o] + 1
          BY <1>0, <2>5, <3>4, <4>2 DEF TypeOK
        <5>2. Pending(o)' = 0 /\ Pending(o) = 1
          BY <2>5, <3>2, <4>2 DEF MayCall
        <5> QED BY <1>1, <5>1, <5>2
      <4> QED BY <2>1, <4>1, <4>2
    <3> QED BY <1>0, <2>2, <3>3, <3>4, QuietStep
  <2> QED BY <2>4, <2>5
<1> QED
  BY <1>0, <1>3, <1>4, <1>5, <1>6, <1>7, <1>8, Steps

(* An order that is gone is called for once by the try that ran when it     *)
(* went and once for each update that waited then, whatever the length of   *)
(* the queue.                                                               *)
THEOREM WastedCallsAreFew == Spec => []FewWastedCalls
<1>1. Init => Wasting
  BY DEF Init, Wasting, Closed
<1>2. Core /\ Core' /\ Wasting /\ [Next]_vars => Wasting'
  BY StepKeepsWasting
<1>3. Core /\ Wasting => FewWastedCalls
  <2> SUFFICES ASSUME Core, Wasting, NEW o \in Orders
               PROVE  wasted[o] <= Backlog + 1
    BY DEF FewWastedCalls
  <2>1. wasted[o] \in Nat /\ Pending(o) \in 0..1
    BY DEF Core, TypeOK, Pending
  <2>2. CASE Closed(o)
    <3>1. PICK n \in Nat : wasted[o] + n + Pending(o) <= Backlog + 1
      BY <2>2 DEF Wasting
    <3> QED BY <2>1, <3>1
  <2>3. CASE ~Closed(o)
    BY <2>3 DEF Wasting
  <2> QED BY <2>2, <2>3
<1>4. QED
  BY <1>1, <1>2, <1>3, AlwaysCore, PTL DEF Spec
=============================================================================
