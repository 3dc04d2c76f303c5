------------------------- MODULE JitterSniperProofs -------------------------
(***************************************************************************)
(* Theorems about JitterSniper for every number of orders, auction, slot   *)
(* and round.  Good says what is always true of one try, where it is in its*)
(* wait and its loop; the registries are then compared with the tries.     *)
(***************************************************************************)
EXTENDS JitterSniper, TLAPS

USE JitterAssumption, SniperAssumption

(* What the callback of the wait reads for an order, and its kind.          *)
Given(o) == IF o \in SpotOrders THEN spotParams[MarketOf[o]] ELSE perpParams[MarketOf[o]]
Kind(o)  == IF o \in SpotOrders THEN SpotValues ELSE PerpValues

(* A try, at the time now.                                                  *)
Good(t, now) ==
    /\ t \in Task
    /\ t.pc # "idle" => t.s \in Signatures /\ Given(t.s.order) # None
    /\ t.pc \in {"sending", "answered", "paused"} => t.params \in Kind(t.s.order)
    /\ t.pc \in {"idle", "answered", "paused", "cooldown"} => t.target = 0
    /\ t.pc = "sending" => now >= t.target
    /\ t.pc \in {"stats", "rejected"} => ~t.timer
    /\ t.pc = "waiting" => t.timer
    /\ t.listening => t.pc = "waiting"
    /\ t.pc \in {"stats", "waiting", "sending", "paused"} => t.landed = 0
    /\ t.pc = "answered" /\ t.answer \in Retried => t.landed = 0
    /\ t.landed <= 1

-----------------------------------------------------------------------------
(* Fields and signatures *)

LEMMA SignatureOrder == \A s \in Signatures : s.order \in Orders
  BY DEF Signatures

LEMMA TaskFields ==
    ASSUME NEW t \in Task
    PROVE  /\ t.pc \in {"idle", "stats", "waiting", "sending", "answered", "paused",
                        "cooldown", "rejected"}
           /\ t.s \in Signatures \cup {None}
           /\ t.look \in (UNION {Looks(o) : o \in Orders}) \cup {NoLook}
           /\ t.target \in 0..LastSlot
           /\ t.listening \in BOOLEAN /\ t.timer \in BOOLEAN
           /\ t.i \in 0..(Rounds - 1)
           /\ t.params \in PerpValues \cup SpotValues \cup {None}
           /\ t.answer \in Answers /\ t.landed \in Nat
  BY DEF Task

(* The looks as one set, which the provers need not look into.              *)
AnyLook == (UNION {Looks(o) : o \in Orders}) \cup {NoLook}

LEMMA TaskIs ==
    /\ Task = [pc: {"idle", "stats", "waiting", "sending", "answered", "paused",
                    "cooldown", "rejected"},
               s: Signatures \cup {None}, look: AnyLook,
               target: 0..LastSlot, listening: BOOLEAN, timer: BOOLEAN,
               i: 0..(Rounds - 1), params: PerpValues \cup SpotValues \cup {None},
               answer: Answers, landed: Nat]
    /\ NoLook \in AnyLook
<1>1. NoLook \in AnyLook
  BY DEF AnyLook
<1>2. Task = [pc: {"idle", "stats", "waiting", "sending", "answered", "paused",
                    "cooldown", "rejected"},
               s: Signatures \cup {None}, look: AnyLook,
               target: 0..LastSlot, listening: BOOLEAN, timer: BOOLEAN,
               i: 0..(Rounds - 1), params: PerpValues \cup SpotValues \cup {None},
               answer: Answers, landed: Nat]
  BY DEF Task, AnyLook
<1> QED BY <1>1, <1>2

LEMMA LookTargets ==
    ASSUME NEW o \in Orders, NEW look \in Looks(o)
    PROVE  /\ Target(o, look) \in 0..LastSlot
           /\ look \in (UNION {Looks(p) : p \in Orders}) \cup {NoLook}
<1>1. /\ OrderSlot[o] \in Nat /\ Duration[o] \in Nat \ {0} /\ LastSlot \in Nat
      /\ OrderSlot[o] + Duration[o] < LastSlot
  OBVIOUS
<1>2. look.at \in Nat /\ look.at <= Duration[o] + 1
  BY <1>1 DEF Looks
<1>3. Target(o, look) \in 0..LastSlot
  BY <1>1, <1>2 DEF Target
<1>4. look \in UNION {Looks(p) : p \in Orders}
  <2>1. Looks(o) \in {Looks(p) : p \in Orders}
    OBVIOUS
  <2> QED BY <2>1
<1> QED BY <1>3, <1>4

LEMMA IdleFields ==
    /\ Idle \in Task /\ Idle.pc = "idle" /\ Idle.s = None
    /\ Idle.target = 0 /\ ~Idle.listening /\ ~Idle.timer /\ Idle.landed = 0
<1>1. 0 \in 0..LastSlot /\ 0 \in 0..(Rounds - 1)
  OBVIOUS
<1> QED BY <1>1, TaskIs DEF Idle, Answers

LEMMA IdleGood == \A now : Good(Idle, now)
  BY IdleFields DEF Good

(* Sending from the target slot on.                                         *)
LEMMA SendsGood ==
    ASSUME TypeOK, NEW t \in Task, NEW now \in Nat, t.s \in Signatures,
           Given(t.s.order) # None, now >= t.target, t.landed = 0, ~t.listening
    PROVE  Good(Sends(t), now)
<1>1. t.s.order \in Orders /\ MarketOf[t.s.order] \in Markets
  BY SignatureOrder
<1>2. Given(t.s.order) \in Kind(t.s.order)
  BY <1>1 DEF Given, Kind, TypeOK, BaseTypeOK
<1>3. Sends(t) = [t EXCEPT !.pc = "sending", !.params = Given(t.s.order)]
  BY DEF Sends, Given
<1>4. /\ Sends(t) \in Task /\ Sends(t).pc = "sending"
      /\ Sends(t).params = Given(t.s.order)
      /\ Sends(t).s = t.s /\ Sends(t).target = t.target /\ Sends(t).landed = t.landed
      /\ Sends(t).listening = t.listening
  BY <1>2, <1>3 DEF Kind, Task
<1> QED BY <1>2, <1>4 DEF Good

(* Time passes, and parameters are replaced, never removed.                 *)
ParamsStay == \A o \in Orders : Given(o) # None => Given(o)' # None

LEMMA GoodStays ==
    ASSUME NEW t, NEW now \in Nat, NEW then \in Nat, now <= then, ParamsStay, Good(t, now)
    PROVE  Good(t, then)'
<1>1. t.pc # "idle" => Given(t.s.order)' # None
  BY SignatureOrder DEF ParamsStay, Good
<1>2. t.pc = "sending" => then >= t.target
  <2>1. t.target \in Int
    BY TaskFields DEF Good
  <2> QED BY <2>1 DEF Good
<1> QED BY <1>1, <1>2 DEF Good, Kind

-----------------------------------------------------------------------------
(* The steps of one try *)

AllGood == \A k \in Tries : Good(tasks[k], slot)

(* A try goes on, or deletes its entry; one that awaits its stats leaves    *)
(* the entry only when they cannot be loaded.                               *)
Moves(k) ==
    /\ \E u : /\ Becomes(k, u) /\ Good(u, slot)
              /\ \/ Forget(tasks[k].s)
                 \/ /\ UNCHANGED <<seenOrders, onGoingAuctions>>
                    /\ tasks[k].pc \in {"stats", "rejected"} =>
                          u.pc = "rejected" /\ u.s = tasks[k].s
    /\ book' \in Book
    /\ UNCHANGED <<update, perpParams, spotParams, passedOver, slot>>

LEMMA ForgetsMoves ==
    ASSUME TypeOK, NEW k \in Tries, Forgets(k), NEW u, Becomes(k, u), Good(u, slot),
           UNCHANGED slot
    PROVE  Moves(k)
  BY DEF Moves, Forgets, TypeOK, BaseTypeOK

LEMMA StaysMoves ==
    ASSUME TypeOK, NEW k \in Tries, NEW u, Becomes(k, u), Good(u, slot),
           UNCHANGED <<baseVars, slot>>,
           tasks[k].pc \in {"stats", "rejected"} => u.pc = "rejected" /\ u.s = tasks[k].s
    PROVE  Moves(k)
  BY DEF Moves, baseVars, TypeOK, BaseTypeOK

LEMMA StatsLoadedMoves ==
    ASSUME TypeOK, AllGood, NEW k \in Tries, NEW held \in Holdings,
           NEW look \in Looks(OrderOf(k)), StatsLoaded(k, held, look)
    PROVE  Moves(k)
<1> DEFINE t      == tasks[k]
           o      == OrderOf(k)
           target == Target(o, look)
           seen   == [t EXCEPT !.look = look, !.target = target]
<1>1. /\ t \in Task /\ t.s \in Signatures /\ Given(o) # None /\ o \in Orders
      /\ t.pc = "stats" /\ ~t.timer /\ ~t.listening /\ t.landed = 0
  BY SignatureOrder DEF AllGood, Good, StatsLoaded, OrderOf
<1>2. target \in 0..LastSlot /\ slot \in 0..LastSlot
  BY <1>1, LookTargets DEF TypeOK
<1>3. /\ seen \in Task /\ seen.pc = "stats" /\ seen.s = t.s /\ seen.target = target
      /\ ~seen.timer /\ ~seen.listening /\ seen.landed = 0
  BY <1>1, <1>2, LookTargets DEF Task
<1>4. ASSUME slot <= target
      PROVE  Good([seen EXCEPT !.pc = "waiting", !.listening = TRUE, !.timer = TRUE], slot)
  <2> DEFINE u == [seen EXCEPT !.pc = "waiting", !.listening = TRUE, !.timer = TRUE]
  <2> HIDE DEF seen
  <2>1. /\ u \in Task /\ u.pc = "waiting" /\ u.s = seen.s /\ u.timer /\ u.listening
        /\ u.landed = seen.landed
    BY <1>3 DEF Task
  <2> HIDE DEF u
  <2>2. Good(u, slot)
    BY <1>1, <1>3, <2>1 DEF Good, OrderOf
  <2> QED BY <2>2 DEF u
<1>5. ASSUME ~(slot <= target)
      PROVE  Good(Sends(seen), slot)
  <2>1. slot >= seen.target /\ slot \in Nat
    BY <1>2, <1>3, <1>5
  <2>2. Given(seen.s.order) # None
    BY <1>1, <1>3 DEF OrderOf
  <2> HIDE DEF seen
  <2> QED BY <1>1, <1>3, <2>1, <2>2, SendsGood
<1>6. /\ Forgets(k) /\ UNCHANGED slot
      /\ Becomes(k, IF slot <= target
                    THEN [seen EXCEPT !.pc = "waiting", !.listening = TRUE, !.timer = TRUE]
                    ELSE IF Crosses(seen) THEN Sends(seen) ELSE Idle)
  BY DEF StatsLoaded
<1> HIDE DEF seen, target
<1> QED BY <1>4, <1>5, <1>6, IdleGood, ForgetsMoves

LEMMA TickMoves ==
    ASSUME TypeOK, AllGood, NEW k \in Tries, Tick(k)
    PROVE  Moves(k)
<1> DEFINE t == tasks[k]
<1>1. t \in Task /\ Good(t, slot) /\ t.timer /\ slot \in 0..LastSlot /\ slot \in Nat
  BY DEF AllGood, Good, Tick, TypeOK
<1>2. t.pc \notin {"stats", "rejected"}
  BY <1>1 DEF Good
<1>3. ASSUME NEW look \in Looks(OrderOf(k)), TickLooks(k, look)
      PROVE  Moves(k)
  <2> DEFINE seen  == [t EXCEPT !.look = look]
             moved == [seen EXCEPT !.target = Target(OrderOf(k), look)]
  <2>1. slot < t.target
    BY <1>3 DEF TickLooks
  <2>2. t.pc = "waiting"
    <3>1. t.target \in Int /\ slot \in Int
      BY <1>1, TaskFields
    <3>2. ~(slot >= t.target) /\ t.target # 0
      BY <1>1, <2>1, <3>1
    <3> QED BY <1>1, <1>2, <3>2, TaskFields DEF Good
  <2>3. OrderOf(k) \in Orders
    BY <1>1, <2>2, SignatureOrder DEF Good, OrderOf
  <2>4. /\ seen \in Task /\ seen.pc = t.pc /\ seen.s = t.s /\ seen.timer = t.timer
        /\ seen.landed = t.landed
    BY <1>1, <2>3, LookTargets DEF Task
  <2>5. /\ moved \in Task /\ moved.pc = t.pc /\ moved.s = t.s /\ moved.timer = t.timer
        /\ moved.landed = t.landed
    BY <1>1, <2>3, LookTargets DEF Task
  <2>6. Becomes(k, seen) \/ Becomes(k, moved)
    BY <1>3 DEF TickLooks
  <2>7. UNCHANGED <<baseVars, slot>>
    BY <1>3 DEF TickLooks
  <2> HIDE DEF seen, moved
  <2>8. Good(seen, slot) /\ Good(moved, slot)
    BY <1>1, <2>2, <2>4, <2>5 DEF Good
  <2> QED BY <1>2, <2>6, <2>7, <2>8, StaysMoves
<1>4. CASE TickEnds(k)
  <2> DEFINE quiet == [t EXCEPT !.listening = FALSE, !.timer = FALSE]
  <2>1. /\ quiet \in Task /\ quiet.pc = t.pc /\ quiet.s = t.s /\ quiet.target = t.target
        /\ quiet.landed = t.landed /\ quiet.params = t.params /\ quiet.answer = t.answer
        /\ ~quiet.listening /\ ~quiet.timer
    BY <1>1 DEF Task
  <2>2. slot >= t.target /\ UNCHANGED slot
    BY <1>4 DEF TickEnds
  <2>3. t.pc = "waiting" => Good(Sends(quiet), slot)
    <3> SUFFICES ASSUME t.pc = "waiting" PROVE Good(Sends(quiet), slot)
      OBVIOUS
    <3> HIDE DEF quiet
    <3>1. quiet.s \in Signatures /\ Given(quiet.s.order) # None /\ quiet.landed = 0
      BY <1>1, <2>1 DEF Good
    <3> QED BY <1>1, <2>1, <2>2, <3>1, SendsGood
  <2>4. t.pc # "waiting" => Good(quiet, slot)
    <3> HIDE DEF quiet
    <3> QED BY <1>1, <2>1 DEF Good
  <2>5. CASE t.pc = "waiting" /\ ~Crosses(t)
    BY <1>4, <2>2, <2>5, IdleGood, ForgetsMoves DEF TickEnds
  <2>6. CASE ~(t.pc = "waiting" /\ ~Crosses(t))
    <3>1. /\ Becomes(k, IF t.pc = "waiting" THEN Sends(quiet)
                        ELSE IF t.pc = "idle" THEN Idle ELSE quiet)
          /\ UNCHANGED <<baseVars, slot>>
      BY <1>4, <2>6 DEF TickEnds
    <3> HIDE DEF quiet
    <3> QED BY <1>2, <2>3, <2>4, <3>1, IdleGood, StaysMoves
  <2> QED BY <2>5, <2>6
<1> QED BY <1>3, <1>4 DEF Tick

LEMMA AnsweredMoves ==
    ASSUME TypeOK, AllGood, NEW k \in Tries, tasks[k].pc = "sending",
           NEW answer \in Answers, NEW n \in {0, 1}, Answered(k, answer, n),
           answer \in Retried => n = 0, book' \in Book,
           UNCHANGED <<update, perpParams, spotParams, seenOrders, onGoingAuctions,
                       passedOver, slot>>
    PROVE  Moves(k)
<1> DEFINE t == tasks[k]
           u == [t EXCEPT !.pc = "answered", !.answer = answer, !.landed = @ + n,
                          !.look = NoLook, !.target = 0]
<1>1. t \in Task /\ Good(t, slot) /\ t.landed = 0
  BY DEF AllGood, Good
<1>2. Becomes(k, u)
  BY DEF Answered
<1>3. t.landed + n = n /\ n \in Nat /\ n <= 1 /\ 0 \in 0..LastSlot
  BY <1>1
<1>4. /\ u.pc = "answered" /\ u.answer = answer /\ u.landed = n /\ u.target = 0
      /\ u.s = t.s /\ u.params = t.params /\ u.listening = t.listening
  BY <1>1, <1>3 DEF Task
<1>5. u \in Task
  <2> DEFINE m == t.landed + n
  <2>1. m \in Nat
    BY <1>3
  <2> HIDE DEF m
  <2>2. u = [t EXCEPT !.pc = "answered", !.answer = answer, !.landed = m,
                      !.look = NoLook, !.target = 0]
    BY DEF m
  <2> HIDE DEF u
  <2> QED BY <1>1, <1>3, <2>1, <2>2, TaskIs
<1> HIDE DEF u
<1>6. Good(u, slot)
  BY <1>1, <1>3, <1>4, <1>5 DEF Good
<1> QED BY <1>2, <1>6 DEF Moves

LEMMA TryStepMoves ==
    ASSUME TypeOK, AllGood, NEW k \in Tries, TryStep(k)
    PROVE  Moves(k)
<1> DEFINE t == tasks[k]
<1>1. /\ t \in Task /\ Good(t, slot) /\ t.pc # "idle"
      /\ t.s \in Signatures /\ OrderOf(k) \in Orders
  BY SignatureOrder DEF AllGood, Good, TryStep, OrderOf
<1>2. ASSUME NEW held \in Holdings, PositionAtLimit(k, held)
      PROVE  Moves(k)
  BY <1>2, IdleGood, ForgetsMoves DEF PositionAtLimit
<1>3. CASE StatsFailed(k)
  <2> DEFINE u == [t EXCEPT !.pc = "rejected"]
  <2>1. /\ u \in Task /\ u.pc = "rejected" /\ u.s = t.s /\ u.timer = t.timer
        /\ u.landed = t.landed /\ u.listening = t.listening
    BY <1>1 DEF Task
  <2>2. t.pc = "stats" /\ Becomes(k, u) /\ UNCHANGED <<baseVars, slot>>
    BY <1>3 DEF StatsFailed
  <2> HIDE DEF u
  <2>3. Good(u, slot)
    BY <1>1, <2>1, <2>2 DEF Good
  <2> QED BY <2>1, <2>2, <2>3, StaysMoves
<1>4. ASSUME NEW answer \in Answers, Refused(k, answer)
      PROVE  Moves(k)
  BY <1>4, AnsweredMoves DEF Refused, baseVars, TypeOK, BaseTypeOK
<1>5. ASSUME NEW after \in Outcomes(OrderOf(k)), NEW answer \in {"Sent", "Timeout"},
             Lands(k, after, answer)
      PROVE  Moves(k)
  <2>1. book' \in Book
    <3>1. after \in [phase: Phases, dust: BOOLEAN]
      BY DEF Outcomes, Phases
    <3>2. book' = [book EXCEPT ![OrderOf(k)] = after] /\ book \in Book
      BY <1>5 DEF Lands, TypeOK, BaseTypeOK
    <3> QED BY <3>1, <3>2 DEF Book
  <2>2. answer \in Answers /\ answer \notin Retried
    BY DEF Answers, Final, Retried
  <2> QED BY <1>5, <2>1, <2>2, AnsweredMoves DEF Lands
<1>6. CASE Resumes(k)
  <2> DEFINE pc == IF Retries(t.answer) THEN "paused" ELSE "cooldown"
             u  == [t EXCEPT !.pc = pc]
  <2>1. /\ u \in Task /\ u.pc = pc /\ u.s = t.s /\ u.params = t.params
        /\ u.target = t.target /\ u.landed = t.landed /\ u.listening = t.listening
    BY <1>1 DEF Task
  <2>2. t.pc = "answered" /\ Becomes(k, u) /\ UNCHANGED <<baseVars, slot>>
    BY <1>6 DEF Resumes
  <2> HIDE DEF u
  <2>3. Good(u, slot)
    BY <1>1, <2>1, <2>2 DEF Good, Retries
  <2> QED BY <2>2, <2>3, StaysMoves
<1>7. Good(Over(t), slot) \/ t.pc \notin {"paused", "cooldown"}
  <2> SUFFICES ASSUME t.pc \in {"paused", "cooldown"} PROVE Good(Over(t), slot)
    OBVIOUS
  <2> DEFINE u == [t EXCEPT !.pc = "idle"]
  <2>1. /\ u \in Task /\ u.pc = "idle" /\ u.target = t.target /\ u.landed = t.landed
        /\ u.listening = t.listening
    BY <1>1 DEF Task
  <2>2. Over(t) = IF t.timer THEN u ELSE Idle
    BY DEF Over
  <2> HIDE DEF u
  <2>3. Good(u, slot)
    BY <1>1, <2>1 DEF Good
  <2> QED BY <2>2, <2>3, IdleGood
<1>8. CASE NextRound(k)
  <2> DEFINE u == [t EXCEPT !.pc = "sending", !.i = @ + 1, !.answer = "None"]
  <2>1. /\ t.pc = "paused" /\ UNCHANGED <<baseVars, slot>>
        /\ Becomes(k, IF t.i + 1 < Rounds THEN u ELSE Over(t))
    BY <1>8 DEF NextRound
  <2>2. t.i + 1 < Rounds => Good(u, slot)
    <3> SUFFICES ASSUME t.i + 1 < Rounds PROVE Good(u, slot)
      OBVIOUS
    <3> DEFINE j == t.i + 1
    <3>1. j \in 0..(Rounds - 1)
      BY <1>1, TaskFields
    <3> HIDE DEF j
    <3>2. u = [t EXCEPT !.pc = "sending", !.i = j, !.answer = "None"]
      BY DEF j
    <3>3. /\ u \in Task /\ u.pc = "sending" /\ u.s = t.s /\ u.params = t.params
          /\ u.target = t.target /\ u.landed = t.landed /\ u.listening = t.listening
      BY <1>1, <3>1, <3>2 DEF Task, Answers
    <3> HIDE DEF u
    <3>4. slot >= t.target
      BY <1>1, <2>1 DEF Good, TypeOK
    <3> QED BY <1>1, <2>1, <3>3, <3>4 DEF Good
  <2> HIDE DEF u
  <2> QED BY <1>7, <2>1, <2>2, StaysMoves
<1>9. CASE Wakes(k)
  BY <1>7, <1>9, ForgetsMoves DEF Wakes
<1> QED
  BY <1>2, <1>3, <1>4, <1>5, <1>6, <1>8, <1>9, StatsLoadedMoves DEF TryStep

-----------------------------------------------------------------------------
(* The steps of all tries *)

NewTry(s) == [Idle EXCEPT !.pc = "stats", !.s = s]

(* A handler starts tries in slots that were idle, one for each signature.  *)
LEMMA BeginSome ==
    ASSUME NEW sigs, Begin(sigs)
    PROVE  /\ UNCHANGED slot /\ tasks' \in [Tries -> {tasks'[k] : k \in Tries}]
           /\ \A k \in Tries :
                 \/ tasks'[k] = tasks[k]
                 \/ /\ tasks[k] = Idle
                    /\ \E s \in sigs : tasks'[k] = NewTry(s)
           /\ \A s \in sigs :
                 \E k \in Tries : tasks'[k] = NewTry(s)
<1>1. PICK try \in Injection(sigs, {k \in Tries : tasks[k] = Idle}) :
          tasks' = [k \in Tries |->
                      IF \E s \in sigs : try[s] = k
                      THEN [Idle EXCEPT !.pc = "stats",
                                        !.s = CHOOSE s \in sigs : try[s] = k]
                      ELSE tasks[k]]
  BY DEF Begin
<1>2. /\ try \in [sigs -> {k \in Tries : tasks[k] = Idle}]
      /\ \A s, t \in sigs : try[s] = try[t] => s = t
  BY DEF Injection, IsInjective
<1>3. ASSUME NEW k \in Tries, NEW s \in sigs, try[s] = k
      PROVE  /\ tasks[k] = Idle
             /\ tasks'[k] = NewTry(s)
  <2>1. (CHOOSE t \in sigs : try[t] = k) = s
    BY <1>2, <1>3
  <2> QED BY <1>1, <1>2, <1>3, <2>1 DEF NewTry
<1>4. ASSUME NEW k \in Tries, ~\E s \in sigs : try[s] = k
      PROVE  tasks'[k] = tasks[k]
  BY <1>1, <1>4
<1>5. \A s \in sigs : try[s] \in Tries
  BY <1>2
<1>6. UNCHANGED slot /\ tasks' \in [Tries -> {tasks'[k] : k \in Tries}]
  BY <1>1 DEF Begin
<1>7. \A k \in Tries :
         \/ tasks'[k] = tasks[k]
         \/ /\ tasks[k] = Idle
            /\ \E s \in sigs : tasks'[k] = NewTry(s)
  BY <1>3, <1>4
<1>8. \A s \in sigs :
         \E k \in Tries : tasks'[k] = NewTry(s)
  BY <1>3, <1>5
<1> QED BY <1>6, <1>7, <1>8

LEMMA NewTryGood ==
    ASSUME NEW s \in Signatures, NEW now, Given(s.order) # None
    PROVE  Good(NewTry(s), now)
<1> DEFINE t == NewTry(s)
<1>1. /\ t \in Task /\ t.pc = "stats" /\ t.s = s /\ ~t.timer /\ ~t.listening
      /\ t.landed = 0
  BY IdleFields DEF NewTry, Idle, Task
<1> HIDE DEF t
<1>2. Good(t, now)
  BY <1>1 DEF Good
<1> QED BY <1>2 DEF t

(* A new slot moves the tries that listen for it, and none that awaits its  *)
(* stats.                                                                   *)
LEMMA HeardGood ==
    ASSUME TypeOK, NEW t, NEW n \in Nat, slot <= n, Good(t, slot)
    PROVE  /\ Good(Heard(t, n), n)
           /\ Heard(t, n).s = t.s
           /\ t.pc \in {"stats", "rejected"} => Heard(t, n).pc = t.pc
<1> DEFINE heard == [t EXCEPT !.listening = FALSE]
<1>1. t \in Task /\ slot \in Int /\ t.target \in Int
  BY TaskFields DEF Good, TypeOK
<1>2. /\ heard \in Task /\ heard.pc = t.pc /\ heard.s = t.s /\ heard.target = t.target
      /\ heard.landed = t.landed /\ heard.params = t.params /\ heard.answer = t.answer
      /\ ~heard.listening /\ heard.timer = t.timer
  BY <1>1 DEF Task
<1>3. Heard(t, n) = IF t.listening /\ n >= t.target /\ Crosses(t) THEN Sends(heard) ELSE heard
  BY DEF Heard
<1> HIDE DEF heard
<1>4. Good(heard, n)
  BY <1>1, <1>2 DEF Good
<1>5. ASSUME t.listening, n >= t.target
      PROVE  Good(Sends(heard), n) /\ Sends(heard).s = t.s /\ t.pc = "waiting"
  <2>1. /\ t.pc = "waiting" /\ heard.s \in Signatures
        /\ Given(heard.s.order) # None /\ heard.landed = 0
    BY <1>2, <1>5 DEF Good
  <2>2. Sends(heard).s = t.s
    BY <1>2 DEF Sends, Task
  <2> QED BY <1>2, <1>5, <2>1, <2>2, SendsGood
<1> QED BY <1>2, <1>3, <1>4, <1>5

(* The orders a handler starts tries for have parameters, and an order it   *)
(* enters without a try is a spot order.                                    *)
Handles ==
    /\ BaseTypeOK' /\ UNCHANGED <<perpParams, spotParams>>
    /\ \E sigs \in SUBSET Signatures :
          /\ Begin(sigs)
          /\ \A s \in sigs : Given(s.order) # None
          /\ \A s \in onGoingAuctions' :
                s \in onGoingAuctions \/ s \in sigs \/ s.order \in SpotOrders

LEMMA AccountStarts ==
    ASSUME TypeOK, OnAccountUpdate
    PROVE  Handles
<1> DEFINE sigs == {Chain(o) : o \in Started(update) \ Dropped(update)}
<1>1. /\ AccountHandled(Dropped(update)) /\ Begin(sigs)
      /\ Started(update) \subseteq Orders /\ Noted(update) \subseteq Orders
  BY DEF OnAccountUpdate, Started, Noted, Reached
<1>2. \A o \in Orders : Chain(o) \in Signatures /\ Chain(o).order = o
  BY DEF Chain, Signatures
<1>3. \A o \in Started(update) : Given(o) # None /\ (o \in Dropped(update) => o \in SpotOrders)
  BY DEF Started, Tryable, Listened, Given, Dropped
<1>4. passedOver' \in [Orders -> Nat]
  BY <1>1 DEF AccountHandled, TypeOK, BaseTypeOK
<1>5. BaseTypeOK' /\ UNCHANGED <<perpParams, spotParams>>
  BY <1>1, <1>2, <1>4 DEF AccountHandled, TypeOK, BaseTypeOK
<1>6. sigs \in SUBSET Signatures /\ \A s \in sigs : Given(s.order) # None
  BY <1>1, <1>2, <1>3
<1>7. \A s \in onGoingAuctions' :
         s \in onGoingAuctions \/ s \in sigs \/ s.order \in SpotOrders
  BY <1>1, <1>2, <1>3 DEF AccountHandled
<1> QED BY <1>1, <1>5, <1>6, <1>7 DEF Handles

LEMMA SwiftStart ==
    ASSUME TypeOK, NEW o \in SwiftOrders, NEW small \in BOOLEAN, OnSwiftOrder(o, small)
    PROVE  Handles
<1> DEFINE sigs == IF SwiftStarts(o, small) THEN {Swift(o)} ELSE {}
<1>1. SwiftHandled(o, small) /\ Begin(sigs)
  BY DEF OnSwiftOrder
<1>2. Swift(o) \in Signatures /\ Swift(o).order = o /\ o \notin SpotOrders
  BY DEF Swift, Signatures
<1>3. sigs \in SUBSET Signatures /\ \A s \in sigs : Given(s.order) # None
  BY <1>2 DEF Given, SwiftStarts
<1>4. BaseTypeOK' /\ UNCHANGED <<perpParams, spotParams>>
  BY <1>1, <1>2 DEF SwiftHandled, TypeOK, BaseTypeOK
<1>5. \A s \in onGoingAuctions' : s \in onGoingAuctions \/ s \in sigs
  BY <1>1 DEF SwiftHandled
<1> QED BY <1>1, <1>3, <1>4, <1>5 DEF Handles

LEMMA EnvironmentMoves ==
    ASSUME TypeOK, Environment
    PROVE  BaseTypeOK' /\ ParamsStay /\ UNCHANGED <<seenOrders, onGoingAuctions>>
<1>1. ASSUME NEW o \in Orders, NEW phase \in Phases, NEW dust \in BOOLEAN,
             OrderMoves(o, phase, dust)
      PROVE  BaseTypeOK' /\ ParamsStay /\ UNCHANGED <<seenOrders, onGoingAuctions>>
  BY <1>1 DEF OrderMoves, TypeOK, BaseTypeOK, Book, ParamsStay, Given
<1>2. CASE SendUpdate
  BY <1>2 DEF SendUpdate, TypeOK, BaseTypeOK, ParamsStay, Given
<1>3. ASSUME NEW m \in Markets, NEW v \in PerpValues, UpdatePerpParams(m, v)
      PROVE  BaseTypeOK' /\ ParamsStay /\ UNCHANGED <<seenOrders, onGoingAuctions>>
  BY <1>3 DEF UpdatePerpParams, TypeOK, BaseTypeOK, ParamsStay, Given
<1>4. ASSUME NEW m \in Markets, NEW v \in SpotValues, UpdateSpotParams(m, v)
      PROVE  BaseTypeOK' /\ ParamsStay /\ UNCHANGED <<seenOrders, onGoingAuctions>>
  BY <1>4 DEF UpdateSpotParams, TypeOK, BaseTypeOK, ParamsStay, Given
<1> QED BY <1>1, <1>2, <1>3, <1>4 DEF Environment

(* Slots pass and parameters are replaced: whoever does not move stays good.*)
LEMMA StepGood ==
    ASSUME TypeOK, AllGood, slot' \in 0..LastSlot, slot <= slot', ParamsStay,
           tasks' \in [Tries -> {tasks'[k] : k \in Tries}],
           \A k \in Tries : tasks'[k] = tasks[k] \/ Good(tasks'[k], slot')
    PROVE  AllGood' /\ tasks' \in [Tries -> Task]
<1>1. slot \in Nat /\ slot' \in Nat
  BY DEF TypeOK
<1>2. ASSUME NEW k \in Tries
      PROVE  Good(tasks[k], slot)' /\ tasks'[k] \in Task
  <2>1. PICK t : t = tasks'[k]
    OBVIOUS
  <2>2. PICK now : now = slot'
    OBVIOUS
  <2>3. Good(t, now)'
    <3>1. PICK before : before = slot
      OBVIOUS
    <3>2. CASE t = tasks[k]
      BY <1>1, <2>2, <3>1, <3>2, GoodStays DEF AllGood
    <3>3. CASE Good(t, now)
      BY <1>1, <2>2, <3>3, GoodStays
    <3> QED BY <2>1, <2>2, <3>2, <3>3
  <2> QED BY <2>1, <2>2, <2>3 DEF Good
<1> QED BY <1>2 DEF AllGood

-----------------------------------------------------------------------------
(* Invariants *)

(* What the theorems follow from.                                           *)
Sound == TypeOK /\ AllGood

(* What a step is for the tries and the registries.                         *)
LEMMA Steps ==
    ASSUME Sound, [Next]_vars
    PROVE  \/ \E k \in Tries : Moves(k)
           \/ Handles
           \/ \E n \in 1..LastSlot : NewSlot(n)
           \/ /\ BaseTypeOK' /\ ParamsStay
              /\ UNCHANGED <<seenOrders, onGoingAuctions, slot, tasks>>
<1> USE DEF Sound
<1>1. CASE Environment /\ UNCHANGED <<slot, tasks>>
  BY <1>1, EnvironmentMoves
<1>2. CASE OnAccountUpdate
  BY <1>2, AccountStarts
<1>3. ASSUME NEW o \in SwiftOrders, NEW small \in BOOLEAN, OnSwiftOrder(o, small)
      PROVE  Handles
  BY <1>3, SwiftStart
<1>4. CASE SlotPasses
  BY <1>4 DEF SlotPasses
<1>5. ASSUME NEW k \in Tries, TryStep(k) \/ Tick(k)
      PROVE  Moves(k)
  BY <1>5, TryStepMoves, TickMoves
<1>6. CASE UNCHANGED vars
  BY <1>6 DEF vars, baseVars, TypeOK, BaseTypeOK, ParamsStay, Given
<1> QED BY <1>1, <1>2, <1>3, <1>4, <1>5, <1>6 DEF Next

LEMMA StepKeepsSound ==
    ASSUME Sound, [Next]_vars
    PROVE  Sound'
<1> USE DEF Sound
<1>1. slot \in 0..LastSlot /\ slot <= slot
  BY DEF TypeOK
<1>2. ASSUME NEW k \in Tries, Moves(k)
      PROVE  BaseTypeOK' /\ slot' \in 0..LastSlot /\ AllGood' /\ tasks' \in [Tries -> Task]
  <2>1. PICK u : /\ Becomes(k, u) /\ Good(u, slot)
                 /\ \/ Forget(tasks[k].s)
                    \/ UNCHANGED <<seenOrders, onGoingAuctions>>
    BY <1>2 DEF Moves
  <2>2. UNCHANGED <<perpParams, spotParams, slot>> /\ BaseTypeOK'
    BY <1>2, <2>1 DEF Moves, Forget, TypeOK, BaseTypeOK
  <2>3. ParamsStay
    BY <2>2 DEF ParamsStay, Given
  <2>4. tasks' \in [Tries -> {tasks'[j] : j \in Tries}]
    BY <2>1 DEF Becomes, TypeOK
  <2>5. \A j \in Tries : tasks'[j] = tasks[j] \/ Good(tasks'[j], slot')
    BY <2>1, <2>2 DEF Becomes, TypeOK
  <2> QED BY <1>1, <2>2, <2>3, <2>4, <2>5, StepGood
<1>3. ASSUME NEW sigs \in SUBSET Signatures, Begin(sigs), BaseTypeOK',
             UNCHANGED <<perpParams, spotParams>>, \A s \in sigs : Given(s.order) # None
      PROVE  BaseTypeOK' /\ slot' \in 0..LastSlot /\ AllGood' /\ tasks' \in [Tries -> Task]
  <2>1. ParamsStay
    BY <1>3 DEF ParamsStay, Given
  <2>2. \A j \in Tries : tasks'[j] = tasks[j] \/ Good(tasks'[j], slot')
    <3> TAKE j \in Tries
    <3>1. CASE tasks'[j] = tasks[j]
      BY <3>1
    <3>2. ASSUME NEW s \in sigs, tasks'[j] = NewTry(s)
          PROVE  Good(tasks'[j], slot')
      <4>1. Good(NewTry(s), slot')
        BY <1>3, NewTryGood
      <4> QED BY <3>2, <4>1
    <3>3. tasks'[j] = tasks[j] \/ \E s \in sigs : tasks'[j] = NewTry(s)
      BY <1>3, BeginSome
    <3> QED BY <3>1, <3>2, <3>3, Zenon
  <2>3. slot' = slot /\ tasks' \in [Tries -> {tasks'[j] : j \in Tries}]
    BY <1>3, BeginSome
  <2> QED BY <1>1, <1>3, <2>1, <2>2, <2>3, StepGood
<1>4. ASSUME NEW n \in 1..LastSlot, NewSlot(n)
      PROVE  BaseTypeOK' /\ slot' \in 0..LastSlot /\ AllGood' /\ tasks' \in [Tries -> Task]
  <2>1. slot' = n /\ n \in Nat /\ slot <= n /\ n \in 0..LastSlot
    BY <1>1, <1>4 DEF NewSlot
  <2>2. BaseTypeOK' /\ ParamsStay
    BY <1>4 DEF NewSlot, baseVars, TypeOK, BaseTypeOK, ParamsStay, Given
  <2>3. \A j \in Tries : Good(tasks'[j], slot')
    BY <1>4, <2>1, HeardGood DEF NewSlot, AllGood
  <2>4. tasks' \in [Tries -> {tasks'[j] : j \in Tries}]
    BY <1>4 DEF NewSlot
  <2> QED BY <2>1, <2>2, <2>3, <2>4, StepGood
<1>5. ASSUME BaseTypeOK', ParamsStay,
             UNCHANGED <<seenOrders, onGoingAuctions, slot, tasks>>
      PROVE  BaseTypeOK' /\ slot' \in 0..LastSlot /\ AllGood' /\ tasks' \in [Tries -> Task]
  <2>1. tasks' \in [Tries -> {tasks'[j] : j \in Tries}]
    BY <1>5 DEF TypeOK
  <2>2. slot' = slot /\ \A j \in Tries : tasks'[j] = tasks[j]
    BY <1>5
  <2>3. slot' \in 0..LastSlot /\ slot <= slot'
    BY <1>1, <2>2
  <2>4. BaseTypeOK' /\ ParamsStay
    BY <1>5
  <2>5. \A j \in Tries : tasks'[j] = tasks[j] \/ Good(tasks'[j], slot')
    BY <2>2
  <2> QED BY <2>1, <2>3, <2>4, <2>5, StepGood
<1>6. BaseTypeOK' /\ slot' \in 0..LastSlot /\ AllGood' /\ tasks' \in [Tries -> Task]
  <2>1. ASSUME Handles
        PROVE  BaseTypeOK' /\ slot' \in 0..LastSlot /\ AllGood' /\ tasks' \in [Tries -> Task]
    BY <1>3, <2>1 DEF Handles
  <2> QED BY <1>2, <1>4, <1>5, <2>1, Steps, Zenon
<1>7. \A k \in Tries : tasks'[k].pc = "sending" =>
                         tasks'[k].params \in Kind(tasks'[k].s.order)
  BY <1>6 DEF AllGood, Good, Kind
<1> QED BY <1>6, <1>7 DEF TypeOK, Kind

LEMMA StartsSound == Init => Sound
<1> SUFFICES ASSUME Init PROVE Sound
  OBVIOUS
<1>1. BaseTypeOK
  BY DEF Init, BaseInit, BaseTypeOK, Book, Phases
<1>2. slot \in 0..LastSlot /\ tasks \in [Tries -> Task]
  BY IdleFields DEF Init
<1>3. \A k \in Tries : tasks[k] = Idle
  BY DEF Init
<1> QED BY <1>1, <1>2, <1>3, IdleFields, IdleGood DEF Sound, TypeOK, AllGood

LEMMA AlwaysSound == Spec => []Sound
  BY StartsSound, StepKeepsSound, PTL DEF Spec

(* The fields of a try stay in their ranges through every interleaving of   *)
(* waits, slots, timers and rounds, and a transaction is sent with          *)
(* parameters of the order's own kind of market.                            *)
THEOREM SniperTypeCorrect == Spec => []TypeOK
<1>1. Sound => TypeOK
  BY DEF Sound
<1> QED BY <1>1, AlwaysSound, PTL

(* Whichever of the three ways out of the wait it takes, and however often  *)
(* the timer moved its target, a try sends at its target slot or later.     *)
THEOREM SniperNeverEarly == Spec => []NeverEarly
<1>1. Sound => NeverEarly
  BY DEF Sound, AllGood, Good, NeverEarly
<1> QED BY <1>1, AlwaysSound, PTL

(* The slot listener does not outlive the wait, and a wait never lacks the  *)
(* interval that can end it.                                                *)
THEOREM SniperWaitIsWatched == Spec => []WaitIsWatched
<1>1. Sound => WaitIsWatched
  BY DEF Sound, AllGood, Good, WaitIsWatched
<1> QED BY <1>1, AlwaysSound, PTL

(* A try that retries what the error allows fills once at most, although    *)
(* confirmations get lost.                                                  *)
THEOREM SniperFillsOnce == Spec => []OneFillPerTry
<1>1. Sound => OneFillPerTry
  BY DEF Sound, AllGood, Good, OneFillPerTry
<1> QED BY <1>1, AlwaysSound, PTL

LEMMA StepKeepsEntries ==
    ASSUME Sound, EntriesAwaitStats, [Next]_vars
    PROVE  EntriesAwaitStats'
<1> USE DEF Sound
<1> DEFINE Awaits(k, s) == tasks[k].s = s /\ tasks[k].pc \in {"stats", "rejected"}
<1>1. ASSUME NEW k \in Tries, Moves(k), NEW s \in onGoingAuctions', s.order \notin SpotOrders
      PROVE  \E j \in Tries : Awaits(j, s)'
  <2>1. PICK u : /\ Becomes(k, u)
                 /\ \/ Forget(tasks[k].s)
                    \/ /\ UNCHANGED <<seenOrders, onGoingAuctions>>
                       /\ tasks[k].pc \in {"stats", "rejected"} =>
                             u.pc = "rejected" /\ u.s = tasks[k].s
    BY <1>1 DEF Moves
  <2>2. s \in onGoingAuctions
    BY <1>1, <2>1 DEF Forget
  <2>3. PICK j \in Tries : Awaits(j, s)
    BY <1>1, <2>2 DEF EntriesAwaitStats
  <2>4. tasks'[k] = u /\ \A l \in Tries \ {k} : tasks'[l] = tasks[l]
    BY <2>1 DEF Becomes, TypeOK
  <2>5. CASE j # k
    BY <2>3, <2>4, <2>5
  <2>6. CASE j = k
    BY <1>1, <2>1, <2>3, <2>4, <2>6 DEF Forget
  <2> QED BY <2>5, <2>6
<1>2. ASSUME NEW sigs \in SUBSET Signatures, Begin(sigs),
             \A s \in onGoingAuctions' :
                s \in onGoingAuctions \/ s \in sigs \/ s.order \in SpotOrders,
             NEW s \in onGoingAuctions', s.order \notin SpotOrders
      PROVE  \E j \in Tries : Awaits(j, s)'
  <2>1. CASE s \in onGoingAuctions
    <3>1. PICK j \in Tries : Awaits(j, s)
      BY <1>2, <2>1 DEF EntriesAwaitStats
    <3>2. tasks'[j] = tasks[j]
      BY <1>2, <3>1, BeginSome, IdleFields
    <3> QED BY <3>1, <3>2
  <2>2. CASE s \in sigs
    <3>1. PICK j \in Tries : tasks'[j] = NewTry(s)
      BY <1>2, <2>2, BeginSome
    <3>2. tasks'[j].pc = "stats" /\ tasks'[j].s = s
      BY <3>1 DEF NewTry, Idle
    <3> QED BY <3>2
  <2> QED BY <1>2, <2>1, <2>2
<1>3. ASSUME NEW n \in 1..LastSlot, NewSlot(n), NEW s \in onGoingAuctions',
             s.order \notin SpotOrders
      PROVE  \E j \in Tries : Awaits(j, s)'
  <2>1. PICK j \in Tries : Awaits(j, s)
    BY <1>3 DEF NewSlot, baseVars, EntriesAwaitStats
  <2>2. n \in Nat /\ slot <= n
    BY <1>3 DEF NewSlot, TypeOK
  <2>3. tasks'[j].s = tasks[j].s /\ tasks'[j].pc = tasks[j].pc
    BY <1>3, <2>1, <2>2, HeardGood DEF NewSlot, AllGood
  <2> QED BY <2>1, <2>3
<1>4. ASSUME UNCHANGED <<onGoingAuctions, tasks>>
      PROVE  EntriesAwaitStats'
  BY <1>4 DEF EntriesAwaitStats
<1> QED BY <1>1, <1>2, <1>3, <1>4, Steps DEF EntriesAwaitStats, Handles

(* Although tries of one order overlap and delete each other's entry, a     *)
(* perp order that is entered has a try that still awaits the stats or will *)
(* never load them: no entry is left behind by a try that has gone on.      *)
THEOREM SniperEntriesAwaitStats == Spec => []EntriesAwaitStats
<1>1. Init => EntriesAwaitStats
  BY DEF Init, BaseInit, EntriesAwaitStats
<1>2. Sound /\ EntriesAwaitStats /\ [Next]_vars => EntriesAwaitStats'
  BY StepKeepsEntries
<1> QED BY <1>1, <1>2, AlwaysSound, PTL DEF Spec

=============================================================================
