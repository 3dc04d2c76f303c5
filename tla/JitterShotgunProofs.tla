------------------------- MODULE JitterShotgunProofs -------------------------
(***************************************************************************)
(* Theorems about JitterShotgun for every number of orders, market, swift  *)
(* order and auction.  Steps says what a step is for the registries, and   *)
(* StepsOfTry what it can make of one try; the invariants follow from      *)
(* these two alone.                                                        *)
(***************************************************************************)
EXTENDS JitterShotgun, FiniteSets, FiniteSetTheorems, WellFoundedInduction, TLAPS

USE JitterAssumption, ShotgunAssumption

Closed(o) == book[o].phase = "closed"
Used(s, k) == tasks[s][k].pc # "idle"

-----------------------------------------------------------------------------
(* The state of one try *)

LEMMA SignatureOrder == \A s \in Signatures : s.order \in Orders
  BY DEF Signatures

LEMMA TaskFields ==
    ASSUME NEW t \in Task
    PROVE  /\ t.pc \in {"idle", "stats", "sending", "answered", "cooldown", "rejected"}
           /\ t.i \in Nat /\ t.params \in PerpValues \cup {None}
           /\ t.answer \in Answers /\ t.late \in Nat /\ t.landed \in Nat
  BY DEF Task

(* A refused transaction adds nothing to what has landed.                   *)
LEMMA NothingLands ==
    ASSUME NEW t \in Task, NEW answer
    PROVE  [t EXCEPT !.pc = "answered", !.answer = answer, !.landed = @ + 0]
              = [t EXCEPT !.pc = "answered", !.answer = answer]
<1>1. t.landed + 0 = t.landed
  BY TaskFields
<1>2. t = [pc |-> t.pc, i |-> t.i, params |-> t.params, answer |-> t.answer,
           late |-> t.late, landed |-> t.landed]
  BY DEF Task
<1> QED
  BY <1>1, <1>2

(* Only the slot a step is about changes.                                   *)
LEMMA BecomesOne ==
    ASSUME TypeOK, NEW s \in Signatures, NEW k \in Slots, NEW task,
           Becomes(s, k, task)
    PROVE  /\ \A t \in Signatures, l \in Slots :
                 tasks'[t][l] = IF t = s /\ l = k THEN task ELSE tasks[t][l]
           /\ task \in Task => tasks' \in [Signatures -> [Slots -> Task]]
  BY DEF TypeOK, Becomes

(* A handler starts tries in slots that were free.                          *)
LEMMA BeginSome ==
    ASSUME TypeOK, NEW sigs \in SUBSET Signatures, Begin(sigs)
    PROVE  /\ tasks' \in [Signatures -> [Slots -> Task]]
           /\ \A s \in Signatures, l \in Slots :
                 tasks'[s][l] = IF s \in sigs /\ l = FreeSlot(s)
                                THEN [Idle EXCEPT !.pc = "stats"] ELSE tasks[s][l]
           /\ \A s \in sigs : FreeSlot(s) \in Slots /\ tasks[s][FreeSlot(s)].pc = "idle"
<1>1. [Idle EXCEPT !.pc = "stats"] \in Task
  BY DEF Idle, Task, Answers
<1>2. \A s \in Signatures : FreeSlot(s) \in Slots
  BY DEF FreeSlot
<1> QED
  BY <1>1, <1>2 DEF Begin, TypeOK

(* What the loop does of a try: it goes on with a call, or gives up.        *)
Calls(t, u, closed) ==
    \E i \in Nat, params \in PerpValues :
       u = [t EXCEPT !.pc = "sending", !.i = i, !.params = params,
                     !.answer = "None", !.late = @ + (IF closed THEN 1 ELSE 0)]

(* What one step can make of a try, t before and u after, where closed says *)
(* whether its order is gone before the step.                               *)
StepOfTry(t, u, closed) ==
    \/ u = t \/ u = Idle
    \/ t.pc = "idle" /\ u = [Idle EXCEPT !.pc = "stats"]
    \/ t.pc = "stats" /\ Calls(t, u, closed)
    \/ t.pc = "stats" /\ u = [t EXCEPT !.pc = "rejected"]
    \/ /\ t.pc = "sending"
       /\ \/ \E answer \in Final \cup (IF closed THEN {} ELSE Retried) :
                u = [t EXCEPT !.pc = "answered", !.answer = answer]
          \/ \E answer \in {"Sent", "Timeout"} :
                /\ ~closed
                /\ u = [t EXCEPT !.pc = "answered", !.answer = answer,
                                 !.landed = @ + 1]
    \/ t.pc = "answered" /\ t.answer \in Retried /\ Calls(t, u, closed)
    \/ /\ t.pc = "answered" /\ t.answer \notin Retried
       /\ u = [t EXCEPT !.pc = "cooldown"]

LEMMA LoopHeadSteps ==
    ASSUME TypeOK, NEW s \in Signatures, NEW k \in Slots, NEW i \in Nat,
           LoopHead(s, k, i)
    PROVE  \/ Ends(s, k)
           \/ /\ \E u : Becomes(s, k, u) /\ Calls(tasks[s][k], u, Closed(s.order))
              /\ UNCHANGED baseVars
<1> DEFINE params == perpParams[MarketOf[s.order]]
<1>1. params \in PerpValues \cup {None}
  BY SignatureOrder DEF TypeOK, BaseTypeOK
<1>2. CASE i >= Duration[s.order] \/ params = None
  BY <1>2 DEF LoopHead
<1>3. CASE ~(i >= Duration[s.order] \/ params = None)
  <2> DEFINE u == [tasks[s][k] EXCEPT
                     !.pc = "sending", !.i = i, !.params = params, !.answer = "None",
                     !.late = @ + (IF Closed(s.order) THEN 1 ELSE 0)]
  <2>1. Becomes(s, k, u) /\ UNCHANGED baseVars
    BY <1>3 DEF LoopHead, Closed
  <2>2. Calls(tasks[s][k], u, Closed(s.order))
    BY <1>1, <1>3 DEF Calls
  <2> QED BY <2>1, <2>2
<1> QED BY <1>2, <1>3

(* A try takes a step of its own: it ends, or goes on.                      *)
GoesOn(s, k) ==
    /\ Used(s, k)
    /\ \E u : /\ Becomes(s, k, u) /\ u.pc # "idle"
              /\ StepOfTry(tasks[s][k], u, Closed(s.order))
    /\ UNCHANGED <<update, perpParams, spotParams, seenOrders, onGoingAuctions,
                   passedOver>>
    /\ book' \in Book /\ \A o \in Orders : Closed(o) => book'[o].phase = "closed"

LEMMA TryStepKinds ==
    ASSUME TypeOK, NEW s \in Signatures, NEW k \in Slots, TryStep(s, k)
    PROVE  (Used(s, k) /\ Ends(s, k)) \/ GoesOn(s, k)
<1> DEFINE t == tasks[s][k]
           closed == Closed(s.order)
<1>0. /\ t \in Task /\ s.order \in Orders
      /\ UNCHANGED baseVars =>
            /\ UNCHANGED <<update, perpParams, spotParams, seenOrders,
                           onGoingAuctions, passedOver>>
            /\ book' \in Book /\ \A o \in Orders : Closed(o) => book'[o].phase = "closed"
  BY SignatureOrder DEF TypeOK, BaseTypeOK, baseVars, Closed
<1>1. ASSUME NEW i \in Nat, LoopHead(s, k, i), Used(s, k),
             t.pc = "stats" \/ (t.pc = "answered" /\ t.answer \in Retried)
      PROVE  (Used(s, k) /\ Ends(s, k)) \/ GoesOn(s, k)
  <2>1. CASE Ends(s, k)
    BY <1>1, <2>1
  <2>2. ASSUME NEW u, Becomes(s, k, u), Calls(t, u, closed), UNCHANGED baseVars
        PROVE  GoesOn(s, k)
    <3>1. u.pc = "sending"
      BY <2>2, <1>0 DEF Calls, Task
    <3>2. StepOfTry(t, u, closed)
      BY <1>1, <2>2 DEF StepOfTry
    <3> QED BY <1>0, <1>1, <2>2, <3>1, <3>2 DEF GoesOn
  <2> QED BY <1>1, <2>1, <2>2, LoopHeadSteps
<1>2. CASE StatsLoaded(s, k)
  BY <1>1, <1>2 DEF StatsLoaded, Used
<1>3. CASE StatsFailed(s, k)
  <2> DEFINE u == [t EXCEPT !.pc = "rejected"]
  <2>1. Becomes(s, k, u) /\ UNCHANGED baseVars /\ t.pc = "stats"
    BY <1>3 DEF StatsFailed
  <2>2. u.pc = "rejected" /\ StepOfTry(t, u, closed)
    BY <1>0, <2>1 DEF StepOfTry, Task
  <2> QED BY <1>0, <2>1, <2>2 DEF GoesOn, Used
<1>4. ASSUME NEW answer \in Answers, Refused(s, k, answer)
      PROVE  GoesOn(s, k)
  <2> DEFINE u == [t EXCEPT !.pc = "answered", !.answer = answer]
  <2>1. /\ answer \in Final \cup (IF closed THEN {} ELSE Retried)
        /\ UNCHANGED baseVars /\ t.pc = "sending"
    BY <1>4 DEF Refused, Refusals, Closed
  <2>2. Becomes(s, k, u)
    <3>1. [t EXCEPT !.pc = "answered", !.answer = answer, !.landed = @ + 0] = u
      BY <1>0, NothingLands
    <3> QED BY <1>4, <3>1 DEF Refused, Answered
  <2>3. u.pc = "answered" /\ StepOfTry(t, u, closed)
    BY <1>0, <2>1 DEF StepOfTry, Task
  <2> QED BY <1>0, <2>1, <2>2, <2>3 DEF GoesOn, Used
<1>5. ASSUME NEW after \in Outcomes(s.order), NEW answer \in {"Sent", "Timeout"},
             Lands(s, k, after, answer)
      PROVE  GoesOn(s, k)
  <2> DEFINE u == [t EXCEPT !.pc = "answered", !.answer = answer, !.landed = @ + 1]
  <2>1. Becomes(s, k, u) /\ ~closed /\ t.pc = "sending"
    BY <1>5 DEF Lands, Answered, Closed
  <2>2. u.pc = "answered" /\ StepOfTry(t, u, closed)
    BY <1>0, <2>1 DEF StepOfTry, Task
  <2>3. book' \in Book /\ \A o \in Orders : Closed(o) => book'[o].phase = "closed"
    <3>1. after \in [phase: Phases, dust: BOOLEAN]
      BY DEF Outcomes, Phases
    <3>2. book' = [book EXCEPT ![s.order] = after]
      BY <1>5 DEF Lands
    <3> QED BY <1>0, <2>1, <3>1, <3>2 DEF TypeOK, BaseTypeOK, Book, Closed
  <2> QED BY <1>5, <2>1, <2>2, <2>3 DEF GoesOn, Used, Lands
<1>6. CASE Resumes(s, k)
  <2>1. CASE t.answer \in Retried
    <3>1. LoopHead(s, k, t.i + 1) /\ t.pc = "answered" /\ t.i + 1 \in Nat
      BY <1>0, <1>6, <2>1 DEF Resumes, Retries, Task
    <3> QED BY <1>1, <2>1, <3>1 DEF Used
  <2>2. CASE t.answer \notin Retried
    <3> DEFINE u == [t EXCEPT !.pc = "cooldown"]
    <3>1. Becomes(s, k, u) /\ UNCHANGED baseVars /\ t.pc = "answered"
      BY <1>6, <2>2 DEF Resumes, Retries
    <3>2. u.pc = "cooldown" /\ StepOfTry(t, u, closed)
      BY <1>0, <2>2, <3>1 DEF StepOfTry, Task
    <3> QED BY <1>0, <3>1, <3>2 DEF GoesOn, Used
  <2> QED BY <2>1, <2>2
<1>7. CASE Wakes(s, k)
  BY <1>7 DEF Wakes, Used
<1> QED
  BY <1>2, <1>3, <1>4, <1>5, <1>6, <1>7 DEF TryStep, Executed

(* What the handlers start: free slots for orders without an entry.         *)
Starts(sigs) ==
    /\ sigs \subseteq Signatures \ (seenOrders \cup onGoingAuctions)
    /\ Begin(sigs)
    /\ onGoingAuctions' = onGoingAuctions \cup sigs
    /\ seenOrders \cup sigs \subseteq seenOrders'
    /\ UNCHANGED <<book, perpParams, spotParams>>

LEMMA HandlersStart ==
    ASSUME TypeOK
    PROVE  /\ OnAccountUpdate => Starts({Chain(o) : o \in Started(update)})
           /\ \A o \in SwiftOrders, small \in BOOLEAN : OnSwiftOrder(o, small) =>
                 Starts(IF SwiftStarts(o, small) THEN {Swift(o)} ELSE {})
<1>1. ASSUME OnAccountUpdate
      PROVE  Starts({Chain(o) : o \in Started(update)})
  <2> DEFINE sigs == {Chain(o) : o \in Started(update)}
  <2>1. /\ seenOrders' = (seenOrders \cup {Chain(o) : o \in Noted(update)})
                             \ {Chain(o) : o \in {}}
        /\ onGoingAuctions' = onGoingAuctions \cup sigs
        /\ UNCHANGED <<book, perpParams, spotParams>> /\ Begin(sigs)
    BY <1>1 DEF OnAccountUpdate, AccountHandled
  <2>2. sigs \subseteq Signatures \ (seenOrders \cup onGoingAuctions)
    BY DEF Started, Noted, Fresh, Reached, Signatures, Chain
  <2>3. seenOrders \cup sigs \subseteq seenOrders'
    BY <2>1 DEF Started
  <2> QED BY <2>1, <2>2, <2>3 DEF Starts
<1>2. ASSUME NEW o \in SwiftOrders, NEW small \in BOOLEAN, OnSwiftOrder(o, small)
      PROVE  Starts(IF SwiftStarts(o, small) THEN {Swift(o)} ELSE {})
  BY <1>2 DEF OnSwiftOrder, SwiftHandled, SwiftStarts, Starts, Swift, Signatures
<1> QED BY <1>1, <1>2

(* The environment moves the account, its updates and the parameters.       *)
LEMMA EnvironmentMoves ==
    ASSUME TypeOK, Environment
    PROVE  /\ UNCHANGED <<seenOrders, onGoingAuctions, passedOver>>
           /\ book' \in Book /\ update' \in Book \cup {None}
           /\ perpParams' \in [Markets -> PerpValues \cup {None}]
           /\ spotParams' \in [Markets -> SpotValues \cup {None}]
           /\ \A o \in Orders : Closed(o) => book'[o].phase = "closed"
<1>1. ASSUME NEW o \in Orders, NEW phase \in Phases, NEW dust \in BOOLEAN,
             OrderMoves(o, phase, dust)
      PROVE  book' \in Book /\ \A p \in Orders : Closed(p) => book'[p].phase = "closed"
  BY <1>1 DEF OrderMoves, TypeOK, BaseTypeOK, Book, Closed
<1>2. CASE SendUpdate
  BY <1>2 DEF SendUpdate, TypeOK, BaseTypeOK, Closed
<1>3. ASSUME NEW m \in Markets, NEW v \in PerpValues, UpdatePerpParams(m, v)
      PROVE  /\ perpParams' \in [Markets -> PerpValues \cup {None}]
             /\ UNCHANGED <<book, update, spotParams, seenOrders, onGoingAuctions,
                            passedOver>>
  BY <1>3 DEF UpdatePerpParams, TypeOK, BaseTypeOK
<1>4. ASSUME NEW m \in Markets, NEW v \in SpotValues, UpdateSpotParams(m, v)
      PROVE  /\ spotParams' \in [Markets -> SpotValues \cup {None}]
             /\ UNCHANGED <<book, update, perpParams, seenOrders, onGoingAuctions,
                            passedOver>>
  BY <1>4 DEF UpdateSpotParams, TypeOK, BaseTypeOK
<1> QED
  BY <1>1, <1>2, <1>3, <1>4 DEF Environment, OrderMoves, TypeOK, BaseTypeOK, Closed

(* A step is one of these.                                                  *)
LEMMA Steps ==
    ASSUME TypeOK, [Next]_vars
    PROVE  \/ Environment /\ UNCHANGED tasks
           \/ UNCHANGED vars
           \/ OnAccountUpdate
           \/ \E o \in SwiftOrders, small \in BOOLEAN : OnSwiftOrder(o, small)
           \/ \E s \in Signatures, k \in Slots :
                 (Used(s, k) /\ Ends(s, k)) \/ GoesOn(s, k)
  BY TryStepKinds DEF Next

-----------------------------------------------------------------------------
(* Types *)

TaskOK(t) == t \in Task /\ (t.pc = "sending" => t.params # None)

LEMMA StepKeepsTask ==
    ASSUME NEW t, NEW u, NEW closed \in BOOLEAN, TaskOK(t), StepOfTry(t, u, closed)
    PROVE  TaskOK(u)
<1>1. TaskOK(Idle) /\ TaskOK([Idle EXCEPT !.pc = "stats"])
  BY DEF TaskOK, Idle, Task, Answers
<1>2. ASSUME Calls(t, u, closed)
      PROVE  TaskOK(u)
  <2>1. PICK i \in Nat, params \in PerpValues :
           u = [t EXCEPT !.pc = "sending", !.i = i, !.params = params,
                         !.answer = "None", !.late = @ + (IF closed THEN 1 ELSE 0)]
    BY <1>2 DEF Calls
  <2>2. t.late + (IF closed THEN 1 ELSE 0) \in Nat /\ t \in Task
    BY TaskFields DEF TaskOK
  <2> DEFINE late == t.late + (IF closed THEN 1 ELSE 0)
  <2> HIDE DEF late
  <2>3. late \in Nat /\ u = [t EXCEPT !.pc = "sending", !.i = i, !.params = params,
                                      !.answer = "None", !.late = late]
    BY <2>1, <2>2 DEF late
  <2>4. u \in Task /\ u.params = params
    BY <2>2, <2>3 DEF Task, Answers
  <2> QED BY <2>4 DEF TaskOK
<1>3. ASSUME NEW answer \in Answers, NEW n \in Nat,
             u = [t EXCEPT !.pc = "answered", !.answer = answer, !.landed = @ + n]
      PROVE  TaskOK(u)
  <2>1. t.landed + n \in Nat /\ t \in Task
    BY TaskFields DEF TaskOK
  <2> DEFINE landed == t.landed + n
  <2>2. landed \in Nat /\ u = [t EXCEPT !.pc = "answered", !.answer = answer,
                                         !.landed = landed]
    BY <1>3, <2>1
  <2> HIDE DEF landed
  <2>3. u \in Task /\ u.pc = "answered"
    BY <2>1, <2>2 DEF Task
  <2> QED BY <2>3 DEF TaskOK
<1>4. Final \cup Retried \cup {"Sent"} \subseteq Answers
  BY DEF Answers
<1>5. CASE u = [t EXCEPT !.pc = "rejected"] \/ u = [t EXCEPT !.pc = "cooldown"]
  BY <1>5 DEF TaskOK, Task
<1> QED
  <2>1. ASSUME NEW answer \in Answers, u = [t EXCEPT !.pc = "answered", !.answer = answer]
        PROVE  TaskOK(u)
    <3>1. u = [t EXCEPT !.pc = "answered", !.answer = answer, !.landed = @ + 0]
      BY <2>1, NothingLands DEF TaskOK
    <3> QED BY <1>3, <3>1
  <2> HIDE DEF Final, Retried
  <2> QED BY <1>1, <1>2, <1>3, <1>4, <1>5, <2>1 DEF StepOfTry, Final

(* Every step of the program is one or no step of each of its tries.        *)
LEMMA StepsOfTry ==
    ASSUME TypeOK, [Next]_vars
    PROVE  /\ tasks' \in [Signatures -> [Slots -> Task]]
           /\ \A s \in Signatures, k \in Slots :
                 StepOfTry(tasks[s][k], tasks'[s][k], Closed(s.order))
           /\ \A o \in Orders : Closed(o) => book'[o].phase = "closed"
<1> DEFINE Result ==
      /\ tasks' \in [Signatures -> [Slots -> Task]]
      /\ \A s \in Signatures, k \in Slots :
            StepOfTry(tasks[s][k], tasks'[s][k], Closed(s.order))
      /\ \A o \in Orders : Closed(o) => book'[o].phase = "closed"
<1>0. \A s \in Signatures, k \in Slots : TaskOK(tasks[s][k])
  BY DEF TypeOK, TaskOK
<1>1. CASE Environment /\ UNCHANGED tasks
  BY <1>1, EnvironmentMoves DEF TypeOK, StepOfTry
<1>2. CASE UNCHANGED vars
  BY <1>2 DEF vars, baseVars, TypeOK, StepOfTry, Closed
<1>3. ASSUME NEW sigs, Starts(sigs)
      PROVE  Result
  <2>1. sigs \in SUBSET Signatures /\ Begin(sigs) /\ book' = book
    BY <1>3 DEF Starts
  <2>2. \A s \in sigs : tasks[s][FreeSlot(s)].pc = "idle"
    BY <2>1, BeginSome
  <2>3. /\ tasks' \in [Signatures -> [Slots -> Task]]
        /\ \A s \in Signatures, l \in Slots :
              \/ tasks'[s][l] = tasks[s][l]
              \/ tasks[s][l].pc = "idle" /\ tasks'[s][l] = [Idle EXCEPT !.pc = "stats"]
    BY <2>1, <2>2, BeginSome
  <2>4. \A s \in Signatures, l \in Slots :
           StepOfTry(tasks[s][l], tasks'[s][l], Closed(s.order))
    BY <2>3 DEF StepOfTry
  <2> QED
    BY <2>1, <2>3, <2>4 DEF Closed
<1>4. ASSUME NEW s \in Signatures, NEW k \in Slots, Ends(s, k)
      PROVE  Result
  <2>1. Becomes(s, k, Idle) /\ book' = book
    BY <1>4 DEF Ends
  <2>2. Idle \in Task
    BY DEF Idle, Task, Answers
  <2>3. /\ tasks' \in [Signatures -> [Slots -> Task]]
        /\ \A t \in Signatures, l \in Slots :
              tasks'[t][l] = tasks[t][l] \/ tasks'[t][l] = Idle
    BY <2>1, <2>2, BecomesOne
  <2>4. \A t \in Signatures, l \in Slots :
           StepOfTry(tasks[t][l], tasks'[t][l], Closed(t.order))
    BY <2>3 DEF StepOfTry
  <2> QED
    BY <2>1, <2>3, <2>4 DEF Closed
<1>5. ASSUME NEW s \in Signatures, NEW k \in Slots, GoesOn(s, k)
      PROVE  Result
  <2>1. PICK u : /\ Becomes(s, k, u)
                 /\ StepOfTry(tasks[s][k], u, Closed(s.order))
    BY <1>5 DEF GoesOn
  <2>2. u \in Task
    BY <1>0, <2>1, StepKeepsTask DEF TaskOK, Closed
  <2>3. \A o \in Orders : Closed(o) => book'[o].phase = "closed"
    BY <1>5 DEF GoesOn
  <2>4. /\ tasks' \in [Signatures -> [Slots -> Task]]
        /\ \A t \in Signatures, l \in Slots :
              IF t = s /\ l = k THEN tasks'[t][l] = u ELSE tasks'[t][l] = tasks[t][l]
    BY <2>1, <2>2, BecomesOne
  <2>5. ASSUME NEW t \in Signatures, NEW l \in Slots
        PROVE  StepOfTry(tasks[t][l], tasks'[t][l], Closed(t.order))
    <3>1. CASE t = s /\ l = k
      BY <2>1, <2>4, <3>1
    <3>2. CASE ~(t = s /\ l = k)
      BY <2>4, <3>2 DEF StepOfTry
    <3> QED BY <3>1, <3>2
  <2> QED
    BY <2>3, <2>4, <2>5
<1> HIDE DEF Result
<1>6. Result
  BY <1>1, <1>2, <1>3, <1>4, <1>5, Steps, HandlersStart DEF Result
<1> QED BY <1>6 DEF Result

(* Calls are made with parameters, the registries hold signatures, and every*)
(* variable has its type.                                                   *)
THEOREM ShotgunTypeCorrect == Spec => []TypeOK
<1>1. Init => TypeOK
  <2> SUFFICES ASSUME Init PROVE TypeOK
    OBVIOUS
  <2>1. BaseTypeOK
    BY DEF Init, BaseInit, BaseTypeOK, Book, Phases
  <2>2. Idle \in Task
    BY DEF Idle, Task, Answers
  <2>3. /\ tasks \in [Signatures -> [Slots -> Task]]
        /\ \A s \in Signatures, k \in Slots : tasks[s][k].pc # "sending"
    BY <2>2 DEF Init, Idle
  <2> QED BY <2>1, <2>3 DEF TypeOK
<1>2. TypeOK /\ [Next]_vars => TypeOK'
  <2> SUFFICES ASSUME TypeOK, [Next]_vars
               PROVE  TypeOK'
    OBVIOUS
  <2>1. /\ tasks' \in [Signatures -> [Slots -> Task]]
        /\ \A s \in Signatures, k \in Slots :
              tasks'[s][k].pc = "sending" => tasks'[s][k].params # None
    BY StepsOfTry, StepKeepsTask DEF TypeOK, TaskOK, Closed
  <2>2. BaseTypeOK'
    <3>1. CASE Environment
      BY <3>1, EnvironmentMoves DEF TypeOK, BaseTypeOK
    <3>2. CASE UNCHANGED vars
      BY <3>2 DEF TypeOK, BaseTypeOK, vars, baseVars
    <3>3. CASE OnAccountUpdate
      <4>1. {Chain(o) : o \in Noted(update)} \cup {Chain(o) : o \in Started(update)}
               \subseteq Signatures
        BY DEF Noted, Started, Reached, Signatures, Chain
      <4>2. /\ update' = None /\ UNCHANGED <<book, perpParams, spotParams>>
            /\ seenOrders' \subseteq Signatures /\ onGoingAuctions' \subseteq Signatures
        BY <3>3, <4>1 DEF OnAccountUpdate, AccountHandled, TypeOK, BaseTypeOK
      <4>3. passedOver' \in [Orders -> Nat]
        BY <3>3 DEF OnAccountUpdate, AccountHandled, TypeOK, BaseTypeOK
      <4> QED BY <4>2, <4>3 DEF TypeOK, BaseTypeOK
    <3>4. ASSUME NEW o \in SwiftOrders, NEW small \in BOOLEAN, OnSwiftOrder(o, small)
          PROVE  BaseTypeOK'
      BY <3>4 DEF OnSwiftOrder, SwiftHandled, TypeOK, BaseTypeOK, Signatures, Swift
    <3>5. ASSUME NEW s \in Signatures, NEW k \in Slots,
                 (Used(s, k) /\ Ends(s, k)) \/ GoesOn(s, k)
          PROVE  BaseTypeOK'
      BY <3>5 DEF Ends, Forget, GoesOn, TypeOK, BaseTypeOK
    <3> QED BY <3>1, <3>2, <3>3, <3>4, <3>5, Steps
  <2> QED BY <2>1, <2>2 DEF TypeOK
<1>3. QED
  BY <1>1, <1>2, PTL DEF Spec

-----------------------------------------------------------------------------
(* What a try has done so far *)

(* A try that may still send has landed nothing, and one that may still be  *)
(* retried has made no call for an order that was gone.                     *)
History(t, closed) ==
    /\ t.pc \in {"stats", "sending"} => t.landed = 0
    /\ t.pc = "stats" => t.late = 0
    /\ t.pc = "sending" /\ ~closed => t.late = 0
    /\ t.pc = "answered" /\ t.answer \in Retried => t.landed = 0 /\ t.late = 0
    /\ t.late <= 1 /\ t.landed <= 1

LEMMA StepKeepsHistory ==
    ASSUME NEW t \in Task, NEW u, NEW closed \in BOOLEAN, NEW after \in BOOLEAN,
           closed => after, History(t, closed), StepOfTry(t, u, closed)
    PROVE  History(u, after)
<1>1. CASE u = t
  BY <1>1 DEF History
<1>2. CASE u = Idle \/ u = [Idle EXCEPT !.pc = "stats"]
  BY <1>2 DEF Idle, History
<1>3. ASSUME Calls(t, u, closed),
             t.pc = "stats" \/ (t.pc = "answered" /\ t.answer \in Retried)
      PROVE  History(u, after)
  <2>1. t.late = 0 /\ t.landed = 0
    BY <1>3 DEF History
  <2>2. /\ u.pc = "sending" /\ u.landed = t.landed
        /\ u.late = t.late + (IF closed THEN 1 ELSE 0)
    BY <1>3 DEF Calls, Task
  <2> QED BY <2>1, <2>2 DEF History
<1>4. CASE u = [t EXCEPT !.pc = "rejected"] \/ u = [t EXCEPT !.pc = "cooldown"]
  <2>1. u.late = t.late /\ u.landed = t.landed /\ u.pc \in {"rejected", "cooldown"}
    BY <1>4 DEF Task
  <2> QED BY <2>1 DEF History
<1>5. ASSUME NEW answer \in Final \cup (IF closed THEN {} ELSE Retried),
             t.pc = "sending", u = [t EXCEPT !.pc = "answered", !.answer = answer]
      PROVE  History(u, after)
  <2>1. /\ u.pc = "answered" /\ u.answer = answer
        /\ u.late = t.late /\ u.landed = t.landed
    BY <1>5 DEF Task
  <2>2. answer \in Retried => ~closed
    BY DEF Final, Retried
  <2> QED BY <1>5, <2>1, <2>2 DEF History
<1>6. ASSUME NEW answer \in {"Sent", "Timeout"}, t.pc = "sending", ~closed,
             u = [t EXCEPT !.pc = "answered", !.answer = answer, !.landed = @ + 1]
      PROVE  History(u, after)
  <2>1. /\ u.pc = "answered" /\ u.answer \notin Retried
        /\ u.late = t.late /\ u.landed = t.landed + 1
    BY <1>6 DEF Task, Retried
  <2> QED BY <1>6, <2>1 DEF History
<1> QED
  BY <1>1, <1>2, <1>3, <1>4, <1>5, <1>6 DEF StepOfTry

Histories == \A s \in Signatures, k \in Slots : History(tasks[s][k], Closed(s.order))

LEMMA AlwaysHistories == Spec => []Histories
<1>1. Init => Histories
  BY DEF Init, Histories, History, Idle
<1>2. TypeOK /\ Histories /\ [Next]_vars => Histories'
  <2> SUFFICES ASSUME TypeOK, Histories, [Next]_vars,
                      NEW s \in Signatures, NEW k \in Slots
               PROVE  History(tasks'[s][k], Closed(s.order)')
    BY DEF Histories
  <2>1. /\ tasks[s][k] \in Task /\ s.order \in Orders
        /\ History(tasks[s][k], Closed(s.order))
    BY SignatureOrder DEF TypeOK, Histories
  <2>2. StepOfTry(tasks[s][k], tasks'[s][k], Closed(s.order))
    BY StepsOfTry
  <2>3. Closed(s.order) => Closed(s.order)'
    BY <2>1, StepsOfTry DEF Closed
  <2> QED
    BY <2>1, <2>2, <2>3, StepKeepsHistory DEF Closed
<1>3. QED
  BY <1>1, <1>2, ShotgunTypeCorrect, PTL DEF Spec

(* A try fills at most once, even when a confirmation was lost: it sends no *)
(* other transaction after one that may have been executed.                 *)
THEOREM TriesFillOnce == Spec => []OneFillPerTry
<1>1. Histories => OneFillPerTry
  BY DEF Histories, History, OneFillPerTry
<1>2. QED
  BY <1>1, AlwaysHistories, PTL

(* A try calls at most once for an order that is gone.                      *)
THEOREM TriesCallOnceAfterClose == Spec => []OneCallAfterClose
<1>1. Histories => OneCallAfterClose
  BY DEF Histories, History, OneCallAfterClose
<1>2. QED
  BY <1>1, AlwaysHistories, PTL

-----------------------------------------------------------------------------
(* Entries and tries *)

(* An entry is exactly one slot in use, and is in seenOrders too.           *)
Entries ==
    /\ onGoingAuctions \subseteq seenOrders
    /\ \A s \in Signatures : ~(Used(s, 1) /\ Used(s, 2))
    /\ \A s \in Signatures : s \in onGoingAuctions <=> \E k \in Slots : Used(s, k)

LEMMA StepKeepsEntries ==
    ASSUME TypeOK, Entries, [Next]_vars
    PROVE  Entries'
<1>0. 1 \in Slots /\ 2 \in Slots /\ \A k \in Slots : k = 1 \/ k = 2
  OBVIOUS
<1>1. CASE \/ Environment /\ UNCHANGED tasks
           \/ UNCHANGED vars
  <2>1. UNCHANGED <<seenOrders, onGoingAuctions, tasks>>
    BY <1>1, EnvironmentMoves DEF vars, baseVars
  <2> QED BY <2>1 DEF Entries, Used
<1>2. ASSUME NEW sigs, Starts(sigs)
      PROVE  Entries'
  <2>1. /\ sigs \in SUBSET Signatures /\ Begin(sigs)
        /\ \A s \in sigs : s \notin onGoingAuctions
        /\ onGoingAuctions' = onGoingAuctions \cup sigs
        /\ seenOrders \cup sigs \subseteq seenOrders'
    BY <1>2 DEF Starts
  <2>2. \A s \in Signatures, l \in Slots :
           tasks'[s][l] = IF s \in sigs /\ l = FreeSlot(s)
                          THEN [Idle EXCEPT !.pc = "stats"] ELSE tasks[s][l]
    BY <2>1, BeginSome
  <2>3. [Idle EXCEPT !.pc = "stats"].pc = "stats"
    BY DEF Idle
  <2>4. ASSUME NEW s \in sigs
        PROVE  /\ ~Used(s, 1) /\ ~Used(s, 2) /\ s \in Signatures
               /\ Used(s, 1)' /\ ~Used(s, 2)'
    <3>1. ~Used(s, 1) /\ ~Used(s, 2) /\ s \in Signatures
      BY <1>0, <2>1 DEF Entries
    <3>2. FreeSlot(s) = 1
      BY <3>1 DEF FreeSlot, Used
    <3>3. tasks'[s][1] = [Idle EXCEPT !.pc = "stats"] /\ tasks'[s][2] = tasks[s][2]
      BY <1>0, <2>2, <3>1, <3>2
    <3> QED BY <2>3, <3>1, <3>3 DEF Used
  <2>5. ASSUME NEW s \in Signatures, s \notin sigs
        PROVE  \A k \in Slots : Used(s, k)' <=> Used(s, k)
    BY <2>2, <2>5 DEF Used
  <2>6. onGoingAuctions' \subseteq seenOrders'
    BY <2>1 DEF Entries
  <2>7. ASSUME NEW s \in Signatures
        PROVE  /\ ~(Used(s, 1)' /\ Used(s, 2)')
               /\ s \in onGoingAuctions' <=> \E k \in Slots : Used(s, k)'
    BY <1>0, <2>1, <2>4, <2>5 DEF Entries
  <2> QED BY <2>6, <2>7 DEF Entries
<1>3. ASSUME NEW s \in Signatures, NEW k \in Slots, Used(s, k), Ends(s, k)
      PROVE  Entries'
  <2>1. /\ Becomes(s, k, Idle)
        /\ onGoingAuctions' = onGoingAuctions \ {s} /\ seenOrders' = seenOrders \ {s}
    BY <1>3 DEF Ends, Forget
  <2>2. \A t \in Signatures, l \in Slots :
           Used(t, l)' <=> Used(t, l) /\ ~(t = s /\ l = k)
    <3>1. Idle.pc = "idle"
      BY DEF Idle
    <3> QED BY <2>1, <3>1, BecomesOne DEF Used
  <2>3. \A l \in Slots : ~Used(s, l)'
    BY <1>0, <1>3, <2>2 DEF Entries
  <2> QED BY <1>0, <2>1, <2>2, <2>3 DEF Entries
<1>4. ASSUME NEW s \in Signatures, NEW k \in Slots, GoesOn(s, k)
      PROVE  Entries'
  <2>1. PICK u : Becomes(s, k, u) /\ u.pc # "idle"
    BY <1>4 DEF GoesOn
  <2>2. Used(s, k) /\ UNCHANGED <<seenOrders, onGoingAuctions>>
    BY <1>4 DEF GoesOn
  <2>3. \A t \in Signatures, l \in Slots : Used(t, l)' <=> Used(t, l)
    BY <2>1, <2>2, BecomesOne DEF Used
  <2> QED BY <1>0, <2>2, <2>3 DEF Entries
<1> QED
  BY <1>1, <1>2, <1>3, <1>4, Steps, HandlersStart

LEMMA AlwaysEntries == Spec => []Entries
<1>1. Init => Entries
  BY DEF Init, BaseInit, Entries, Used, Idle
<1>2. TypeOK /\ Entries /\ [Next]_vars => Entries'
  BY StepKeepsEntries
<1>3. QED
  BY <1>1, <1>2, ShotgunTypeCorrect, PTL DEF Spec

(* One try of an order runs at a time, however often the order is reported. *)
THEOREM TriesAreAlone == Spec => []OneTryPerSignature
<1>1. Entries => OneTryPerSignature
  BY DEF Entries, Used, Running, OneTryPerSignature
<1>2. QED
  BY <1>1, AlwaysEntries, PTL

(* An entry in the registries is that of a try, and nothing else keeps an   *)
(* order from being tried again.                                            *)
THEOREM EntriesAlwaysAreTries == Spec => []EntriesAreTries
<1>1. Entries => EntriesAreTries
  BY DEF Entries, Used, EntriesAreTries
<1>2. QED
  BY <1>1, AlwaysEntries, PTL

(* The account handler leaves swift orders alone.                           *)
SwiftOnlyBySwift ==
    IgnoreSwift => \A o \in SwiftOrders : Chain(o) \notin onGoingAuctions

LEMMA AlwaysSwiftOnlyBySwift == Spec => []SwiftOnlyBySwift
<1>1. Init => SwiftOnlyBySwift
  BY DEF Init, BaseInit, SwiftOnlyBySwift
<1>2. TypeOK /\ SwiftOnlyBySwift /\ [Next]_vars => SwiftOnlyBySwift'
  <2> SUFFICES ASSUME TypeOK, SwiftOnlyBySwift, [Next]_vars, IgnoreSwift,
                      NEW o \in SwiftOrders
               PROVE  Chain(o) \notin onGoingAuctions'
    BY DEF SwiftOnlyBySwift
  <2>0. Chain(o) \notin onGoingAuctions
    BY DEF SwiftOnlyBySwift
  <2>1. CASE Environment \/ UNCHANGED vars
    BY <2>0, <2>1, EnvironmentMoves DEF vars, baseVars
  <2>2. CASE OnAccountUpdate
    <3>1. onGoingAuctions' = onGoingAuctions \cup {Chain(p) : p \in Started(update)}
      BY <2>2 DEF OnAccountUpdate, AccountHandled
    <3>2. o \notin Started(update)
      BY DEF Started, Noted, Fresh, Considered
    <3> QED BY <2>0, <3>1, <3>2 DEF Chain
  <2>3. ASSUME NEW p \in SwiftOrders, NEW small \in BOOLEAN, OnSwiftOrder(p, small)
        PROVE  Chain(o) \notin onGoingAuctions'
    BY <2>0, <2>3 DEF OnSwiftOrder, SwiftHandled, Chain, Swift
  <2>4. ASSUME NEW s \in Signatures, NEW k \in Slots,
               (Used(s, k) /\ Ends(s, k)) \/ GoesOn(s, k)
        PROVE  Chain(o) \notin onGoingAuctions'
    BY <2>0, <2>4 DEF Ends, Forget, GoesOn
  <2> QED BY <2>1, <2>2, <2>3, <2>4, Steps
<1>3. QED
  BY <1>1, <1>2, ShotgunTypeCorrect, PTL DEF Spec

(* When the account handler leaves swift orders to the swift subscriber, no *)
(* order is tried under both of its signatures at the same time.            *)
THEOREM TriesAreAlonePerOrder == Spec => []OneTryPerOrder
<1>1. Entries /\ SwiftOnlyBySwift => OneTryPerOrder
  <2>1. \A o \in SwiftOrders : Chain(o) \in Signatures
    BY DEF Chain, Signatures
  <2> QED BY <2>1 DEF Entries, SwiftOnlyBySwift, OneTryPerOrder, Used, Running
<1>2. QED
  BY <1>1, AlwaysEntries, AlwaysSwiftOnlyBySwift, PTL

-----------------------------------------------------------------------------
(* Overlooked orders *)

LessThan == {p \in Nat \X Nat : p[1] < p[2]}

LEMMA SmallestNumber ==
    ASSUME NEW S \in SUBSET Nat, S # {}
    PROVE  \E n \in S : \A m \in S : n <= m
<1>1. IsWellFoundedOn(LessThan, Nat)
  BY NatLessThanWellFounded DEF LessThan, OpToRel
<1>2. PICK n \in S : \A m \in S : ~(<<m, n>> \in LessThan)
  BY <1>1, WFMin
<1>3. ASSUME NEW m \in S
      PROVE  n <= m
  <2>1. m \in Nat /\ n \in Nat /\ ~(m < n)
    BY <1>2 DEF LessThan
  <2> QED BY <2>1
<1> QED BY <1>3

(* The orders before o that made the handler return once and never will     *)
(* again: they are noted, and no try of them runs that could forget them.   *)
PutAside(o) == {b \in 1..(o - 1) : Chain(b) \in seenOrders \ onGoingAuctions}

LEMMA PutAsideStays ==
    ASSUME TypeOK, Entries, [Next]_vars, NEW o \in Orders
    PROVE  PutAside(o) \subseteq PutAside(o)'
<1> SUFFICES ASSUME NEW s \in Signatures, s \in seenOrders \ onGoingAuctions
             PROVE  s \in seenOrders' \ onGoingAuctions'
  BY DEF PutAside, Chain, Signatures, Orders
<1>1. CASE \/ Environment /\ UNCHANGED tasks
           \/ UNCHANGED vars
  BY <1>1, EnvironmentMoves DEF vars, baseVars
<1>2. ASSUME NEW sigs, Starts(sigs)
      PROVE  s \in seenOrders' \ onGoingAuctions'
  BY <1>2 DEF Starts
<1>3. ASSUME NEW t \in Signatures, NEW k \in Slots, Used(t, k), Ends(t, k)
      PROVE  s \in seenOrders' \ onGoingAuctions'
  BY <1>3 DEF Ends, Forget, Entries
<1>4. ASSUME NEW t \in Signatures, NEW k \in Slots, GoesOn(t, k)
      PROVE  s \in seenOrders' \ onGoingAuctions'
  BY <1>4 DEF GoesOn
<1> QED
  BY <1>1, <1>2, <1>3, <1>4, Steps, HandlersStart

(* The order at which the handler returns is put aside.                     *)
LEMMA ReturnPutsAside ==
    ASSUME TypeOK, Filtered = {}, OnAccountUpdate,
           NEW o \in Orders, o \notin Reached(update)
    PROVE  \E b \in 1..(o - 1) : b \notin PutAside(o) /\ b \in PutAside(o)'
<1> DEFINE S == {before \in 1..(o - 1) : Returns(update, before)}
<1>1. S \in SUBSET Nat /\ S # {} /\ S \subseteq Orders
  BY DEF Reached, Orders
<1>2. PICK b \in S : \A m \in S : b <= m
  <2> HIDE DEF S
  <2> QED BY <1>1, SmallestNumber
<1>3. b \in Reached(update)
  <2>1. b \in Orders /\ b \in 1..(o - 1)
    BY <1>1
  <2>2. \A before \in 1..(b - 1) : before \in 1..(o - 1) /\ before < b
    BY <2>1 DEF Orders
  <2>3. \A before \in 1..(b - 1) : ~Returns(update, before)
    <3> SUFFICES ASSUME NEW before \in 1..(b - 1), Returns(update, before)
                 PROVE  FALSE
      OBVIOUS
    <3>1. before \in S /\ b <= before
      BY <2>2, <1>2
    <3> QED BY <2>1, <2>2, <3>1 DEF Orders
  <2> QED BY <2>1, <2>3 DEF Reached
<1>4. /\ Fresh(update, b) /\ Chain(b) \notin onGoingAuctions /\ ~Tryable(update, b)
  BY DEF Returns
<1>5. b \in Noted(update) /\ b \notin Started(update)
  BY <1>3, <1>4 DEF Noted, Started
<1>6. Chain(b) \in seenOrders' /\ Chain(b) \notin onGoingAuctions'
  <2>1. Chain(b) \notin {Chain(p) : p \in Started(update)}
    BY <1>5 DEF Chain
  <2> QED BY <1>4, <1>5, <2>1 DEF OnAccountUpdate, AccountHandled
<1>7. Chain(b) \notin seenOrders
  BY <1>4 DEF Fresh
<1> QED BY <1>6, <1>7 DEF PutAside

OverlookedByReturns ==
    Filtered = {} => \A o \in Orders : passedOver[o] <= Cardinality(PutAside(o))

LEMMA PutAsideSize ==
    ASSUME NEW o \in Orders
    PROVE  /\ IsFiniteSet(PutAside(o)) /\ Cardinality(PutAside(o)) \in Nat
           /\ Cardinality(PutAside(o)) <= o - 1
<1>1. o \in Nat /\ o - 1 \in Int /\ 1 \in Int /\ o >= 1
  BY DEF Orders
<1>2. IsFiniteSet(1..(o - 1)) /\ Cardinality(1..(o - 1)) = o - 1
  <2>1. (IF 1 > o - 1 THEN 0 ELSE (o - 1) - 1 + 1) = o - 1
    BY <1>1
  <2> QED BY <1>1, <2>1, FS_Interval
<1>3. PutAside(o) \in SUBSET (1..(o - 1))
  BY DEF PutAside
<1> QED BY <1>2, <1>3, FS_Subset, FS_CardinalityType

LEMMA AlwaysOverlookedByReturns == Spec => []OverlookedByReturns
<1>1. Init => OverlookedByReturns
  <2> SUFFICES ASSUME Init, NEW o \in Orders
               PROVE  passedOver[o] <= Cardinality(PutAside(o))
    BY DEF OverlookedByReturns
  <2>1. passedOver[o] = 0
    BY DEF Init, BaseInit
  <2> QED BY <2>1, PutAsideSize
<1>2. TypeOK /\ Entries /\ OverlookedByReturns /\ [Next]_vars => OverlookedByReturns'
  <2> SUFFICES ASSUME TypeOK, Entries, OverlookedByReturns, [Next]_vars,
                      Filtered = {}, NEW o \in Orders
               PROVE  passedOver'[o] <= Cardinality(PutAside(o)')
    BY DEF OverlookedByReturns
  <2> DEFINE before == PutAside(o)
             after  == PutAside(o)'
  <2>1. IsFiniteSet(before) /\ Cardinality(before) \in Nat
    BY PutAsideSize
  <2>2. IsFiniteSet(after) /\ Cardinality(after) \in Nat
    <3>1. after \in SUBSET (1..(o - 1))
      BY DEF PutAside
    <3>2. o - 1 \in Int /\ 1 \in Int
      BY DEF Orders
    <3> HIDE DEF after
    <3>3. IsFiniteSet(1..(o - 1))
      BY <3>2, FS_Interval
    <3> QED BY <3>1, <3>3, FS_Subset, FS_CardinalityType
  <2>3. before \subseteq after
    BY PutAsideStays
  <2>4. passedOver[o] <= Cardinality(before) /\ passedOver[o] \in Nat
    BY DEF OverlookedByReturns, TypeOK, BaseTypeOK
  <2> HIDE DEF before, after
  <2>5. Cardinality(before) <= Cardinality(after)
    BY <2>2, <2>3, FS_Subset
  <2>6. CASE passedOver'[o] = passedOver[o]
    BY <2>1, <2>2, <2>4, <2>5, <2>6 DEF after
  <2>7. CASE passedOver'[o] # passedOver[o]
    <3>1. OnAccountUpdate
      <4>1. Environment => passedOver' = passedOver
        BY EnvironmentMoves
      <4>2. \A p \in SwiftOrders, small \in BOOLEAN :
               OnSwiftOrder(p, small) => passedOver' = passedOver
        BY DEF OnSwiftOrder, SwiftHandled
      <4>3. \A s \in Signatures, k \in Slots :
               Ends(s, k) \/ GoesOn(s, k) => passedOver' = passedOver
        BY DEF Ends, GoesOn
      <4> QED BY <2>7, <4>1, <4>2, <4>3, Steps DEF vars, baseVars
    <3>2. o \notin Reached(update) /\ passedOver'[o] = passedOver[o] + 1
      BY <2>7, <3>1 DEF OnAccountUpdate, AccountHandled
    <3>3. before # after
      BY <3>1, <3>2, ReturnPutsAside DEF before, after
    <3>4. Cardinality(before) # Cardinality(after)
      BY <2>2, <2>3, <3>3, FS_Subset
    <3> QED BY <2>1, <2>2, <2>4, <2>5, <3>2, <3>4 DEF after
  <2> QED BY <2>6, <2>7
<1>3. QED
  BY <1>1, <1>2, ShotgunTypeCorrect, AlwaysEntries, PTL DEF Spec

(* The o-th order of an account is overlooked at most o - 1 times: each of  *)
(* the orders before it makes the handler return early only once.           *)
THEOREM OverlookedAtMostOncePerOrder == Spec => []OverlookedOncePerOrder
<1>1. TypeOK /\ OverlookedByReturns => OverlookedOncePerOrder
  <2> SUFFICES ASSUME TypeOK, OverlookedByReturns, Filtered = {}, NEW o \in Orders
               PROVE  passedOver[o] <= o - 1
    BY DEF OverlookedOncePerOrder
  <2>1. passedOver[o] <= Cardinality(PutAside(o)) /\ passedOver[o] \in Nat
    BY DEF OverlookedByReturns, TypeOK, BaseTypeOK
  <2>2. Cardinality(PutAside(o)) <= o - 1 /\ Cardinality(PutAside(o)) \in Nat
    BY PutAsideSize
  <2> HIDE DEF PutAside
  <2>3. o \in Int
    BY DEF Orders
  <2> QED BY <2>1, <2>2, <2>3
<1>2. QED
  BY <1>1, ShotgunTypeCorrect, AlwaysOverlookedByReturns, PTL
=============================================================================
