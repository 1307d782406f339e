-------------------------- MODULE Escalation_proofs --------------------------
(* What holds of the escalation chain for every set of alerts and nodes,
   every policy and every interleaving. *)
EXTENDS Escalation, FiniteSetTheorems, TLAPS

LEMMA DueIsSnapshots == TypeOK => Due \subseteq Snapshot
BY DEF TypeOK, Due, Copy, Snapshot, Pending

LEMMA WorkerAt ==
    ASSUME TypeOK, NEW n \in Nodes
    PROVE  /\ esc[n] \in IdleWorker \cup BusyWorker
           /\ esc[n].due \subseteq Snapshot
           /\ esc[n].pc # "idle" => esc[n].cur \in Snapshot
BY DEF TypeOK, IdleWorker, BusyWorker

(* The worker of a node moves to another well-formed state. *)
Workers == IdleWorker \cup BusyWorker

LEMMA SetWorker ==
    ASSUME TypeOK, NEW n \in Nodes, NEW w \in Workers, esc' = [esc EXCEPT ![n] = w]
    PROVE  esc' \in [Nodes -> Workers]
BY DEF TypeOK, Workers

Rows == [done : BOOLEAN, repeats : Nat, at : Nat]

LEMMA SetRow ==
    ASSUME TypeOK, NEW a \in Alerts, NEW s, NEW row, s \in Steps => row \in Rows,
           timers' = [timers EXCEPT ![a][s] = row]
    PROVE  timers' \in [Alerts -> [Steps -> Rows]]
<1>1. timers \in [Alerts -> [Steps -> Rows]]
  BY DEF TypeOK, Rows
<1>2. [timers[a] EXCEPT ![s] = row] \in [Steps -> Rows]
  BY <1>1
<1>3. QED
  BY <1>1, <1>2

LEMMA CountPage ==
    ASSUME TypeOK, NEW a \in Alerts, NEW s \in Steps,
           fired' = [fired EXCEPT ![a][s] = @ + 1]
    PROVE  fired' \in [Alerts -> [Steps -> Nat]]
BY DEF TypeOK

LEMMA EnqueueTypes ==
    ASSUME TypeOK, NEW a \in Alerts, NEW s \in Steps, Enqueue(a, s)
    PROVE  unsent' \subseteq Alerts \X Steps /\ faults' \in Nat
BY DEF TypeOK, Enqueue, Fault

LEMMA StepFields ==
    ASSUME NEW s \in Steps
    PROVE  /\ Policy[s].after \in Nat /\ Policy[s].repeatEvery \in Nat
           /\ Policy[s].maxRepeats \in Nat /\ Policy[s].unlessAcked \in BOOLEAN
BY EscalationAssumption DEF Step

(* Type correctness, one step per process of the specification. *)
LEMMA WorkerTypes ==
    ASSUME TypeOK, NEW n \in Nodes,
           Poll(n) \/ Fire(n) \/ Fails(n)
    PROVE  TypeOK'
<1> USE WorkerAt
<1>1. CASE Poll(n)
  BY <1>1, DueIsSnapshots DEF Poll, handlers, history, failures, TypeOK, IdleWorker, BusyWorker
<1>2. ASSUME NEW t \in esc[n].due, FireRead(n, t) PROVE TypeOK'
  <2> DEFINE w == [pc |-> IF Sends(t) THEN "notify" ELSE "done",
                   due |-> esc[n].due \ {t}, cur |-> t, acked |-> Acked(t.alert)]
  <2>1. esc' = [esc EXCEPT ![n] = w]
    BY <1>2 DEF FireRead, TypeOK
  <2>2. w \in Workers
    BY DEF Workers, BusyWorker, Acked
  <2>3. QED
    BY <1>2, <2>1, <2>2, SetWorker DEF FireRead, handlers, history, failures, TypeOK, Workers
<1>3. CASE Notify(n)
  <2> DEFINE t == esc[n].cur
             w == [esc[n] EXCEPT !.pc = IF esc[n].acked THEN "done"
                                        ELSE IF ArmsNext(t) THEN "next" ELSE "own"]
  <2>1. esc' = [esc EXCEPT ![n] = w]
    BY <1>3 DEF Notify, TypeOK
  <2>2. w \in Workers /\ t \in Snapshot
    BY <1>3 DEF Notify, Workers, BusyWorker, IdleWorker
  <2>3. esc' \in [Nodes -> Workers]
    BY <2>1, <2>2, SetWorker
  <2>4. t.alert \in Alerts /\ t.step \in Steps
    BY <2>2 DEF Snapshot
  <2>5. fired' \in [Alerts -> [Steps -> Nat]]
    BY <1>3, <2>4, CountPage DEF Notify
  <2>6. late' \in [Alerts -> Nat]
    BY <1>3, <2>4 DEF Notify, TypeOK
  <2>7. unsent' \subseteq Alerts \X Steps /\ faults' \in Nat
    BY <1>3, <2>4, EnqueueTypes DEF Notify
  <2>8. QED
    BY <1>3, <2>3, <2>5, <2>6, <2>7 DEF Notify, handlers, failures, TypeOK, Workers
<1>4. CASE ArmNext(n)
  <2> DEFINE t == esc[n].cur
             w == [esc[n] EXCEPT !.pc = "own"]
  <2>1. esc' = [esc EXCEPT ![n] = w]
    BY <1>4 DEF ArmNext, TypeOK
  <2>2. w \in Workers /\ t \in Snapshot
    BY <1>4 DEF ArmNext, Workers, BusyWorker, IdleWorker
  <2>3. esc' \in [Nodes -> Workers]
    BY <2>1, <2>2, SetWorker
  <2>4. timers' \in [Alerts -> [Steps -> Rows]]
    <3>1. ASSUME t.step + 1 \in Steps PROVE Row(0, NextAt(t)) \in Rows
      <4>1. NextAt(t) \in Nat
        BY <2>2, <3>1, StepFields, EscalationAssumption DEF NextAt, Snapshot, TypeOK
      <4>2. QED
        BY <4>1 DEF Row, Rows
    <3>2. t.alert \in Alerts
      BY <2>2 DEF Snapshot
    <3>3. CASE UNCHANGED timers
      BY <3>3 DEF TypeOK, Rows
    <3>4. CASE timers' = [timers EXCEPT ![t.alert][t.step + 1] = Row(0, NextAt(t))]
      <4> HIDE DEF t
      <4>1. QED
        BY <3>1, <3>2, <3>4, SetRow
    <3>5. QED
      BY <1>4, <3>3, <3>4 DEF ArmNext
  <2>5. faults' \in Nat
    BY <1>4 DEF ArmNext, Fault, TypeOK
  <2>6. QED
    BY <1>4, <2>3, <2>4, <2>5 DEF ArmNext, handlers, history, TypeOK, Workers, Rows
<1>5. CASE Repeat(n) \/ MarkDone(n) \/ OwnWriteFails(n)
  <2> DEFINE t == esc[n].cur
             w == [EscIdle EXCEPT !.due = esc[n].due]
  <2>1. t \in Snapshot /\ NextTimer(n)
    BY <1>5 DEF Repeat, MarkDone, OwnWriteFails
  <2>2. esc' = [esc EXCEPT ![n] = w]
    BY <2>1 DEF NextTimer
  <2>3. w \in Workers
    BY DEF Workers, IdleWorker, EscIdle
  <2>4. esc' \in [Nodes -> Workers]
    BY <2>2, <2>3, SetWorker
  <2>5. t.alert \in Alerts /\ t.step \in Steps /\ t.repeats \in Nat
    BY <2>1 DEF Snapshot
  <2>6. CASE Repeat(n)
    <3>1. Row(t.repeats + 1, now + Policy[t.step].repeatEvery) \in Rows
      BY <2>5, StepFields DEF Row, Rows, TypeOK
    <3>2. timers' \in [Alerts -> [Steps -> Rows]]
      BY <2>6, <3>1, <2>5, SetRow DEF Repeat
    <3>3. QED
      BY <2>6, <3>2, <2>4 DEF Repeat, handlers, history, failures, TypeOK, Workers, Rows
  <2>7. CASE MarkDone(n)
    <3>1. DoneRow \in Rows
      BY DEF DoneRow, Rows
    <3>2. timers' \in [Alerts -> [Steps -> Rows]]
      BY <2>7, <3>1, <2>5, SetRow DEF MarkDone
    <3>3. QED
      BY <2>7, <3>2, <2>4 DEF MarkDone, handlers, history, failures, TypeOK, Workers, Rows
  <2>8. CASE OwnWriteFails(n)
    BY <2>8, <2>4 DEF OwnWriteFails, Fault, handlers, history, TypeOK, Workers
  <2>9. QED
    BY <1>5, <2>6, <2>7, <2>8
<1>6. ASSUME NEW t \in esc[n].due, FireReadFails(n, t) PROVE TypeOK'
  <2> DEFINE w == [esc[n] EXCEPT !.due = @ \ {t}]
  <2>1. esc' = [esc EXCEPT ![n] = w]
    BY <1>6 DEF FireReadFails, TypeOK
  <2>2. w \in Workers
    BY DEF Workers, IdleWorker, BusyWorker
  <2>3. QED
    BY <1>6, <2>1, <2>2, SetWorker DEF FireReadFails, Fault, handlers, history, TypeOK, Workers
<1>7. ASSUME NEW t \in esc[n].due, PolicyReadFails(n, t) PROVE TypeOK'
  <2> DEFINE w == [pc |-> "done", due |-> esc[n].due \ {t}, cur |-> t, acked |-> FALSE]
  <2>1. esc' = [esc EXCEPT ![n] = w]
    BY <1>7 DEF PolicyReadFails, TypeOK
  <2>2. w \in Workers
    BY DEF Workers, BusyWorker
  <2>3. QED
    BY <1>7, <2>1, <2>2, SetWorker DEF PolicyReadFails, Fault, handlers, history, TypeOK, Workers
<1> QED BY <1>1, <1>2, <1>3, <1>4, <1>5, <1>6, <1>7 DEF Fire, Fails

(* Starting or stopping a chain keeps the rows well formed. *)
LEMMA StartTypes ==
    ASSUME TypeOK, NEW a \in Alerts, NEW from \in Nat, StartChain(a, from)
    PROVE  /\ timers' \in [Alerts -> [Steps -> Rows]]
           /\ starts' \in [Alerts -> Nat]
<1>1. CASE NSteps = 0
  BY <1>1 DEF StartChain, TypeOK, Rows
<1>2. CASE NSteps # 0
  <2>1. 0 \in Steps
    BY <1>2, EscalationAssumption DEF Steps
  <2>2. Row(0, from + Policy[0].after) \in Rows
    BY <2>1, StepFields DEF Row, Rows
  <2>3. timers' = [timers EXCEPT ![a][0] = Row(0, from + Policy[0].after)]
    BY <1>2 DEF StartChain
  <2>4. timers' \in [Alerts -> [Steps -> Rows]]
    <3> DEFINE row == Row(0, from + Policy[0].after)
    <3> HIDE DEF row
    <3>1. timers' = [timers EXCEPT ![a][0] = row] /\ row \in Rows
      BY <2>2, <2>3 DEF row
    <3>2. timers \in [Alerts -> [Steps -> Rows]]
      BY DEF TypeOK, Rows
    <3>3. [timers[a] EXCEPT ![0] = row] \in [Steps -> Rows]
      BY <3>1, <3>2
    <3>4. QED
      BY <3>1, <3>2, <3>3
  <2>5. starts' = [starts EXCEPT ![a] = starts[a] + 1]
    BY <1>2 DEF StartChain
  <2>6. starts' \in [Alerts -> Nat]
    BY <2>5 DEF TypeOK
  <2>7. QED
    BY <2>4, <2>6
<1>3. QED
  BY <1>1, <1>2

LEMMA StopTypes ==
    ASSUME TypeOK, NEW a \in Alerts, CancelEscalations(a)
    PROVE  timers' \in [Alerts -> [Steps -> Rows]]
BY DEF CancelEscalations, TypeOK, Rows, DoneRow

LEMMA InsertTypes ==
    ASSUME TypeOK, NEW a \in Alerts, Insert(a)
    PROVE  /\ alerts' = [alerts EXCEPT ![a] = [status |-> "open", openedAt |-> now,
                                               snoozedUntil |-> NoTime]]
           /\ alerts' \in [Alerts -> [status : Status, openedAt : Nat, snoozedUntil : Nat \cup {NoTime}]]
BY DEF Insert, TypeOK, Status

LEMMA StatusTypes ==
    ASSUME TypeOK, NEW a \in Alerts, NEW status \in Status, NEW until \in Nat \cup {NoTime},
           SetStatus(a, status, until)
    PROVE  alerts' \in [Alerts -> [status : Status, openedAt : Nat, snoozedUntil : Nat \cup {NoTime}]]
<1> DEFINE A == [status : Status, openedAt : Nat, snoozedUntil : Nat \cup {NoTime}]
           row == [alerts[a] EXCEPT !.status = status, !.snoozedUntil = until]
<1>1. alerts \in [Alerts -> A]
  BY DEF TypeOK
<1>2. row \in A
  BY <1>1
<1>3. alerts' = [alerts EXCEPT ![a] = row]
  BY <1>1 DEF SetStatus
<1>4. QED
  BY <1>1, <1>2, <1>3

LEMMA HandlerTypes ==
    ASSUME TypeOK, NEW n \in Nodes, NEW a \in Alerts,
           \/ Raise(n, a) \/ Ack(n, a) \/ Snooze(n, a) \/ Resolve(n, a)
           \/ HandlerStarts(n, a) \/ HandlerStops(n, a)
    PROVE  TypeOK'
<1> USE DEF handlers, history, failures
<1>1. CASE Raise(n, a)
  <2>1. starting' \in [Nodes -> SUBSET Alerts]
    BY <1>1 DEF Raise, TypeOK
  <2>2. QED
    BY <1>1, <2>1, InsertTypes DEF Raise, TypeOK
<1>2. ASSUME WillStop(n, a) PROVE stopping' \in [Nodes -> [Alerts -> Nat]]
  BY <1>2 DEF WillStop, TypeOK
<1>3. CASE Ack(n, a)
  <2>1. alerts' \in [Alerts -> [status : Status, openedAt : Nat, snoozedUntil : Nat \cup {NoTime}]]
    BY <1>3, StatusTypes DEF Ack, Status
  <2>2. QED
    BY <1>2, <1>3, <2>1 DEF Ack, TypeOK
<1>4. CASE Snooze(n, a)
  <2>1. alerts' \in [Alerts -> [status : Status, openedAt : Nat, snoozedUntil : Nat \cup {NoTime}]]
    <3>1. PICK d \in SnoozeFor : SetStatus(a, "acked", now + d)
      BY <1>4 DEF Snooze
    <3>2. now + d \in Nat
      BY EscalationAssumption DEF TypeOK
    <3>3. QED
      BY <3>1, <3>2, StatusTypes DEF Status
  <2>2. snoozes' \in [Alerts -> Nat]
    BY <1>4 DEF Snooze, TypeOK
  <2>3. QED
    BY <1>2, <1>4, <2>1, <2>2 DEF Snooze, TypeOK
<1>5. CASE Resolve(n, a)
  <2>1. alerts' \in [Alerts -> [status : Status, openedAt : Nat, snoozedUntil : Nat \cup {NoTime}]]
    BY <1>5, StatusTypes DEF Resolve, Status
  <2>2. QED
    BY <1>2, <1>5, <2>1 DEF Resolve, TypeOK
<1>6. CASE HandlerStarts(n, a)
  <2>1. starting' \in [Nodes -> SUBSET Alerts] /\ alerts[a].openedAt \in Nat
    BY <1>6 DEF HandlerStarts, TypeOK
  <2>2. CASE StartChain(a, alerts[a].openedAt) /\ UNCHANGED faults
    BY <1>6, <2>1, <2>2, StartTypes DEF HandlerStarts, TypeOK, Rows
  <2>3. CASE Fault /\ UNCHANGED <<timers, starts>>
    BY <1>6, <2>1, <2>3 DEF HandlerStarts, Fault, TypeOK
  <2>4. QED
    BY <1>6, <2>2, <2>3 DEF HandlerStarts
<1>7. CASE HandlerStops(n, a)
  <2>1. stopping' \in [Nodes -> [Alerts -> Nat]]
    BY <1>7 DEF HandlerStops, TypeOK
  <2>2. CASE CancelEscalations(a) /\ UNCHANGED faults
    BY <1>7, <2>1, <2>2, StopTypes DEF HandlerStops, TypeOK, Rows
  <2>3. CASE Fault /\ UNCHANGED timers
    BY <1>7, <2>1, <2>3 DEF HandlerStops, Fault, TypeOK
  <2>4. QED
    BY <1>7, <2>2, <2>3 DEF HandlerStops
<1>8. QED
  BY <1>1, <1>3, <1>4, <1>5, <1>6, <1>7

EngineRecords == [pc : {"idle", "gate", "start", "stop", "flip", "rearm"},
                  work : SUBSET Alerts, woken : SUBSET Alerts, at : Nat]

LEMMA SetEngine ==
    ASSUME TypeOK, NEW n \in Nodes, NEW e \in EngineRecords, engine' = [engine EXCEPT ![n] = e]
    PROVE  engine' \in [Nodes -> EngineRecords]
BY DEF TypeOK, EngineRecords

LEMMA IdleEngine == EngineIdle \in EngineRecords
BY DEF EngineIdle, EngineRecords

LEMMA BusyEngine ==
    ASSUME NEW a \in Alerts, NEW pc \in {"gate", "start", "stop"}
    PROVE  Busy(pc, a) \in EngineRecords
BY DEF Busy, EngineIdle, EngineRecords

LEMMA FlipEngine ==
    ASSUME TypeOK, NEW n \in Nodes, NEW a \in Alerts, NEW flipped \in BOOLEAN
    PROVE  AfterFlip(engine[n], a, flipped) \in EngineRecords
<1>1. engine[n] \in EngineRecords
  BY DEF TypeOK, EngineRecords
<1>2. QED
  BY <1>1, IdleEngine DEF AfterFlip, EngineRecords

LEMMA EngineTypes ==
    ASSUME TypeOK, NEW n \in Nodes, NEW a \in Alerts,
           \/ RuleOpens(n, a) \/ RuleResolves(n, a) \/ Gate(n, a) \/ ReEvaluate(n, a)
           \/ EngineStarts(n, a) \/ EngineStops(n, a) \/ Expire(n, a)
           \/ WakeFlips(n, a) \/ WakeStarts(n, a)
    PROVE  TypeOK'
<1> USE DEF handlers, history, failures
<1> DEFINE A == [status : Status, openedAt : Nat, snoozedUntil : Nat \cup {NoTime}]
<1>1. CASE RuleOpens(n, a)
  <2>1. engine' \in [Nodes -> EngineRecords]
    BY <1>1, BusyEngine, SetEngine DEF RuleOpens
  <2>2. alerts' \in [Alerts -> A]
    BY <1>1, InsertTypes DEF RuleOpens
  <2>3. QED
    BY <1>1, <2>1, <2>2 DEF RuleOpens, TypeOK, EngineRecords
<1>2. CASE RuleResolves(n, a)
  <2>1. engine' \in [Nodes -> EngineRecords]
    BY <1>2, BusyEngine, SetEngine DEF RuleResolves
  <2>2. alerts' \in [Alerts -> A]
    BY <1>2, StatusTypes DEF RuleResolves, Status
  <2>3. QED
    BY <1>2, <2>1, <2>2 DEF RuleResolves, TypeOK, EngineRecords
<1>3. CASE Gate(n, a) \/ ReEvaluate(n, a)
  <2>1. engine' \in [Nodes -> EngineRecords]
    <3>1. CASE UNCHANGED engine
      BY <3>1 DEF TypeOK, EngineRecords
    <3>2. CASE engine' = [engine EXCEPT ![n] = Busy("start", a)]
      BY <3>2, BusyEngine, SetEngine
    <3>3. CASE engine' = [engine EXCEPT ![n] = EngineIdle]
      BY <3>3, IdleEngine, SetEngine
    <3>4. QED
      BY <1>3, <3>1, <3>2, <3>3 DEF Gate, ReEvaluate
  <2>2. suppressedOpen' \in [Nodes -> SUBSET Alerts]
    <3>1. suppressedOpen[n] \cup {a} \in SUBSET Alerts /\ suppressedOpen[n] \ {a} \in SUBSET Alerts
      BY DEF TypeOK
    <3>2. \/ suppressedOpen' = [suppressedOpen EXCEPT ![n] = suppressedOpen[n] \cup {a}]
          \/ suppressedOpen' = [suppressedOpen EXCEPT ![n] = suppressedOpen[n] \ {a}]
          \/ UNCHANGED suppressedOpen
      BY <1>3 DEF Gate, ReEvaluate
    <3>3. PICK S \in SUBSET Alerts : \/ suppressedOpen' = [suppressedOpen EXCEPT ![n] = S]
                                     \/ UNCHANGED suppressedOpen
      BY <3>1, <3>2
    <3>4. QED
      BY <3>3 DEF TypeOK
  <2>3. UNCHANGED <<now, alerts, timers, esc, handlers, history, failures>>
    BY <1>3 DEF Gate, ReEvaluate
  <2>4. QED
    BY <2>1, <2>2, <2>3 DEF TypeOK, EngineRecords
<1>4. CASE EngineStarts(n, a)
  <2>1. engine' \in [Nodes -> EngineRecords]
    BY <1>4, IdleEngine, SetEngine DEF EngineStarts
  <2>2. alerts[a].openedAt \in Nat
    BY DEF TypeOK
  <2>3. /\ timers' \in [Alerts -> [Steps -> Rows]]
        /\ starts' \in [Alerts -> Nat]
    <3>1. CASE StartChain(a, alerts[a].openedAt)
      BY <2>2, <3>1, StartTypes
    <3>2. CASE UNCHANGED <<timers, starts>>
      BY <3>2 DEF TypeOK, Rows
    <3>3. QED
      BY <1>4, <3>1, <3>2 DEF EngineStarts
  <2>4. suppressedOpen' \in [Nodes -> SUBSET Alerts] /\ faults' \in Nat
    <3>1. /\ \/ suppressedOpen' = [suppressedOpen EXCEPT ![n] = suppressedOpen[n] \ {a}]
             \/ UNCHANGED suppressedOpen
          /\ faults' = faults + 1 \/ UNCHANGED faults
      BY <1>4 DEF EngineStarts, Fault
    <3>2. suppressedOpen' \in [Nodes -> SUBSET Alerts]
      <4>1. CASE suppressedOpen' = [suppressedOpen EXCEPT ![n] = suppressedOpen[n] \ {a}]
        BY <4>1 DEF TypeOK
      <4>2. CASE UNCHANGED suppressedOpen
        BY <4>2 DEF TypeOK
      <4>3. QED
        BY <4>1, <4>2, <3>1
    <3>3. faults' \in Nat
      BY <3>1 DEF TypeOK
    <3>4. QED
      BY <3>2, <3>3
  <2>5. UNCHANGED <<now, alerts, esc, handlers, fired, unsent, late, snoozes, wakes, crashes>>
    BY <1>4 DEF EngineStarts
  <2>6. QED
    BY <2>1, <2>3, <2>4, <2>5 DEF TypeOK, Rows, EngineRecords
<1>5. CASE EngineStops(n, a)
  <2>1. engine' \in [Nodes -> EngineRecords]
    BY <1>5, IdleEngine, SetEngine DEF EngineStops
  <2>2. timers' \in [Alerts -> [Steps -> Rows]]
    <3>1. CASE CancelEscalations(a)
      BY <3>1, StopTypes
    <3>2. CASE UNCHANGED timers
      BY <3>2 DEF TypeOK, Rows
    <3>3. QED
      BY <1>5, <3>1, <3>2 DEF EngineStops
  <2>3. faults' \in Nat
    BY <1>5 DEF EngineStops, Fault, TypeOK
  <2>4. UNCHANGED <<now, alerts, esc, suppressedOpen, handlers, history, crashes>>
    BY <1>5 DEF EngineStops
  <2>5. QED
    BY <2>1, <2>2, <2>3, <2>4 DEF TypeOK, Rows, EngineRecords
<1>6. CASE Expire(n, a)
  <2> DEFINE row == [alerts[a] EXCEPT !.status = "expired"]
  <2>1. row \in A /\ alerts \in [Alerts -> A]
    <3>1. alerts \in [Alerts -> A]
      BY DEF TypeOK
    <3>2. row \in A
      BY <3>1 DEF Status
    <3>3. QED
      BY <3>1, <3>2
  <2>2. alerts' = [alerts EXCEPT ![a] = row]
    BY <1>6, <2>1 DEF Expire
  <2>3. alerts' \in [Alerts -> A]
    BY <2>1, <2>2
  <2>4. UNCHANGED <<now, timers, esc, engine, suppressedOpen, handlers, history, failures>>
    BY <1>6 DEF Expire
  <2>5. QED
    BY <2>3, <2>4 DEF TypeOK
<1>7. CASE WakeFlips(n, a)
  <2>1. PICK flipped \in BOOLEAN : engine' = [engine EXCEPT ![n] = AfterFlip(engine[n], a, flipped)]
    BY <1>7 DEF WakeFlips
  <2>2. engine' \in [Nodes -> EngineRecords]
    BY <2>1, FlipEngine, SetEngine
  <2>3. alerts' \in [Alerts -> A]
    <3>1. CASE SetStatus(a, "open", NoTime)
      BY <3>1, StatusTypes DEF Status
    <3>2. CASE UNCHANGED alerts
      BY <3>2 DEF TypeOK
    <3>3. QED
      BY <1>7, <3>1, <3>2 DEF WakeFlips
  <2>4. /\ wakes' = [wakes EXCEPT ![a] = wakes[a] + 1] \/ UNCHANGED wakes
        /\ faults' = faults + 1 \/ UNCHANGED faults
    BY <1>7 DEF WakeFlips, Fault
  <2>5. wakes' \in [Alerts -> Nat] /\ faults' \in Nat
    <3>1. wakes' \in [Alerts -> Nat]
      <4>1. CASE wakes' = [wakes EXCEPT ![a] = wakes[a] + 1]
        BY <4>1 DEF TypeOK
      <4>2. CASE UNCHANGED wakes
        BY <4>2 DEF TypeOK
      <4>3. QED
        BY <4>1, <4>2, <2>4
    <3>2. faults' \in Nat
      BY <2>4 DEF TypeOK
    <3>3. QED
      BY <3>1, <3>2
  <2>6. UNCHANGED <<now, timers, esc, suppressedOpen, handlers,
                    fired, unsent, late, starts, snoozes, crashes>>
    BY <1>7 DEF WakeFlips
  <2>7. QED
    BY <2>2, <2>3, <2>5, <2>6 DEF TypeOK, EngineRecords
<1>8. CASE WakeStarts(n, a)
  <2>1. engine[n] \in EngineRecords
    BY DEF TypeOK, EngineRecords
  <2>2. AfterStart(engine[n], a) \in EngineRecords
    BY <2>1, IdleEngine DEF AfterStart, EngineRecords
  <2>3. engine' = [engine EXCEPT ![n] = AfterStart(engine[n], a)]
    BY <1>8 DEF WakeStarts
  <2>4. engine' \in [Nodes -> EngineRecords] /\ engine[n].at \in Nat
    BY <2>1, <2>2, <2>3, SetEngine DEF EngineRecords
  <2>5. /\ timers' \in [Alerts -> [Steps -> Rows]]
        /\ starts' \in [Alerts -> Nat]
    <3>1. CASE StartChain(a, engine[n].at)
      BY <2>4, <3>1, StartTypes
    <3>2. CASE UNCHANGED <<timers, starts>>
      BY <3>2 DEF TypeOK, Rows
    <3>3. QED
      BY <1>8, <3>1, <3>2 DEF WakeStarts
  <2>6. faults' \in Nat
    BY <1>8 DEF WakeStarts, Fault, TypeOK
  <2>7. UNCHANGED <<now, alerts, esc, suppressedOpen, handlers, fired, unsent, late, snoozes, wakes, crashes>>
    BY <1>8 DEF WakeStarts
  <2>8. QED
    BY <2>4, <2>5, <2>6, <2>7 DEF TypeOK, Rows, EngineRecords
<1>9. QED
  BY <1>1, <1>2, <1>3, <1>4, <1>5, <1>6, <1>7, <1>8

LEMMA OtherTypes ==
    ASSUME TypeOK, Tick \/ \E n \in Nodes : WakeSelects(n) \/ Crash(n)
    PROVE  TypeOK'
<1> USE DEF handlers, history, failures
<1>1. CASE Tick
  BY <1>1 DEF Tick, TypeOK
<1>2. ASSUME NEW n \in Nodes, WakeSelects(n) PROVE TypeOK'
  <2> DEFINE e == [pc |-> "flip", work |-> {a \in Alerts : Expired(a)}, woken |-> {}, at |-> now]
  <2>1. e \in EngineRecords
    BY DEF EngineRecords, TypeOK
  <2>2. engine' \in [Nodes -> EngineRecords]
    BY <1>2, <2>1, SetEngine DEF WakeSelects
  <2>3. QED
    BY <1>2, <2>2 DEF WakeSelects, TypeOK, EngineRecords
<1>3. ASSUME NEW n \in Nodes, Crash(n) PROVE TypeOK'
  <2>1. engine' \in [Nodes -> EngineRecords]
    BY <1>3, IdleEngine, SetEngine DEF Crash
  <2>2. EscIdle \in Workers
    BY DEF EscIdle, Workers, IdleWorker
  <2>3. esc' \in [Nodes -> Workers]
    BY <1>3, <2>2, SetWorker DEF Crash
  <2>4. /\ suppressedOpen' \in [Nodes -> SUBSET Alerts]
        /\ starting' \in [Nodes -> SUBSET Alerts]
        /\ stopping' \in [Nodes -> [Alerts -> Nat]]
        /\ crashes' \in Nat
    BY <1>3 DEF Crash, TypeOK
  <2>5. UNCHANGED <<now, alerts, timers, history, faults>>
    BY <1>3 DEF Crash
  <2>6. QED
    BY <2>1, <2>3, <2>4, <2>5 DEF TypeOK, Workers, EngineRecords
<1>4. QED
  BY <1>1, <1>2, <1>3

LEMMA StepTypes ==
    ASSUME TypeOK, [Next]_vars
    PROVE  TypeOK'
<1>1. CASE UNCHANGED vars
  BY <1>1 DEF vars, handlers, history, failures, TypeOK
<1>2. CASE Next
  BY <1>2, WorkerTypes, HandlerTypes, EngineTypes, OtherTypes
  DEF Next, Input, Handler, EngineWorks
<1>3. QED
  BY <1>1, <1>2

LEMMA InitTypes == Init => TypeOK
<1> SUFFICES ASSUME Init PROVE TypeOK
  OBVIOUS
<1>1. EscIdle \in Workers /\ EngineIdle \in EngineRecords /\ DoneRow \in Rows
  BY IdleEngine DEF EscIdle, Workers, IdleWorker, DoneRow, Rows
<1>2. QED
  BY <1>1 DEF Init, TypeOK, Workers, EngineRecords, Rows, NoAlert, Status

(* Every reachable state is well formed, whatever is raced, lost or crashes:
   in particular a worker always fires an existing step of an existing alert. *)
THEOREM TypeCorrect == Spec => []TypeOK
<1>1. QED
  BY InitTypes, StepTypes, PTL DEF Spec

-----------------------------------------------------------------------------
(* No step is early and none is sent before the one preceding it.  ChainInv
   is inductive; it is proved in this form, one fact per timer, per count of
   firings and per copy of a timer. *)
GoodRow(a, s) ==
    Pending(a, s) => /\ alerts[a].status # "none"
                     /\ timers[a][s].at >= Moment(a, s)
                     /\ s > 0 => fired[a][s - 1] > 0

GoodPage(a, s) ==
    fired[a][s] > 0 => /\ alerts[a].status # "none"
                       /\ now >= Moment(a, s)
                       /\ s > 0 => fired[a][s - 1] > 0

RowsInv == \A a \in Alerts, s \in Steps : GoodRow(a, s) /\ GoodPage(a, s)

Born == \A a \in Alerts : alerts[a].openedAt <= now

IInv == CopiesInv /\ EngineInv /\ RowsInv /\ Born

LEMMA IInvIsChainInv == TypeOK => (IInv <=> ChainInv)
<1> SUFFICES ASSUME TypeOK PROVE IInv <=> ChainInv
  OBVIOUS
<1>1. NSteps \in Nat
  BY EscalationAssumption
<1>2. ASSUME RowsInv, Born PROVE FreshInv /\ NotEarly /\ StepsInOrder
  <2>1. FreshInv /\ NotEarly
    <3>1. \A a \in Alerts, s \in Steps : fired[a][s] \in Nat
      BY DEF TypeOK
    <3>2. QED
      BY <1>2, <3>1 DEF RowsInv, Born, GoodRow, GoodPage, FreshInv, NotEarly
  <2>2. ASSUME NEW a \in Alerts, NEW s \in Steps, s + 1 \in Steps,
               Pending(a, s + 1) \/ fired[a][s + 1] > 0
        PROVE  fired[a][s] > 0
    <3>1. s + 1 > 0 /\ (s + 1) - 1 = s
      BY DEF Steps
    <3>2. GoodRow(a, s + 1) /\ GoodPage(a, s + 1)
      BY <1>2, <2>2 DEF RowsInv
    <3>3. fired[a][(s + 1) - 1] > 0
      BY <2>2, <3>1, <3>2 DEF GoodRow, GoodPage
    <3>4. QED
      BY <3>1, <3>3
  <2>3. QED
    BY <2>1, <2>2 DEF StepsInOrder
<1>3. ASSUME FreshInv, NotEarly, StepsInOrder PROVE RowsInv /\ Born
  <2>1. Born
    BY <1>3 DEF FreshInv, Born
  <2>2. ASSUME NEW a \in Alerts, NEW s \in Steps PROVE GoodRow(a, s) /\ GoodPage(a, s)
    <3>1. s > 0 => s - 1 \in Steps /\ (s - 1) + 1 = s
      BY <1>1 DEF Steps
    <3>2. s > 0 /\ (Pending(a, s) \/ fired[a][s] > 0) => fired[a][s - 1] > 0
      BY <1>3, <3>1 DEF StepsInOrder
    <3>3. fired[a][s] \in Nat
      BY DEF TypeOK
    <3>4. Pending(a, s) \/ fired[a][s] > 0 => alerts[a].status # "none"
      BY <1>3, <3>3 DEF FreshInv
    <3>5. QED
      BY <1>3, <3>2, <3>4 DEF NotEarly, GoodRow, GoodPage
  <2>3. QED
    BY <2>1, <2>2 DEF RowsInv
<1>4. QED
  BY <1>2, <1>3 DEF IInv, ChainInv

(* What every step of the system does to what these facts speak of: an alert
   that was opened stays so at its time, the clock and the counts grow. *)
Lives ==
    \A a \in Alerts :
        /\ alerts'[a].openedAt <= now'
        /\ alerts[a].status # "none" => /\ alerts'[a].status # "none"
                                        /\ alerts'[a].openedAt = alerts[a].openedAt

Grows == Lives /\ now' >= now /\ \A a \in Alerts, s \in Steps : fired'[a][s] >= fired[a][s]

LEMMA MomentKept ==
    ASSUME Grows, NEW a \in Alerts, alerts[a].status # "none", NEW s \in Steps
    PROVE  Moment(a, s)' = Moment(a, s) /\ alerts'[a].status # "none"
BY DEF Grows, Lives, Moment

LEMMA PrecedingKept ==
    ASSUME TypeOK, TypeOK', Grows, NEW a \in Alerts, NEW s \in Steps, s > 0 => fired[a][s - 1] > 0
    PROVE  s > 0 => fired'[a][s - 1] > 0
<1> SUFFICES ASSUME s > 0 PROVE fired'[a][s - 1] > 0
  OBVIOUS
<1>1. s - 1 \in Steps
  BY EscalationAssumption DEF Steps
<1>2. fired[a][s - 1] \in Nat /\ fired'[a][s - 1] \in Nat /\ fired'[a][s - 1] >= fired[a][s - 1]
  BY <1>1 DEF TypeOK, Grows
<1>3. QED
  BY <1>2

LEMMA MomentNat ==
    ASSUME TypeOK, NEW a \in Alerts, NEW s \in Steps
    PROVE  Moment(a, s) \in Nat
BY StepFields DEF TypeOK, Moment

LEMMA RowKept ==
    ASSUME TypeOK, TypeOK', Grows, NEW a \in Alerts, NEW s \in Steps,
           GoodRow(a, s), timers'[a][s] = timers[a][s]
    PROVE  GoodRow(a, s)'
<1> SUFFICES ASSUME Pending(a, s)'
             PROVE  /\ alerts'[a].status # "none" /\ timers'[a][s].at >= Moment(a, s)'
                    /\ s > 0 => fired'[a][s - 1] > 0
  BY DEF GoodRow
<1>1. /\ alerts[a].status # "none" /\ timers[a][s].at >= Moment(a, s)
      /\ s > 0 => fired[a][s - 1] > 0
  BY DEF GoodRow, Pending
<1>2. QED
  BY <1>1, MomentKept, PrecedingKept

LEMMA PageKept ==
    ASSUME TypeOK, TypeOK', Grows, NEW a \in Alerts, NEW s \in Steps,
           GoodPage(a, s), fired'[a][s] = fired[a][s]
    PROVE  GoodPage(a, s)'
<1> SUFFICES ASSUME fired'[a][s] > 0
             PROVE  /\ alerts'[a].status # "none" /\ now' >= Moment(a, s)'
                    /\ s > 0 => fired'[a][s - 1] > 0
  BY DEF GoodPage
<1>1. /\ alerts[a].status # "none" /\ now >= Moment(a, s)
      /\ s > 0 => fired[a][s - 1] > 0
  BY DEF GoodPage
<1>2. now' >= now /\ now \in Nat /\ now' \in Nat /\ Moment(a, s) \in Nat
  BY MomentNat DEF Grows, TypeOK
<1>3. QED
  BY <1>1, <1>2, MomentKept, PrecedingKept

(* The copies of timers held by a worker. *)
Sound(t) ==
    /\ alerts[t.alert].status # "none"
    /\ Moment(t.alert, t.step) <= t.at
    /\ t.at <= now
    /\ t.step > 0 => fired[t.alert][t.step - 1] > 0

LEMMA SoundKept ==
    ASSUME TypeOK, TypeOK', Grows, NEW t \in Snapshot, Sound(t)
    PROVE  Sound(t)'
<1>1. t.alert \in Alerts /\ t.step \in Steps /\ t.at \in Nat
  BY DEF Snapshot
<1>2. now' >= now /\ now \in Nat /\ now' \in Nat
  BY DEF Grows, TypeOK
<1>3. t.at <= now'
  BY <1>1, <1>2 DEF Sound
<1>4. QED
  BY <1>1, <1>3, MomentKept, PrecedingKept DEF Sound

LEMMA HeldAreSnapshots ==
    ASSUME TypeOK, NEW n \in Nodes
    PROVE  Holds(n) \subseteq Snapshot
BY WorkerAt DEF Holds

Arming(n) ==
    esc[n].pc = "next" => /\ fired[esc[n].cur.alert][esc[n].cur.step] > 0
                          /\ esc[n].cur.step + 1 \in Steps

LEMMA CopiesInvIs == CopiesInv <=> \A n \in Nodes : Arming(n) /\ \A t \in Holds(n) : Sound(t)
BY DEF CopiesInv, Arming, Sound

LEMMA CopiesKept ==
    ASSUME TypeOK, TypeOK', Grows, NEW n \in Nodes, Arming(n), \A t \in Holds(n) : Sound(t),
           esc'[n] = esc[n]
    PROVE  Arming(n)' /\ \A t \in Holds(n)' : Sound(t)'
<1>1. Holds(n)' = Holds(n)
  BY DEF Holds
<1>2. ASSUME NEW t \in Holds(n) PROVE Sound(t)'
  BY <1>2, HeldAreSnapshots, SoundKept
<1>3. Arming(n)'
  <2> SUFFICES ASSUME esc[n].pc = "next"
               PROVE  /\ fired'[esc[n].cur.alert][esc[n].cur.step] > 0
                      /\ esc[n].cur.step + 1 \in Steps
    BY DEF Arming
  <2> DEFINE a == esc[n].cur.alert
             s == esc[n].cur.step
  <2>1. a \in Alerts /\ s \in Steps
    BY WorkerAt DEF Snapshot
  <2>2. fired[a][s] > 0 /\ s + 1 \in Steps
    BY DEF Arming
  <2> HIDE DEF a, s
  <2>3. fired[a][s] \in Nat /\ fired'[a][s] \in Nat /\ fired'[a][s] >= fired[a][s]
    BY <2>1 DEF TypeOK, Grows
  <2>4. fired'[a][s] > 0
    BY <2>2, <2>3
  <2>5. QED
    BY <2>2, <2>4 DEF a, s
<1>4. QED
  BY <1>1, <1>2, <1>3

(* What the engine and the handlers have still to do speaks of opened alerts. *)
Cares(n) == engine[n].work \cup engine[n].woken \cup starting[n] \cup suppressedOpen[n]

Waking(n) ==
    engine[n].pc \in {"flip", "rearm"} =>
        \A a \in engine[n].work \cup engine[n].woken : alerts[a].openedAt <= engine[n].at

LEMMA EngineInvIs ==
    EngineInv <=> \A n \in Nodes : Waking(n) /\ \A a \in Cares(n) : alerts[a].status # "none"
BY DEF EngineInv, Waking, Cares

LEMMA CaresAreAlerts ==
    ASSUME TypeOK, NEW n \in Nodes
    PROVE  /\ Cares(n) \subseteq Alerts
           /\ engine[n].work \cup engine[n].woken \subseteq Cares(n)
BY DEF TypeOK, Cares

LEMMA WakingKept ==
    ASSUME TypeOK, Grows, NEW n \in Nodes, Waking(n), \A a \in Cares(n) : alerts[a].status # "none",
           \/ engine'[n].pc \notin {"flip", "rearm"}
           \/ /\ engine[n].pc \in {"flip", "rearm"}
              /\ engine'[n].at = engine[n].at
              /\ engine'[n].work \cup engine'[n].woken \subseteq engine[n].work \cup engine[n].woken
    PROVE  Waking(n)'
<1> SUFFICES ASSUME engine'[n].pc \in {"flip", "rearm"}, NEW a \in engine'[n].work \cup engine'[n].woken
             PROVE  alerts'[a].openedAt <= engine'[n].at
  BY DEF Waking
<1>1. /\ engine[n].pc \in {"flip", "rearm"} /\ engine'[n].at = engine[n].at
      /\ a \in engine[n].work \cup engine[n].woken
  OBVIOUS
<1>2. alerts[a].openedAt <= engine[n].at /\ alerts[a].status # "none" /\ a \in Alerts
  BY <1>1, CaresAreAlerts DEF Waking
<1>3. QED
  BY <1>1, <1>2 DEF Grows, Lives

(* A step that sends nothing and leaves the workers' copies alone. *)
LEMMA QuietStep ==
    ASSUME IInv, TypeOK, TypeOK', Grows, fired' = fired, esc' = esc,
           \A a \in Alerts, s \in Steps : timers'[a][s] = timers[a][s] \/ GoodRow(a, s)',
           \A n \in Nodes : \A a \in Cares(n)' : a \in Cares(n) \/ alerts'[a].status # "none",
           \A n \in Nodes :
              \/ Waking(n)'
              \/ engine'[n].pc \notin {"flip", "rearm"}
              \/ /\ engine[n].pc \in {"flip", "rearm"}
                 /\ engine'[n].at = engine[n].at
                 /\ engine'[n].work \cup engine'[n].woken \subseteq engine[n].work \cup engine[n].woken
    PROVE  IInv'
<1>1. CopiesInv'
  <2>1. \A n \in Nodes : Arming(n) /\ \A t \in Holds(n) : Sound(t)
    BY CopiesInvIs DEF IInv
  <2>2. ASSUME NEW n \in Nodes PROVE Arming(n)' /\ \A t \in Holds(n)' : Sound(t)'
    BY <2>1, CopiesKept
  <2>3. QED
    BY <2>2 DEF CopiesInv, Arming, Sound
<1>2. EngineInv'
  <2>1. \A n \in Nodes : Waking(n) /\ \A a \in Cares(n) : alerts[a].status # "none"
    BY EngineInvIs DEF IInv
  <2>2. ASSUME NEW n \in Nodes PROVE Waking(n)'
    BY <2>1, WakingKept
  <2>3. ASSUME NEW n \in Nodes, NEW a \in Cares(n)' PROVE alerts'[a].status # "none"
    BY <2>1, CaresAreAlerts DEF Grows, Lives
  <2>4. QED
    BY <2>2, <2>3 DEF EngineInv, Waking, Cares
<1>3. RowsInv'
  <2>1. ASSUME NEW a \in Alerts, NEW s \in Steps PROVE GoodRow(a, s)' /\ GoodPage(a, s)'
    <3>1. GoodRow(a, s) /\ GoodPage(a, s)
      BY DEF IInv, RowsInv
    <3>2. QED
      BY <3>1, RowKept, PageKept
  <2>2. QED
    BY <2>1 DEF RowsInv
<1>4. Born'
  BY DEF Grows, Lives, Born
<1>5. QED
  BY <1>1, <1>2, <1>3, <1>4 DEF IInv

LEMMA GrowsStill ==
    ASSUME TypeOK, Born, alerts' = alerts, fired' = fired, now' = now \/ now' = now + 1
    PROVE  Grows
<1>1. now \in Nat /\ \A a \in Alerts : alerts[a].openedAt \in Nat
  BY DEF TypeOK
<1>2. \A a \in Alerts, s \in Steps : fired[a][s] \in Nat
  BY DEF TypeOK
<1>3. QED
  BY <1>1, <1>2 DEF Born, Grows, Lives

LEMMA GrowsByStatus ==
    ASSUME TypeOK, Born, NEW a \in Alerts, NEW status \in Status \ {"none"}, NEW until,
           SetStatus(a, status, until), fired' = fired, now' = now
    PROVE  Grows
<1>1. now \in Nat /\ \A b \in Alerts : alerts[b].openedAt \in Nat
  BY DEF TypeOK
<1>2. \A b \in Alerts, s \in Steps : fired[b][s] \in Nat
  BY DEF TypeOK
<1>3. ASSUME NEW b \in Alerts
      PROVE  /\ alerts'[b].openedAt = alerts[b].openedAt
             /\ alerts[b].status # "none" => alerts'[b].status # "none"
  BY DEF SetStatus, TypeOK
<1>4. QED
  BY <1>1, <1>2, <1>3 DEF Born, Grows, Lives

LEMMA GrowsByInsert ==
    ASSUME TypeOK, Born, NEW a \in Alerts, Insert(a), fired' = fired, now' = now
    PROVE  Grows /\ alerts'[a].status # "none"
<1>1. now \in Nat /\ \A b \in Alerts : alerts[b].openedAt \in Nat
  BY DEF TypeOK
<1>2. \A b \in Alerts, s \in Steps : fired[b][s] \in Nat
  BY DEF TypeOK
<1>3. /\ alerts'[a].openedAt = now /\ alerts[a].status = "none" /\ alerts'[a].status = "open"
      /\ \A b \in Alerts \ {a} : alerts'[b] = alerts[b]
  BY DEF Insert, TypeOK
<1>4. QED
  BY <1>1, <1>2, <1>3 DEF Born, Grows, Lives

(* The start of a chain arms a step that is not early, since it counts from
   the opening or from a later moment; stopping one leaves nothing pending. *)
LEMMA StartRows ==
    ASSUME IInv, TypeOK, NEW a \in Alerts, NEW from \in Nat, from >= alerts[a].openedAt,
           alerts[a].status # "none", StartChain(a, from), alerts' = alerts, fired' = fired
    PROVE  \A b \in Alerts, s \in Steps : timers'[b][s] = timers[b][s] \/ GoodRow(b, s)'
<1> SUFFICES ASSUME NEW b \in Alerts, NEW s \in Steps, timers'[b][s] # timers[b][s]
             PROVE  GoodRow(b, s)'
  OBVIOUS
<1> DEFINE row == Row(0, from + Policy[0].after)
<1>1. timers' = [timers EXCEPT ![a][0] = row]
  BY DEF StartChain
<1>2. b = a /\ s = 0 /\ timers'[b][s] = row
  BY <1>1 DEF TypeOK
<1>3. row.at = from + Policy[0].after
  BY DEF Row
<1>4. Policy[0].after \in Nat /\ alerts[a].openedAt \in Nat
  BY <1>2, StepFields DEF TypeOK
<1>5. Moment(b, s)' = alerts[a].openedAt + Policy[0].after
  BY <1>2 DEF Moment
<1>6. row.at >= Moment(b, s)'
  BY <1>3, <1>4, <1>5
<1> HIDE DEF row
<1>7. QED
  BY <1>2, <1>6 DEF GoodRow

LEMMA StopRows ==
    ASSUME TypeOK, NEW a \in Alerts, CancelEscalations(a)
    PROVE  \A b \in Alerts, s \in Steps : timers'[b][s] = timers[b][s] \/ GoodRow(b, s)'
<1>1. \A s \in Steps : timers'[a][s] = DoneRow
  BY DEF CancelEscalations, TypeOK
<1>2. \A b \in Alerts \ {a} : timers'[b] = timers[b]
  BY DEF CancelEscalations, TypeOK
<1>3. \A s \in Steps : GoodRow(a, s)'
  BY <1>1 DEF GoodRow, Pending, DoneRow
<1>4. QED
  BY <1>2, <1>3

LEMMA HandlerKeeps ==
    ASSUME IInv, TypeOK, TypeOK', NEW n \in Nodes, NEW a \in Alerts,
           \/ Raise(n, a) \/ Ack(n, a) \/ Snooze(n, a) \/ Resolve(n, a)
           \/ HandlerStarts(n, a) \/ HandlerStops(n, a)
    PROVE  IInv'
<1> USE DEF handlers, history, failures
<1>1. Born
  BY DEF IInv
<1>2. UNCHANGED <<now, fired, esc, engine, suppressedOpen>>
  BY DEF Raise, Ack, Snooze, Resolve, HandlerStarts, HandlerStops
<1>3. ASSUME NEW m \in Nodes, engine'[m] = engine[m]
      PROVE  \/ Waking(m)'
             \/ engine'[m].pc \notin {"flip", "rearm"}
             \/ /\ engine[m].pc \in {"flip", "rearm"}
                /\ engine'[m].at = engine[m].at
                /\ engine'[m].work \cup engine'[m].woken \subseteq engine[m].work \cup engine[m].woken
  BY <1>3
<1>4. CASE Raise(n, a)
  <2>1. Grows /\ alerts'[a].status # "none"
    BY <1>1, <1>2, <1>4, GrowsByInsert DEF Raise
  <2>2. \A m \in Nodes : \A b \in Cares(m)' : b \in Cares(m) \/ b = a
    BY <1>2, <1>4 DEF Raise, Cares, TypeOK
  <2>3. timers' = timers
    BY <1>4 DEF Raise
  <2>4. QED
    BY <1>2, <1>3, <2>1, <2>2, <2>3, QuietStep
<1>5. CASE Ack(n, a) \/ Snooze(n, a) \/ Resolve(n, a)
  <2>1. PICK status \in Status \ {"none"}, until \in Int : SetStatus(a, status, until)
    <3>1. CASE Ack(n, a)
      BY <3>1 DEF Ack, Status, NoTime
    <3>2. CASE Snooze(n, a)
      BY <3>2, EscalationAssumption DEF Snooze, Status, TypeOK
    <3>3. CASE Resolve(n, a)
      BY <3>3 DEF Resolve, Status, NoTime
    <3>4. QED
      BY <1>5, <3>1, <3>2, <3>3
  <2>2. timers' = timers /\ starting' = starting
    BY <1>5 DEF Ack, Snooze, Resolve
  <2>3. Grows
    BY <1>1, <1>2, <2>1, GrowsByStatus
  <2>4. \A m \in Nodes : Cares(m)' = Cares(m)
    BY <1>2, <2>2 DEF Cares
  <2>5. QED
    BY <1>2, <1>3, <2>2, <2>3, <2>4, QuietStep
<1>6. CASE HandlerStarts(n, a)
  <2>1. alerts' = alerts /\ Grows
    BY <1>1, <1>2, <1>6, GrowsStill DEF HandlerStarts
  <2>2. alerts[a].openedAt \in Nat /\ alerts[a].status # "none"
    BY <1>6 DEF TypeOK, HandlerStarts, IInv, EngineInv
  <2>3. \A b \in Alerts, s \in Steps : timers'[b][s] = timers[b][s] \/ GoodRow(b, s)'
    BY <1>2, <1>6, <2>1, <2>2, StartRows DEF HandlerStarts
  <2>4. \A m \in Nodes : Cares(m)' \subseteq Cares(m)
    BY <1>2, <1>6 DEF HandlerStarts, Cares, TypeOK
  <2>5. QED
    BY <1>2, <1>3, <2>1, <2>3, <2>4, QuietStep
<1>7. CASE HandlerStops(n, a)
  <2>1. alerts' = alerts /\ starting' = starting /\ Grows
    BY <1>1, <1>2, <1>7, GrowsStill DEF HandlerStops
  <2>2. \A b \in Alerts, s \in Steps : timers'[b][s] = timers[b][s] \/ GoodRow(b, s)'
    BY <1>7, StopRows DEF HandlerStops
  <2>3. \A m \in Nodes : Cares(m)' = Cares(m)
    BY <1>2, <2>1 DEF Cares
  <2>4. QED
    BY <1>2, <1>3, <2>1, <2>2, <2>3, QuietStep
<1>8. QED
  BY <1>4, <1>5, <1>6, <1>7

LEMMA EngineKeeps ==
    ASSUME IInv, TypeOK, TypeOK', NEW n \in Nodes, NEW a \in Alerts,
           \/ RuleOpens(n, a) \/ RuleResolves(n, a) \/ Gate(n, a) \/ ReEvaluate(n, a)
           \/ EngineStarts(n, a) \/ EngineStops(n, a) \/ Expire(n, a)
           \/ WakeFlips(n, a) \/ WakeStarts(n, a)
    PROVE  IInv'
<1> USE DEF handlers, history, failures
<1>1. Born
  BY DEF IInv
<1>2. UNCHANGED <<now, fired, esc, starting>>
  BY DEF RuleOpens, RuleResolves, Gate, ReEvaluate, EngineStarts, EngineStops, Expire,
         WakeFlips, WakeStarts
<1>3. /\ alerts[a].openedAt \in Nat
      /\ \A m \in Nodes : Waking(m) /\ \A b \in Cares(m) : alerts[b].status # "none"
  BY EngineInvIs DEF IInv, TypeOK
<1>4. \A m \in Nodes : m # n => engine'[m] = engine[m] /\ suppressedOpen'[m] = suppressedOpen[m]
  BY DEF RuleOpens, RuleResolves, Gate, ReEvaluate, EngineStarts, EngineStops, Expire,
         WakeFlips, WakeStarts, TypeOK
<1>5. ASSUME Grows,
             \A b \in Alerts, s \in Steps : timers'[b][s] = timers[b][s] \/ GoodRow(b, s)',
             \A b \in Cares(n)' : b \in Cares(n) \/ alerts'[b].status # "none",
             \/ engine'[n] = engine[n]
             \/ engine'[n].pc \notin {"flip", "rearm"}
             \/ /\ engine[n].pc \in {"flip", "rearm"}
                /\ engine'[n].at = engine[n].at
                /\ engine'[n].work \cup engine'[n].woken \subseteq engine[n].work \cup engine[n].woken
      PROVE  IInv'
  <2>1. ASSUME NEW m \in Nodes
        PROVE  /\ \A b \in Cares(m)' : b \in Cares(m) \/ alerts'[b].status # "none"
               /\ \/ engine'[m].pc \notin {"flip", "rearm"}
                  \/ /\ engine[m].pc \in {"flip", "rearm"}
                     /\ engine'[m].at = engine[m].at
                     /\ engine'[m].work \cup engine'[m].woken \subseteq engine[m].work \cup engine[m].woken
    <3>1. CASE m = n
      BY <1>5, <3>1
    <3>2. CASE m # n
      BY <1>2, <1>4, <3>2 DEF Cares
    <3>3. QED
      BY <3>1, <3>2
  <2>2. QED
    BY <1>2, <1>5, <2>1, QuietStep
<1>6. ASSUME NEW pc \in {"gate", "start", "stop"}
      PROVE  /\ Busy(pc, a).pc = pc /\ Busy(pc, a).work = {a} /\ Busy(pc, a).woken = {}
             /\ EngineIdle.pc = "idle" /\ EngineIdle.work = {} /\ EngineIdle.woken = {}
  BY DEF Busy, EngineIdle
<1>7. CASE RuleOpens(n, a)
  <2>1. Grows /\ alerts'[a].status # "none" /\ timers' = timers /\ suppressedOpen' = suppressedOpen
    BY <1>1, <1>2, <1>7, GrowsByInsert DEF RuleOpens
  <2>2. engine'[n] = Busy("gate", a)
    BY <1>7 DEF RuleOpens, TypeOK
  <2>3. QED
    BY <1>2, <1>5, <1>6, <2>1, <2>2 DEF Cares
<1>8. CASE RuleResolves(n, a)
  <2>1. Grows /\ timers' = timers /\ suppressedOpen' = suppressedOpen
    BY <1>1, <1>2, <1>8, GrowsByStatus DEF RuleResolves, Status
  <2>2. engine'[n] = Busy("stop", a) /\ alerts[a].status # "none"
    BY <1>8 DEF RuleResolves, TypeOK, Active, Open, Acked
  <2>3. alerts'[a].status # "none"
    BY <2>1, <2>2 DEF Grows, Lives
  <2>4. QED
    BY <1>2, <1>5, <1>6, <2>1, <2>2, <2>3 DEF Cares
<1>9. CASE Gate(n, a) \/ ReEvaluate(n, a)
  <2>1. alerts' = alerts /\ timers' = timers /\ Grows
    BY <1>1, <1>2, <1>9, GrowsStill DEF Gate, ReEvaluate
  <2>2. \/ engine'[n] = engine[n] \/ engine'[n] = Busy("start", a) \/ engine'[n] = EngineIdle
    BY <1>9 DEF Gate, ReEvaluate, TypeOK
  <2>3. suppressedOpen'[n] \subseteq suppressedOpen[n] \cup {a}
    BY <1>9 DEF Gate, ReEvaluate, TypeOK
  <2>4. a \in Cares(n)
    BY <1>6, <1>9 DEF Gate, ReEvaluate, Cares
  <2>5. Cares(n)' \subseteq Cares(n)
    BY <1>2, <1>6, <2>2, <2>3, <2>4 DEF Cares
  <2>6. QED
    BY <1>5, <1>6, <2>1, <2>2, <2>5
<1>10. CASE EngineStarts(n, a) \/ EngineStops(n, a)
  <2>1. alerts' = alerts /\ Grows
    BY <1>1, <1>2, <1>10, GrowsStill DEF EngineStarts, EngineStops
  <2>2. engine'[n] = EngineIdle /\ suppressedOpen'[n] \subseteq suppressedOpen[n]
    BY <1>10 DEF EngineStarts, EngineStops, TypeOK
  <2>3. a \in Cares(n)
    BY <1>6, <1>10 DEF EngineStarts, EngineStops, Cares
  <2>4. \A b \in Alerts, s \in Steps : timers'[b][s] = timers[b][s] \/ GoodRow(b, s)'
    <3>1. CASE StartChain(a, alerts[a].openedAt)
      BY <1>2, <1>3, <2>1, <2>3, <3>1, StartRows
    <3>2. CASE CancelEscalations(a)
      BY <3>2, StopRows
    <3>3. CASE timers' = timers
      BY <3>3
    <3>4. QED
      BY <1>10, <3>1, <3>2, <3>3 DEF EngineStarts, EngineStops
  <2>5. Cares(n)' \subseteq Cares(n)
    BY <1>2, <1>6, <2>2 DEF Cares
  <2>6. QED
    BY <1>5, <1>6, <2>1, <2>2, <2>4, <2>5
<1>11. CASE Expire(n, a)
  <2>1. alerts' = [alerts EXCEPT ![a].status = "expired"]
    BY <1>11 DEF Expire
  <2>2. ASSUME NEW b \in Alerts
        PROVE  /\ alerts'[b].openedAt = alerts[b].openedAt
               /\ alerts[b].status # "none" => alerts'[b].status # "none"
    BY <2>1 DEF TypeOK
  <2>3. now \in Nat /\ \A b \in Alerts, s \in Steps : fired[b][s] \in Nat
    BY DEF TypeOK
  <2>4. Grows
    BY <1>1, <1>2, <2>2, <2>3 DEF Born, Grows, Lives
  <2>5. timers' = timers /\ engine' = engine /\ suppressedOpen' = suppressedOpen
    BY <1>11 DEF Expire
  <2>6. QED
    BY <1>2, <1>5, <2>4, <2>5 DEF Cares
<1>12. CASE WakeFlips(n, a)
  <2>1. timers' = timers /\ suppressedOpen' = suppressedOpen /\ engine[n].pc = "flip"
    BY <1>12 DEF WakeFlips
  <2>2. Grows
    <3>1. CASE SetStatus(a, "open", NoTime)
      BY <1>1, <1>2, <3>1, GrowsByStatus DEF Status
    <3>2. CASE alerts' = alerts
      BY <1>1, <1>2, <3>2, GrowsStill
    <3>3. QED
      BY <1>12, <3>1, <3>2 DEF WakeFlips
  <2>3. PICK flipped \in BOOLEAN : engine'[n] = AfterFlip(engine[n], a, flipped)
    BY <1>12 DEF WakeFlips, TypeOK
  <2>4. a \in engine[n].work /\ engine[n] \in EngineRecords
    BY <1>12 DEF WakeFlips, TypeOK, EngineRecords
  <2>5. /\ engine'[n].work \cup engine'[n].woken \subseteq engine[n].work \cup engine[n].woken
        /\ engine'[n].pc = "idle" \/ engine'[n].at = engine[n].at
    BY <2>3, <2>4, <1>6 DEF AfterFlip, EngineRecords
  <2>6. QED
    BY <1>2, <1>5, <2>1, <2>2, <2>5 DEF Cares
<1>13. CASE WakeStarts(n, a)
  <2>1. /\ alerts' = alerts /\ Grows /\ suppressedOpen' = suppressedOpen
        /\ engine[n].pc = "rearm" /\ a \in engine[n].woken
    BY <1>1, <1>2, <1>13, GrowsStill DEF WakeStarts
  <2>2. engine'[n] = AfterStart(engine[n], a) /\ engine[n] \in EngineRecords
    BY <1>13 DEF WakeStarts, TypeOK, EngineRecords
  <2>3. /\ engine'[n].work \cup engine'[n].woken \subseteq engine[n].work \cup engine[n].woken
        /\ engine'[n].pc = "idle" \/ engine'[n].at = engine[n].at
    BY <2>2, <1>6 DEF AfterStart, EngineRecords
  <2>4. /\ a \in Cares(n) /\ alerts[a].status # "none"
        /\ alerts[a].openedAt <= engine[n].at /\ engine[n].at \in Nat
    BY <1>3, <2>1, <2>2 DEF Cares, Waking, EngineRecords
  <2>5. \A b \in Alerts, s \in Steps : timers'[b][s] = timers[b][s] \/ GoodRow(b, s)'
    <3>1. CASE StartChain(a, engine[n].at)
      BY <1>2, <1>3, <2>1, <2>4, <3>1, StartRows
    <3>2. CASE timers' = timers
      BY <3>2
    <3>3. QED
      BY <1>13, <3>1, <3>2 DEF WakeStarts
  <2>6. QED
    BY <1>2, <1>5, <2>1, <2>3, <2>5 DEF Cares
<1>14. QED
  BY <1>7, <1>8, <1>9, <1>10, <1>11, <1>12, <1>13

(* A step of a worker: the copies it holds stay sound. *)
LEMMA WorkerStep ==
    ASSUME IInv, TypeOK, TypeOK', NEW n \in Nodes, Grows,
           UNCHANGED <<engine, suppressedOpen, starting>>,
           \A m \in Nodes : m # n => esc'[m] = esc[m],
           Arming(n)', \A t \in Holds(n)' : Sound(t)',
           \A a \in Alerts, s \in Steps : GoodRow(a, s)' /\ GoodPage(a, s)'
    PROVE  IInv'
<1>1. CopiesInv'
  <2>1. \A m \in Nodes : Arming(m) /\ \A t \in Holds(m) : Sound(t)
    BY CopiesInvIs DEF IInv
  <2>2. ASSUME NEW m \in Nodes PROVE Arming(m)' /\ \A t \in Holds(m)' : Sound(t)'
    BY <2>1, CopiesKept
  <2>3. QED
    BY <2>2 DEF CopiesInv, Arming, Sound
<1>2. EngineInv'
  <2>1. \A m \in Nodes : Waking(m) /\ \A a \in Cares(m) : alerts[a].status # "none"
    BY EngineInvIs DEF IInv
  <2>2. ASSUME NEW m \in Nodes PROVE Waking(m)'
    BY <2>1, WakingKept
  <2>3. ASSUME NEW m \in Nodes, NEW a \in Cares(m)' PROVE alerts'[a].status # "none"
    BY <2>1, CaresAreAlerts DEF Grows, Lives, Cares
  <2>4. QED
    BY <2>2, <2>3 DEF EngineInv, Waking, Cares
<1>3. RowsInv' /\ Born'
  BY DEF RowsInv, Grows, Lives, Born
<1>4. QED
  BY <1>1, <1>2, <1>3 DEF IInv

LEMMA PollKeeps ==
    ASSUME IInv, TypeOK, TypeOK', NEW n \in Nodes, Poll(n)
    PROVE  IInv'
<1>1. /\ UNCHANGED <<now, alerts, timers, engine, suppressedOpen, handlers, fired>>
      /\ esc' = [esc EXCEPT ![n].due = Due] /\ esc[n].pc = "idle"
  BY DEF Poll, history
<1>2. Grows
  BY <1>1, GrowsStill DEF IInv
<1>3. esc'[n].pc = "idle" /\ esc'[n].due = Due /\ \A m \in Nodes : m # n => esc'[m] = esc[m]
  BY <1>1, WorkerAt DEF TypeOK
<1>4. Arming(n)' /\ Holds(n)' = Due
  BY <1>3 DEF Arming, Holds
<1>5. ASSUME NEW t \in Due PROVE Sound(t)
  <2>1. PICK r \in Alerts \X Steps : /\ Pending(r[1], r[2]) /\ timers[r[1]][r[2]].at <= now
                                     /\ t = Copy(r[1], r[2])
    BY DEF Due
  <2>2. r[1] \in Alerts /\ r[2] \in Steps /\ GoodRow(r[1], r[2])
    BY DEF IInv, RowsInv
  <2>3. t.alert = r[1] /\ t.step = r[2] /\ t.at = timers[r[1]][r[2]].at
    BY <2>1 DEF Copy
  <2>4. QED
    BY <2>1, <2>2, <2>3, MomentNat DEF GoodRow, Sound, TypeOK
<1>6. \A t \in Holds(n)' : Sound(t)'
  BY <1>2, <1>4, <1>5, DueIsSnapshots, SoundKept
<1>7. \A a \in Alerts, s \in Steps : GoodRow(a, s)' /\ GoodPage(a, s)'
  BY <1>1, <1>2, RowKept, PageKept DEF IInv, RowsInv
<1>8. QED
  BY <1>1, <1>2, <1>3, <1>4, <1>6, <1>7, WorkerStep DEF handlers

(* A firing that only moves the worker on: it holds no copy it did not hold. *)
LEMMA ReadKeeps ==
    ASSUME IInv, TypeOK, TypeOK', NEW n \in Nodes, NEW t \in esc[n].due,
           FireRead(n, t) \/ FireReadFails(n, t) \/ PolicyReadFails(n, t)
    PROVE  IInv'
<1>1. UNCHANGED <<now, alerts, timers, engine, suppressedOpen, handlers, fired>>
  BY DEF FireRead, FireReadFails, PolicyReadFails, history
<1>2. Grows
  BY <1>1, GrowsStill DEF IInv
<1>3. \A m \in Nodes : m # n => esc'[m] = esc[m]
  BY DEF FireRead, FireReadFails, PolicyReadFails, TypeOK
<1>4. esc'[n].pc # "next" /\ Holds(n)' \subseteq Holds(n)
  <2>1. CASE FireRead(n, t) \/ PolicyReadFails(n, t)
    <3>1. esc'[n].pc \in {"notify", "done"} /\ esc'[n].due = esc[n].due \ {t} /\ esc'[n].cur = t
      BY <2>1 DEF FireRead, PolicyReadFails, TypeOK
    <3>2. QED
      BY <3>1 DEF Holds
  <2>2. CASE FireReadFails(n, t)
    <3>1. esc[n].pc = "idle" /\ esc' = [esc EXCEPT ![n].due = @ \ {t}]
      BY <2>2 DEF FireReadFails, IsNext
    <3>2. esc'[n].pc = "idle" /\ esc'[n].due = esc[n].due \ {t}
      BY <3>1, WorkerAt DEF TypeOK, IdleWorker, BusyWorker
    <3>3. QED
      BY <3>1, <3>2 DEF Holds
  <2>3. QED
    BY <2>1, <2>2
<1>5. Arming(n)'
  BY <1>4 DEF Arming
<1>6. \A u \in Holds(n)' : Sound(u)'
  BY <1>2, <1>4, HeldAreSnapshots, SoundKept, CopiesInvIs DEF IInv
<1>7. \A a \in Alerts, s \in Steps : GoodRow(a, s)' /\ GoodPage(a, s)'
  BY <1>1, <1>2, RowKept, PageKept DEF IInv, RowsInv
<1>8. QED
  BY <1>1, <1>2, <1>3, <1>5, <1>6, <1>7, WorkerStep DEF handlers

LEMMA NotifyKeeps ==
    ASSUME IInv, TypeOK, TypeOK', NEW n \in Nodes, Notify(n)
    PROVE  IInv'
<1> DEFINE t == esc[n].cur
           a == t.alert
           s == t.step
<1>1. /\ UNCHANGED <<now, alerts, timers, engine, suppressedOpen, starting>>
      /\ esc[n].pc = "notify"
      /\ fired' = [fired EXCEPT ![a][s] = fired[a][s] + 1]
      /\ esc' = [esc EXCEPT ![n].pc = IF esc[n].acked THEN "done"
                                      ELSE IF ArmsNext(t) THEN "next" ELSE "own"]
  BY DEF Notify, handlers
<1>2. t \in Snapshot /\ a \in Alerts /\ s \in Steps /\ t \in Holds(n)
  BY <1>1, WorkerAt DEF Snapshot, Holds
<1>3. Sound(t)
  BY <1>2, CopiesInvIs DEF IInv
<1>4. /\ fired'[a][s] = fired[a][s] + 1
      /\ \A b \in Alerts, u \in Steps : b # a \/ u # s => fired'[b][u] = fired[b][u]
  BY <1>1, <1>2 DEF TypeOK
<1>5. Grows
  <2>1. now \in Nat /\ \A b \in Alerts, u \in Steps : fired[b][u] \in Nat
    BY DEF TypeOK
  <2>2. \A b \in Alerts, u \in Steps : fired'[b][u] >= fired[b][u]
    BY <1>4, <2>1
  <2>3. QED
    BY <1>1, <2>1, <2>2 DEF IInv, Born, Grows, Lives
<1>6. /\ esc'[n].pc = IF esc[n].acked THEN "done" ELSE IF ArmsNext(t) THEN "next" ELSE "own"
      /\ esc'[n].due = esc[n].due /\ esc'[n].cur = t
      /\ \A m \in Nodes : m # n => esc'[m] = esc[m]
  <2>1. esc[n] \in BusyWorker
    BY <1>1, WorkerAt DEF IdleWorker
  <2>2. QED
    BY <1>1, <2>1 DEF TypeOK, BusyWorker
<1>7. Arming(n)'
  <2>1. fired'[a][s] > 0
    BY <1>2, <1>4 DEF TypeOK
  <2>2. esc'[n].pc = "next" => s + 1 \in Steps
    BY <1>6 DEF ArmsNext
  <2>3. QED
    BY <1>6, <2>1, <2>2 DEF Arming
<1>8. \A u \in Holds(n)' : Sound(u)'
  <2>1. Holds(n)' \subseteq Holds(n)
    BY <1>1, <1>6 DEF Holds
  <2>2. QED
    BY <1>5, <2>1, HeldAreSnapshots, SoundKept, CopiesInvIs DEF IInv
<1>9. ASSUME NEW b \in Alerts, NEW u \in Steps PROVE GoodRow(b, u)' /\ GoodPage(b, u)'
  <2>1. GoodRow(b, u) /\ GoodPage(b, u)
    BY DEF IInv, RowsInv
  <2>2. GoodRow(b, u)'
    BY <1>1, <1>5, <2>1, RowKept
  <2>3. CASE b # a \/ u # s
    BY <1>4, <1>5, <2>1, <2>2, <2>3, PageKept
  <2>4. CASE b = a /\ u = s
    <3>1. PICK c \in Snapshot : c.alert = b /\ c.step = u /\ Sound(c)
      BY <1>2, <1>3, <2>4
    <3>2. Sound(c)'
      BY <1>5, <3>1, SoundKept
    <3>3. now' \in Nat /\ c.at \in Nat /\ Moment(b, u)' \in Nat
      BY <1>1, MomentNat DEF TypeOK, Snapshot, Moment
    <3>4. GoodPage(b, u)'
      BY <3>1, <3>2, <3>3 DEF Sound, GoodPage
    <3>5. QED
      BY <2>2, <3>4
  <2>5. QED
    BY <2>3, <2>4
<1>10. QED
  BY <1>1, <1>5, <1>6, <1>7, <1>8, <1>9, WorkerStep

(* The firing arms the next step, or writes its own row. *)
LEMMA WriteKeeps ==
    ASSUME IInv, TypeOK, TypeOK', NEW n \in Nodes,
           ArmNext(n) \/ Repeat(n) \/ MarkDone(n) \/ OwnWriteFails(n)
    PROVE  IInv'
<1>1. /\ UNCHANGED <<now, alerts, engine, suppressedOpen, starting, fired>>
      /\ esc[n].pc \in {"next", "own", "done"}
  BY DEF ArmNext, Repeat, MarkDone, OwnWriteFails, handlers, history
<1>2. Grows
  BY <1>1, GrowsStill DEF IInv
<1>3. PICK t \in Snapshot : t = esc[n].cur
  BY <1>1, WorkerAt
<1>4. /\ t.alert \in Alerts /\ t.step \in Steps /\ t.at \in Nat /\ t.repeats \in Nat
      /\ Sound(t) /\ Moment(t.alert, t.step) \in Nat /\ now \in Nat /\ Arming(n)
      /\ alerts[t.alert].openedAt \in Nat
  BY <1>1, <1>3, MomentNat, CopiesInvIs DEF IInv, Holds, Snapshot, TypeOK
<1>5. /\ esc'[n].pc # "next" /\ Holds(n)' \subseteq Holds(n)
      /\ \A m \in Nodes : m # n => esc'[m] = esc[m]
  <2>1. CASE ArmNext(n)
    <3>1. esc' = [esc EXCEPT ![n].pc = "own"] /\ esc[n].pc = "next"
      BY <2>1 DEF ArmNext
    <3>2. esc[n] \in BusyWorker
      BY <3>1, WorkerAt DEF IdleWorker
    <3>3. /\ esc'[n].pc = "own" /\ esc'[n].cur = esc[n].cur /\ esc'[n].due = esc[n].due
          /\ \A m \in Nodes : m # n => esc'[m] = esc[m]
      BY <3>1, <3>2 DEF TypeOK, BusyWorker
    <3>4. QED
      BY <3>1, <3>3 DEF Holds
  <2>2. CASE NextTimer(n)
    <3>1. /\ esc'[n] = [EscIdle EXCEPT !.due = esc[n].due]
          /\ \A m \in Nodes : m # n => esc'[m] = esc[m]
      BY <2>2 DEF NextTimer, TypeOK
    <3>2. esc'[n].pc = "idle" /\ esc'[n].due = esc[n].due
      BY <3>1 DEF EscIdle
    <3>3. QED
      BY <3>1, <3>2 DEF Holds
  <2>3. QED
    BY <2>1, <2>2 DEF Repeat, MarkDone, OwnWriteFails
<1>6. Arming(n)' /\ \A u \in Holds(n)' : Sound(u)'
  BY <1>2, <1>5, HeldAreSnapshots, SoundKept, CopiesInvIs DEF IInv, Arming
<1>7. \A b \in Alerts, s \in Steps : timers'[b][s] = timers[b][s] \/ GoodRow(b, s)'
  <2> SUFFICES ASSUME NEW b \in Alerts, NEW s \in Steps, timers'[b][s] # timers[b][s]
               PROVE  GoodRow(b, s)'
    OBVIOUS
  <2>1. Moment(b, s)' = Moment(b, s) /\ alerts' = alerts /\ fired' = fired
    BY <1>1 DEF Moment
  <2>2. CASE ArmNext(n)
    <3> DEFINE row == Row(0, NextAt(t))
    <3>1. timers' = [timers EXCEPT ![t.alert][t.step + 1] = row] /\ esc[n].pc = "next"
      BY <1>3, <2>2 DEF ArmNext
    <3>2. b = t.alert /\ s = t.step + 1 /\ timers'[b][s] = row
      BY <3>1 DEF TypeOK
    <3>3. fired[t.alert][t.step] > 0 /\ s - 1 = t.step
      BY <1>3, <1>4, <3>1, <3>2 DEF Arming, Steps
    <3>4. row.at = NextAt(t)
      BY DEF Row
    <3>5. NextAt(t) >= Moment(b, s)
      BY <1>4, <3>2, StepFields, EscalationAssumption DEF NextAt, Moment
    <3>6. alerts[b].status # "none"
      BY <1>4, <3>2 DEF Sound
    <3> HIDE DEF row
    <3>7. QED
      BY <2>1, <3>2, <3>3, <3>4, <3>5, <3>6 DEF GoodRow
  <2>3. CASE Repeat(n)
    <3> DEFINE row == Row(t.repeats + 1, now + Policy[t.step].repeatEvery)
    <3>1. timers' = [timers EXCEPT ![t.alert][t.step] = row]
      BY <1>3, <2>3 DEF Repeat
    <3>2. b = t.alert /\ s = t.step /\ timers'[b][s] = row
      BY <3>1 DEF TypeOK
    <3>3. row.at >= Moment(b, s)
      BY <1>4, <3>2, StepFields DEF Row, Sound
    <3> HIDE DEF row
    <3>4. QED
      BY <1>4, <2>1, <3>2, <3>3 DEF GoodRow, Sound
  <2>4. CASE MarkDone(n)
    <3>1. timers' = [timers EXCEPT ![t.alert][t.step] = DoneRow]
      BY <1>3, <2>4 DEF MarkDone
    <3>2. timers'[b][s] = DoneRow
      BY <3>1 DEF TypeOK
    <3>3. QED
      BY <3>2 DEF GoodRow, Pending, DoneRow
  <2>5. CASE OwnWriteFails(n)
    BY <2>5 DEF OwnWriteFails
  <2>6. QED
    BY <2>2, <2>3, <2>4, <2>5
<1>8. \A b \in Alerts, s \in Steps : GoodRow(b, s)' /\ GoodPage(b, s)'
  BY <1>1, <1>2, <1>7, RowKept, PageKept DEF IInv, RowsInv
<1>9. QED
  BY <1>1, <1>2, <1>5, <1>6, <1>8, WorkerStep

LEMMA OtherKeeps ==
    ASSUME IInv, TypeOK, TypeOK', Tick \/ \E n \in Nodes : WakeSelects(n) \/ Crash(n)
    PROVE  IInv'
<1> USE DEF handlers, history, failures
<1>1. CASE Tick
  <2>1. UNCHANGED <<alerts, timers, esc, engine, suppressedOpen, starting, fired>> /\ now' = now + 1
    BY <1>1 DEF Tick
  <2>2. Grows
    BY <2>1, GrowsStill DEF IInv
  <2>3. \A n \in Nodes : Cares(n)' = Cares(n)
    BY <2>1 DEF Cares
  <2>4. QED
    BY <2>1, <2>2, <2>3, QuietStep
<1>2. ASSUME NEW n \in Nodes, WakeSelects(n) PROVE IInv'
  <2>1. UNCHANGED <<now, alerts, timers, esc, suppressedOpen, starting, fired>>
    BY <1>2 DEF WakeSelects
  <2>2. Grows
    BY <2>1, GrowsStill DEF IInv
  <2>3. /\ engine'[n] = [pc |-> "flip", work |-> {a \in Alerts : Expired(a)}, woken |-> {}, at |-> now]
        /\ \A m \in Nodes : m # n => engine'[m] = engine[m]
    BY <1>2 DEF WakeSelects, TypeOK
  <2>4. engine'[n].work = {a \in Alerts : Expired(a)} /\ engine'[n].woken = {} /\ engine'[n].at = now
    BY <2>3
  <2>5. \A a \in Alerts : Expired(a) => alerts[a].status # "none"
    BY DEF Expired, Acked
  <2>6. ASSUME NEW m \in Nodes, NEW a \in Cares(m)'
        PROVE  a \in Cares(m) \/ alerts'[a].status # "none"
    <3>1. CASE m = n
      BY <2>1, <2>4, <2>5, <2>6, <3>1 DEF Cares
    <3>2. CASE m # n
      BY <2>1, <2>3, <2>6, <3>2 DEF Cares
    <3>3. QED
      BY <3>1, <3>2
  <2>7. Waking(n)'
    BY <2>1, <2>4 DEF Waking, IInv, Born
  <2>8. QED
    BY <2>1, <2>2, <2>3, <2>6, <2>7, QuietStep
<1>3. ASSUME NEW n \in Nodes, Crash(n) PROVE IInv'
  <2>1. UNCHANGED <<now, alerts, timers, fired>>
    BY <1>3 DEF Crash
  <2>2. Grows
    BY <2>1, GrowsStill DEF IInv
  <2>3. /\ esc'[n] = EscIdle /\ engine'[n] = EngineIdle
        /\ suppressedOpen'[n] = {} /\ starting'[n] = {}
        /\ \A m \in Nodes : m # n => /\ esc'[m] = esc[m] /\ engine'[m] = engine[m]
                                     /\ suppressedOpen'[m] = suppressedOpen[m]
                                     /\ starting'[m] = starting[m]
    BY <1>3 DEF Crash, TypeOK
  <2>4. CopiesInv'
    <3>1. \A m \in Nodes : Arming(m) /\ \A t \in Holds(m) : Sound(t)
      BY CopiesInvIs DEF IInv
    <3>2. Arming(n)' /\ Holds(n)' = {}
      BY <2>3 DEF Arming, Holds, EscIdle
    <3>3. ASSUME NEW m \in Nodes PROVE Arming(m)' /\ \A t \in Holds(m)' : Sound(t)'
      BY <2>2, <2>3, <3>1, <3>2, CopiesKept
    <3>4. QED
      BY <3>3 DEF CopiesInv, Arming, Sound
  <2>5. EngineInv'
    <3>1. \A m \in Nodes : Waking(m) /\ \A a \in Cares(m) : alerts[a].status # "none"
      BY EngineInvIs DEF IInv
    <3>2. Waking(n)' /\ Cares(n)' = {}
      BY <2>3 DEF Waking, Cares, EngineIdle
    <3>3. ASSUME NEW m \in Nodes PROVE Waking(m)' /\ \A a \in Cares(m)' : alerts'[a].status # "none"
      BY <2>1, <2>3, <3>1, <3>2 DEF Waking, Cares
    <3>4. QED
      BY <3>3 DEF EngineInv, Waking, Cares
  <2>6. RowsInv' /\ Born'
    BY <2>1 DEF IInv, RowsInv, Born, GoodRow, GoodPage, Pending, Moment
  <2>7. QED
    BY <2>4, <2>5, <2>6 DEF IInv
<1>4. QED
  BY <1>1, <1>2, <1>3

LEMMA InitInv == Init => IInv
<1> SUFFICES ASSUME Init PROVE IInv
  OBVIOUS
<1>1. \A n \in Nodes : /\ esc[n].pc = "idle" /\ esc[n].due = {}
                       /\ engine[n].pc = "idle" /\ engine[n].work = {} /\ engine[n].woken = {}
                       /\ starting[n] = {} /\ suppressedOpen[n] = {}
  BY DEF Init, EscIdle, EngineIdle
<1>2. \A a \in Alerts, s \in Steps : ~Pending(a, s) /\ fired[a][s] = 0
  BY DEF Init, Pending, DoneRow
<1>3. \A a \in Alerts : alerts[a].openedAt = 0 /\ now = 0
  BY DEF Init, NoAlert
<1>4. CopiesInv
  BY <1>1 DEF CopiesInv, Holds
<1>5. EngineInv
  BY <1>1 DEF EngineInv
<1>6. RowsInv /\ Born
  BY <1>2, <1>3 DEF RowsInv, GoodRow, GoodPage, Born
<1>7. QED
  BY <1>4, <1>5, <1>6 DEF IInv

LEMMA StepInv ==
    ASSUME IInv, TypeOK, [Next]_vars
    PROVE  IInv'
<1>1. TypeOK'
  BY StepTypes
<1>2. CASE UNCHANGED vars
  <2>1. UNCHANGED <<now, alerts, timers, esc, engine, suppressedOpen, starting, fired>>
    BY <1>2 DEF vars, handlers, history
  <2>2. QED
    BY <1>1, <2>1, GrowsStill, QuietStep DEF IInv, Cares
<1>3. CASE Next
  BY <1>1, <1>3, PollKeeps, ReadKeeps, NotifyKeeps, WriteKeeps, HandlerKeeps, EngineKeeps, OtherKeeps
  DEF Next, Fire, Fails, Input, Handler, EngineWorks
<1>4. QED
  BY <1>2, <1>3

(* The inductive invariant holds: what the workers have read and not acted on
   never leads them to arm a step too early or out of order. *)
THEOREM ChainCorrect == Spec => []ChainInv
<1>1. Init => TypeOK /\ IInv
  BY InitTypes, InitInv
<1>2. TypeOK /\ IInv /\ [Next]_vars => (TypeOK /\ IInv)'
  BY StepTypes, StepInv
<1>3. TypeOK /\ IInv => ChainInv
  BY IInvIsChainInv
<1>4. QED
  BY <1>1, <1>2, <1>3, PTL DEF Spec

(* No escalation step is scheduled or sent before its offset from the opening
   of its alert, for every policy, number of nodes and interleaving. *)
THEOREM NeverEarly == Spec => []NotEarly
<1>1. ChainInv => NotEarly
  BY DEF ChainInv
<1>2. QED
  BY <1>1, ChainCorrect, PTL

(* No escalation step is armed or sent unless the one before it was sent. *)
THEOREM InOrder == Spec => []StepsInOrder
<1>1. ChainInv => StepsInOrder
  BY DEF ChainInv
<1>2. QED
  BY <1>1, ChainCorrect, PTL

-----------------------------------------------------------------------------
(* Races are bounded.  Late firings: every worker that had read the alert before
   it was closed may still page once, and until the alert is closed no page is
   late.  Wake-ups: an alert that can be woken has a snooze not yet woken. *)
Notifying(a) == {n \in Nodes : esc[n].pc = "notify" /\ esc[n].cur.alert = a}

FewLate(a) ==
    IF Closed(a) THEN late[a] + Cardinality(Notifying(a)) <= Cardinality(Nodes)
                 ELSE late[a] = 0

FewWakes(a) ==
    /\ wakes[a] <= snoozes[a]
    /\ Flippable(a) => wakes[a] < snoozes[a]

RaceInv == \A a \in Alerts : FewLate(a) /\ FewWakes(a)

LEMMA NodesCount ==
    ASSUME NEW S \in SUBSET Nodes
    PROVE  /\ IsFiniteSet(S) /\ Cardinality(S) \in Nat /\ Cardinality(Nodes) \in Nat
           /\ Cardinality(S) <= Cardinality(Nodes)
           /\ \A T \in SUBSET S : Cardinality(T) <= Cardinality(S)
<1>1. IsFiniteSet(Nodes)
  BY EscalationAssumption
<1>2. IsFiniteSet(S) /\ Cardinality(S) <= Cardinality(Nodes)
  BY <1>1, FS_Subset
<1>3. \A T \in SUBSET S : Cardinality(T) <= Cardinality(S)
  BY <1>2, FS_Subset
<1>4. Cardinality(S) \in Nat /\ Cardinality(Nodes) \in Nat
  BY <1>1, <1>2, FS_CardinalityType
<1>5. QED
  BY <1>2, <1>3, <1>4

(* A step that closes alerts for good, fires for none that is closed and
   starts no firing for one. *)
LEMMA LateKept ==
    ASSUME TypeOK, NEW a \in Alerts, FewLate(a), late'[a] = late[a],
           Closed(a) => Closed(a)' /\ Notifying(a)' \subseteq Notifying(a)
    PROVE  FewLate(a)'
<1>1. late[a] \in Nat
  BY DEF TypeOK
<1> DEFINE N == Notifying(a)
           M == Notifying(a)'
<1>2. N \subseteq Nodes /\ M \subseteq Nodes
  BY DEF Notifying
<1>3. /\ Cardinality(N) \in Nat /\ Cardinality(M) \in Nat /\ Cardinality(Nodes) \in Nat
      /\ Cardinality(M) <= Cardinality(Nodes)
  BY <1>2, NodesCount
<1>4. Closed(a) => late[a] + Cardinality(N) <= Cardinality(Nodes)
  BY DEF FewLate
<1>5. ~Closed(a) => late[a] = 0
  BY DEF FewLate
<1>6. M \subseteq N => Cardinality(M) <= Cardinality(N)
  BY <1>2, NodesCount
<1>7. Closed(a) => Closed(a)' /\ M \subseteq N
  OBVIOUS
<1>8. Closed(a)' => late'[a] + Cardinality(M) <= Cardinality(Nodes)
  <2> HIDE DEF N, M
  <2>1. QED
    BY <1>1, <1>3, <1>4, <1>5, <1>6, <1>7
<1>9. ~Closed(a)' => late'[a] = 0
  BY <1>5, <1>7
<1>10. QED
  BY <1>8, <1>9 DEF FewLate

(* A step of the worker of one node: it was notifying about no other alert,
   and notifies about this one only if it was open. *)
LEMMA WorkerRaces ==
    ASSUME TypeOK, RaceInv, NEW n \in Nodes, NEW w,
           esc' = [esc EXCEPT ![n] = w],
           UNCHANGED <<alerts, late, snoozes, wakes>>,
           w.pc = "notify" => ~Closed(w.cur.alert)
    PROVE  RaceInv'
<1> SUFFICES ASSUME NEW a \in Alerts PROVE FewLate(a)' /\ FewWakes(a)'
  BY DEF RaceInv
<1>1. FewLate(a) /\ FewWakes(a)
  BY DEF RaceInv
<1>2. esc'[n] = w /\ \A m \in Nodes \ {n} : esc'[m] = esc[m]
  BY DEF TypeOK
<1>3. Closed(a)' <=> Closed(a)
  BY DEF Closed
<1>4. Closed(a) => Notifying(a)' \subseteq Notifying(a)
  BY <1>2 DEF Notifying
<1>5. FewLate(a)'
  BY <1>1, <1>3, <1>4, LateKept
<1>6. FewWakes(a)'
  BY <1>1 DEF FewWakes, Flippable, Acked
<1>7. QED
  BY <1>5, <1>6

LEMMA NotifyRaces ==
    ASSUME TypeOK, RaceInv, NEW n \in Nodes, Notify(n)
    PROVE  RaceInv'
<1> DEFINE b == esc[n].cur.alert
           pc == IF esc[n].acked THEN "done" ELSE IF ArmsNext(esc[n].cur) THEN "next" ELSE "own"
<1> SUFFICES ASSUME NEW a \in Alerts PROVE FewLate(a)' /\ FewWakes(a)'
  BY DEF RaceInv
<1>1. FewLate(a) /\ FewWakes(a)
  BY DEF RaceInv
<1>2. esc[n].pc = "notify" /\ esc' = [esc EXCEPT ![n].pc = pc]
  BY DEF Notify
<1>3. UNCHANGED <<alerts, snoozes, wakes>>
  BY DEF Notify
<1>4. pc # "notify"
  OBVIOUS
<1> HIDE DEF pc
<1>5. /\ esc'[n].pc # "notify"
      /\ \A m \in Nodes \ {n} : esc'[m] = esc[m]
  BY <1>2, <1>4 DEF TypeOK, IdleWorker, BusyWorker
<1>6. Closed(a)' <=> Closed(a)
  BY <1>3 DEF Closed
<1>7. FewWakes(a)'
  BY <1>1, <1>3 DEF FewWakes, Flippable, Acked
<1>8. Notifying(a)' = Notifying(a) \ {n}
  BY <1>5 DEF Notifying
<1>9. b \in Alerts
  BY <1>2, WorkerAt DEF Snapshot
<1>10. CASE a = b /\ Closed(a)
  <2>1. late'[a] = late[a] + 1 /\ late[a] \in Nat
    BY <1>9, <1>10 DEF Notify, TypeOK
  <2>2. n \in Notifying(a)
    BY <1>2, <1>10 DEF Notifying
  <2> DEFINE N == Notifying(a)
             M == Notifying(a)'
  <2>3. IsFiniteSet(N) /\ Cardinality(N) \in Nat /\ Cardinality(Nodes) \in Nat
    <3>1. N \in SUBSET Nodes
      BY DEF Notifying
    <3>2. QED
      BY <3>1, NodesCount
  <2>4. M = N \ {n} /\ n \in N
    BY <1>8, <2>2
  <2>5. late[a] + Cardinality(N) <= Cardinality(Nodes)
    BY <1>1, <1>10 DEF FewLate
  <2> HIDE DEF N, M
  <2>6. Cardinality(M) = Cardinality(N) - 1
    BY <2>3, <2>4, FS_RemoveElement
  <2>7. late'[a] + Cardinality(M) <= Cardinality(Nodes)
    BY <2>1, <2>3, <2>5, <2>6
  <2>8. FewLate(a)'
    BY <1>6, <1>10, <2>7 DEF FewLate, M
  <2>9. QED
    BY <1>7, <2>8
<1>11. CASE ~(a = b /\ Closed(a))
  <2>1. late'[a] = late[a]
    BY <1>9, <1>11 DEF Notify, TypeOK
  <2>2. FewLate(a)'
    BY <1>1, <1>6, <1>8, <2>1, LateKept
  <2>3. QED
    BY <1>7, <2>2
<1>12. QED
  BY <1>10, <1>11

LEMMA FiringRaces ==
    ASSUME TypeOK, RaceInv, NEW n \in Nodes, Poll(n) \/ Fire(n) \/ Fails(n)
    PROVE  RaceInv'
<1>1. CASE Poll(n)
  <2>1. esc' = [esc EXCEPT ![n] = [esc[n] EXCEPT !.due = Due]]
    BY <1>1 DEF Poll, TypeOK
  <2>2. [esc[n] EXCEPT !.due = Due].pc = "idle"
    BY <1>1, WorkerAt DEF Poll, IdleWorker, BusyWorker
  <2>3. QED
    BY <1>1, <2>1, <2>2, WorkerRaces DEF Poll, history
<1>2. ASSUME NEW t \in esc[n].due, FireRead(n, t) PROVE RaceInv'
  <2> DEFINE w == [pc |-> IF Sends(t) THEN "notify" ELSE "done",
                   due |-> esc[n].due \ {t}, cur |-> t, acked |-> Acked(t.alert)]
  <2>1. esc' = [esc EXCEPT ![n] = w]
    BY <1>2 DEF FireRead, TypeOK
  <2>2. w.pc = "notify" => ~Closed(w.cur.alert)
    BY DEF Sends, Active, Open, Acked, Closed
  <2>3. QED
    BY <1>2, <2>1, <2>2, WorkerRaces DEF FireRead, history
<1>3. CASE Notify(n)
  BY <1>3, NotifyRaces
<1>4. CASE ArmNext(n)
  <2>1. esc' = [esc EXCEPT ![n] = [esc[n] EXCEPT !.pc = "own"]]
    BY <1>4 DEF ArmNext, TypeOK
  <2>2. [esc[n] EXCEPT !.pc = "own"].pc = "own"
    BY WorkerAt DEF IdleWorker, BusyWorker
  <2>3. QED
    BY <1>4, <2>1, <2>2, WorkerRaces DEF ArmNext, history
<1>5. CASE Repeat(n) \/ MarkDone(n) \/ OwnWriteFails(n)
  <2>1. esc' = [esc EXCEPT ![n] = [EscIdle EXCEPT !.due = esc[n].due]]
    BY <1>5 DEF Repeat, MarkDone, OwnWriteFails, NextTimer
  <2>2. [EscIdle EXCEPT !.due = esc[n].due].pc = "idle"
    BY DEF EscIdle
  <2>3. UNCHANGED <<alerts, late, snoozes, wakes>>
    BY <1>5 DEF Repeat, MarkDone, OwnWriteFails, history
  <2>4. QED
    BY <2>1, <2>2, <2>3, WorkerRaces
<1>6. ASSUME NEW t \in esc[n].due, FireReadFails(n, t) PROVE RaceInv'
  <2>1. esc' = [esc EXCEPT ![n] = [esc[n] EXCEPT !.due = esc[n].due \ {t}]]
    BY <1>6 DEF FireReadFails, TypeOK
  <2>2. [esc[n] EXCEPT !.due = esc[n].due \ {t}].pc = "idle"
    BY <1>6, WorkerAt DEF FireReadFails, IsNext, IdleWorker, BusyWorker
  <2>3. QED
    BY <1>6, <2>1, <2>2, WorkerRaces DEF FireReadFails, history
<1>7. ASSUME NEW t \in esc[n].due, PolicyReadFails(n, t) PROVE RaceInv'
  BY <1>7, WorkerRaces DEF PolicyReadFails, history
<1>8. QED
  BY <1>1, <1>2, <1>3, <1>4, <1>5, <1>6, <1>7 DEF Fire, Fails

(* A step that only changes the row, the snoozes and the wake-ups of one alert. *)
LEMMA RowRaces ==
    ASSUME TypeOK, RaceInv, NEW a \in Alerts,
           \A b \in Alerts \ {a} : /\ alerts'[b] = alerts[b]
                                   /\ snoozes'[b] = snoozes[b] /\ wakes'[b] = wakes[b],
           UNCHANGED <<esc, late>>,
           Closed(a) => Closed(a)',
           FewWakes(a) => FewWakes(a)'
    PROVE  RaceInv'
<1> SUFFICES ASSUME NEW b \in Alerts PROVE FewLate(b)' /\ FewWakes(b)'
  BY DEF RaceInv
<1>1. FewLate(b) /\ FewWakes(b)
  BY DEF RaceInv
<1>2. Notifying(b)' = Notifying(b)
  BY DEF Notifying
<1>3. Closed(b) => Closed(b)'
  BY DEF Closed
<1>4. FewLate(b)'
  BY <1>1, <1>2, <1>3, LateKept
<1>5. FewWakes(b)'
  BY <1>1 DEF FewWakes, Flippable, Acked
<1>6. QED
  BY <1>4, <1>5

LEMMA StatusRaces ==
    ASSUME TypeOK, RaceInv, NEW a \in Alerts, NEW status, NEW until,
           SetStatus(a, status, until), UNCHANGED <<esc, late, snoozes, wakes>>,
           Closed(a) => status \in {"resolved", "expired"},
           status # "acked" \/ until = NoTime
    PROVE  RaceInv'
<1>1. /\ alerts'[a].status = status /\ alerts'[a].snoozedUntil = until
      /\ \A b \in Alerts \ {a} : alerts'[b] = alerts[b]
  BY DEF SetStatus, TypeOK
<1>2. Closed(a) => Closed(a)'
  BY <1>1 DEF Closed
<1>3. FewWakes(a) => FewWakes(a)'
  BY <1>1 DEF FewWakes, Flippable, Acked
<1>4. QED
  BY <1>1, <1>2, <1>3, RowRaces

LEMMA InputRaces ==
    ASSUME TypeOK, RaceInv, NEW n \in Nodes, NEW a \in Alerts,
           \/ Raise(n, a) \/ Ack(n, a) \/ Snooze(n, a) \/ Resolve(n, a)
           \/ RuleOpens(n, a) \/ RuleResolves(n, a) \/ Expire(n, a)
    PROVE  RaceInv'
<1>1. CASE Raise(n, a) \/ RuleOpens(n, a)
  <2>1. UNCHANGED <<esc, late, snoozes, wakes>> /\ Insert(a)
    BY <1>1 DEF Raise, RuleOpens, history
  <2>2. /\ alerts'[a].status = "open" /\ alerts[a].status = "none"
        /\ \A b \in Alerts \ {a} : alerts'[b] = alerts[b]
    BY <2>1 DEF Insert, TypeOK
  <2>3. QED
    BY <2>1, <2>2, RowRaces DEF Closed, FewWakes, Flippable, Acked
<1>2. CASE Ack(n, a)
  BY <1>2, StatusRaces DEF Ack, history, Open, Closed
<1>3. CASE Snooze(n, a)
  <2>1. PICK d \in SnoozeFor : SetStatus(a, "acked", now + d)
    BY <1>3 DEF Snooze
  <2>2. /\ alerts'[a].status = "acked"
        /\ \A b \in Alerts \ {a} : alerts'[b] = alerts[b]
    BY <2>1 DEF SetStatus, TypeOK
  <2>3. /\ snoozes'[a] = snoozes[a] + 1
        /\ \A b \in Alerts \ {a} : snoozes'[b] = snoozes[b]
        /\ snoozes[a] \in Nat /\ wakes[a] \in Nat
        /\ UNCHANGED <<esc, late, wakes>>
    BY <1>3 DEF Snooze, TypeOK
  <2>4. ~Closed(a)
    BY <1>3 DEF Snooze, Active, Open, Acked, Closed
  <2>5. FewWakes(a) => FewWakes(a)'
    BY <2>3 DEF FewWakes
  <2>6. QED
    BY <2>2, <2>3, <2>4, <2>5, RowRaces
<1>4. CASE Resolve(n, a)
  BY <1>4, StatusRaces DEF Resolve, history
<1>5. CASE RuleResolves(n, a)
  BY <1>5, StatusRaces DEF RuleResolves, history
<1>6. CASE Expire(n, a)
  <2>1. UNCHANGED <<esc, late, snoozes, wakes>>
    BY <1>6 DEF Expire, history
  <2>2. /\ alerts'[a].status = "expired"
        /\ \A b \in Alerts \ {a} : alerts'[b] = alerts[b]
    BY <1>6 DEF Expire, TypeOK
  <2>3. QED
    BY <2>1, <2>2, RowRaces DEF Closed, FewWakes, Flippable, Acked
<1>7. QED
  BY <1>1, <1>2, <1>3, <1>4, <1>5, <1>6

(* A waker that re-opens an alert uses up a snooze: the alert it found snoozed
   is open from then on. *)
LEMMA FlipRaces ==
    ASSUME TypeOK, RaceInv, NEW n \in Nodes, NEW a \in Alerts, WakeFlips(n, a)
    PROVE  RaceInv'
<1>1. UNCHANGED <<esc, late, snoozes>>
  BY DEF WakeFlips
<1>2. CASE UNCHANGED <<alerts, wakes>>
  BY <1>1, <1>2, RowRaces DEF Closed, FewWakes, Flippable, Acked
<1>3. CASE /\ Flippable(a) /\ SetStatus(a, "open", NoTime)
           /\ wakes' = [wakes EXCEPT ![a] = @ + 1]
  <2>1. /\ alerts'[a].status = "open"
        /\ \A b \in Alerts \ {a} : alerts'[b] = alerts[b]
    BY <1>3 DEF SetStatus, TypeOK
  <2>2. /\ wakes'[a] = wakes[a] + 1
        /\ \A b \in Alerts \ {a} : wakes'[b] = wakes[b]
        /\ wakes[a] \in Nat /\ snoozes[a] \in Nat
    BY <1>3 DEF TypeOK
  <2>3. ~Closed(a)
    BY <1>3 DEF Flippable, Acked, Closed
  <2>4. FewWakes(a) => FewWakes(a)'
    BY <1>1, <1>3, <2>1, <2>2 DEF FewWakes, Flippable, Acked
  <2>5. QED
    BY <1>1, <2>1, <2>2, <2>3, <2>4, RowRaces
<1>4. QED
  BY <1>2, <1>3 DEF WakeFlips

(* The steps that touch neither an alert nor a firing. *)
LEMMA QuietRaces ==
    ASSUME TypeOK, RaceInv, UNCHANGED <<alerts, esc, late, snoozes, wakes>>
    PROVE  RaceInv'
BY DEF RaceInv, FewLate, FewWakes, Notifying, Closed, Flippable, Acked

LEMMA CrashRaces ==
    ASSUME TypeOK, RaceInv, NEW n \in Nodes, Crash(n)
    PROVE  RaceInv'
<1>1. esc' = [esc EXCEPT ![n] = EscIdle]
  BY DEF Crash
<1>2. EscIdle.pc = "idle"
  BY DEF EscIdle
<1>3. UNCHANGED <<alerts, late, snoozes, wakes>>
  BY DEF Crash, history
<1>4. QED
  BY <1>1, <1>2, <1>3, WorkerRaces

LEMMA StepRaces ==
    ASSUME TypeOK, RaceInv, [Next]_vars
    PROVE  RaceInv'
<1>1. CASE UNCHANGED vars
  BY <1>1, QuietRaces DEF vars, history
<1>2. ASSUME NEW n \in Nodes, NEW a \in Alerts,
             \/ Handler(n, a) \/ ReEvaluate(n, a)
             \/ Gate(n, a) \/ EngineStarts(n, a) \/ EngineStops(n, a) \/ WakeStarts(n, a)
      PROVE  RaceInv'
  BY <1>2, QuietRaces DEF Handler, HandlerStarts, HandlerStops, ReEvaluate, Gate,
     EngineStarts, EngineStops, WakeStarts, history
<1>3. CASE Tick \/ \E n \in Nodes : WakeSelects(n)
  BY <1>3, QuietRaces DEF Tick, WakeSelects, history
<1>4. CASE Next
  BY <1>2, <1>3, <1>4, FiringRaces, InputRaces, FlipRaces, CrashRaces
  DEF Next, Input, EngineWorks
<1>5. QED
  BY <1>1, <1>4

LEMMA InitRaces == Init => RaceInv
BY DEF Init, RaceInv, FewLate, FewWakes, Closed, NoAlert, Flippable, Acked

(* However the workers of the nodes race with those who close an alert, at most
   one page per node goes out after the close; and however the wakers race, an
   alert is re-opened at most once per snooze. *)
THEOREM RacesAreBounded == Spec => []RacesBounded
<1>1. Init => TypeOK /\ RaceInv
  BY InitTypes, InitRaces
<1>2. TypeOK /\ RaceInv /\ [Next]_vars => (TypeOK /\ RaceInv)'
  BY StepTypes, StepRaces
<1>3. TypeOK /\ RaceInv => RacesBounded
  <2> SUFFICES ASSUME TypeOK, RaceInv, NEW a \in Alerts
               PROVE  late[a] <= Cardinality(Nodes) /\ wakes[a] <= snoozes[a]
    BY DEF RacesBounded, LateBounded, WakesBounded
  <2>1. FewLate(a) /\ FewWakes(a) /\ late[a] \in Nat
    BY DEF RaceInv, TypeOK
  <2>2. Notifying(a) \in SUBSET Nodes
    BY DEF Notifying
  <2>3. Cardinality(Notifying(a)) \in Nat /\ Cardinality(Nodes) \in Nat
    BY <2>2, NodesCount
  <2>4. QED
    BY <2>1, <2>3 DEF FewLate, FewWakes
<1>4. QED
  BY <1>1, <1>2, <1>3, PTL DEF Spec

-----------------------------------------------------------------------------
(* No chain gets lost.  What a row or a copy has counted was sent. *)
CountedRow(a, s) == Pending(a, s) => timers[a][s].repeats <= fired[a][s]

CountedCopies(n) ==
    /\ \A t \in Holds(n) : t.repeats <= fired[t.alert][t.step]
    /\ esc[n].pc \in {"next", "own"} =>
          esc[n].cur.repeats < fired[esc[n].cur.alert][esc[n].cur.step]

CountInv ==
    /\ \A a \in Alerts, s \in Steps : CountedRow(a, s)
    /\ \A n \in Nodes : CountedCopies(n)

(* The steps from one on are still to be sent, or sent as planned.  That much
   is kept for the steps behind a row, a copy or a firing that repeats. *)
Alive(a, from, s) ==
    \/ fired[a][s] >= Total(s)
    \/ Pending(a, s)
    \/ \E u \in from..(s - 1) : Pending(a, u) /\ timers[a][u].repeats = 0

AliveFrom(a, from) == \A s \in Steps : s >= from => Alive(a, from, s)

RowsCarry(a) ==
    \A u \in Steps : Pending(a, u) /\ timers[a][u].repeats > 0 => AliveFrom(a, u + 1)

CopiesCarry(n, a) ==
    /\ \A t \in Holds(n) : t.alert = a /\ t.repeats > 0 => AliveFrom(a, t.step + 1)
    /\ esc[n].pc = "own" /\ esc[n].cur.alert = a => AliveFrom(a, esc[n].cur.step + 1)

(* Nobody is about to end the chain of an alert that was always open. *)
GivesUp(n, a) ==
    /\ esc[n].pc # "idle" /\ esc[n].cur.alert = a
    /\ esc[n].pc = "done" \/ esc[n].acked

Stops(n, a) == stopping[n][a] > 0 \/ engine[n] = Busy("stop", a)

Running(a) == alerts[a].status \in {"none", "open"} /\ snoozes[a] = 0 /\ faults = 0

RunInv(a) ==
    /\ starts[a] > 0 => AliveFrom(a, 0)
    /\ RowsCarry(a)
    /\ \A n \in Nodes : CopiesCarry(n, a) /\ ~GivesUp(n, a) /\ ~Stops(n, a)

AliveInv == \A a \in Alerts : Running(a) => RunInv(a)

LEMMA StepsBetween ==
    ASSUME NEW from \in Nat, NEW s \in Steps
    PROVE  from..(s - 1) \subseteq Steps /\ s \in Nat
BY EscalationAssumption DEF Steps

LEMMA TotalNat ==
    ASSUME NEW s \in Steps
    PROVE  Total(s) \in Nat
BY StepFields DEF Total

(* Rows that stay as they are keep what lies behind them alive. *)
LEMMA AliveSame ==
    ASSUME TypeOK, TypeOK', NEW a \in Alerts, NEW from \in Nat, AliveFrom(a, from),
           \A v \in Steps : v >= from => timers'[a][v] = timers[a][v],
           \A v \in Steps : fired'[a][v] >= fired[a][v]
    PROVE  AliveFrom(a, from)'
<1> SUFFICES ASSUME NEW s \in Steps, s >= from PROVE Alive(a, from, s)'
  BY DEF AliveFrom
<1>1. Alive(a, from, s)
  BY DEF AliveFrom
<1>2. CASE fired[a][s] >= Total(s)
  <2>1. fired[a][s] \in Nat /\ fired'[a][s] \in Nat /\ Total(s) \in Nat
    BY TotalNat DEF TypeOK
  <2>2. fired'[a][s] >= Total(s)
    BY <1>2, <2>1
  <2>3. QED
    BY <2>2 DEF Alive
<1>3. CASE Pending(a, s)
  BY <1>3 DEF Pending, Alive
<1>4. CASE \E u \in from..(s - 1) : Pending(a, u) /\ timers[a][u].repeats = 0
  <2>1. PICK u \in from..(s - 1) : Pending(a, u) /\ timers[a][u].repeats = 0
    BY <1>4
  <2>2. u \in Steps /\ u >= from
    BY StepsBetween, <2>1
  <2>3. Pending(a, u)' /\ timers'[a][u].repeats = 0
    BY <2>1, <2>2 DEF Pending
  <2>4. QED
    BY <2>1, <2>3 DEF Alive
<1>5. QED
  BY <1>1, <1>2, <1>3, <1>4 DEF Alive

(* Arming a step does too, and brings to life what lies behind it. *)
LEMMA AliveArmed ==
    ASSUME TypeOK, TypeOK', NEW a \in Alerts, NEW v \in Steps, NEW at,
           timers'[a] = [timers[a] EXCEPT ![v] = Row(0, at)],
           \A s \in Steps : fired'[a][s] >= fired[a][s]
    PROVE  /\ AliveFrom(a, v)'
           /\ \A from \in Nat : AliveFrom(a, from) => AliveFrom(a, from)'
<1>1. timers'[a][v] = Row(0, at) /\ \A u \in Steps \ {v} : timers'[a][u] = timers[a][u]
  BY DEF TypeOK
<1>2. Pending(a, v)' /\ timers'[a][v].repeats = 0
  BY <1>1 DEF Pending, Row
<1>3. ASSUME NEW from \in Nat, from <= v, NEW s \in Steps, s >= v PROVE Alive(a, from, s)'
  <2>1. CASE s = v
    BY <2>1, <1>2 DEF Alive
  <2>2. CASE s # v
    <3>1. v \in from..(s - 1)
      BY <1>3, <2>2, StepsBetween
    <3>2. QED
      BY <3>1, <1>2 DEF Alive
  <2>3. QED
    BY <2>1, <2>2
<1>4. AliveFrom(a, v)'
  <2>1. v \in Nat /\ v <= v
    BY StepsBetween
  <2>2. QED
    BY <1>3, <2>1 DEF AliveFrom
<1>5. ASSUME NEW from \in Nat, AliveFrom(a, from) PROVE AliveFrom(a, from)'
  <2> SUFFICES ASSUME NEW s \in Steps, s >= from PROVE Alive(a, from, s)'
    BY DEF AliveFrom
  <2>1. CASE from <= v /\ s >= v
    BY <1>3, <2>1
  <2>2. CASE ~(from <= v /\ s >= v)
    <3>1. Alive(a, from, s)
      BY <1>5 DEF AliveFrom
    <3>2. s # v /\ \A u \in from..(s - 1) : u \in Steps \ {v}
      BY <2>2, StepsBetween
    <3>3. CASE fired[a][s] >= Total(s)
      <4>1. fired[a][s] \in Nat /\ fired'[a][s] \in Nat /\ Total(s) \in Nat
            /\ fired'[a][s] >= fired[a][s]
        BY TotalNat DEF TypeOK
      <4>2. fired'[a][s] >= Total(s)
        BY <3>3, <4>1
      <4>3. QED
        BY <4>2 DEF Alive
    <3>4. CASE Pending(a, s)
      BY <3>4, <3>2, <1>1 DEF Pending, Alive
    <3>5. CASE \E u \in from..(s - 1) : Pending(a, u) /\ timers[a][u].repeats = 0
      BY <3>5, <3>2, <1>1 DEF Pending, Alive
    <3>6. QED
      BY <3>1, <3>3, <3>4, <3>5 DEF Alive
  <2>3. QED
    BY <2>1, <2>2
<1>6. QED
  BY <1>4, <1>5

(* The write of the row of a step that was sent: scheduled again or sent as
   planned, with what lies behind it alive. *)
LEMMA AliveOwn ==
    ASSUME TypeOK, TypeOK', NEW a \in Alerts, NEW v \in Steps, NEW row,
           timers'[a] = [timers[a] EXCEPT ![v] = row], UNCHANGED fired,
           ~row.done \/ fired[a][v] >= Total(v),
           AliveFrom(a, v + 1), NEW from \in Nat, AliveFrom(a, from)
    PROVE  AliveFrom(a, from)'
<1>1. timers'[a][v] = row /\ \A u \in Steps \ {v} : timers'[a][u] = timers[a][u]
  BY DEF TypeOK
<1> SUFFICES ASSUME NEW s \in Steps, s >= from PROVE Alive(a, from, s)'
  BY DEF AliveFrom
<1>2. v \in Nat /\ s \in Nat
  BY StepsBetween
<1>3. CASE s = v
  BY <1>1, <1>3 DEF Alive, Pending
<1>4. ASSUME NEW low \in Nat, low >= from, low <= s, Alive(a, low, s),
             \A u \in low..(s - 1) : u # v, s # v
      PROVE  Alive(a, from, s)'
  <2>1. CASE fired[a][s] >= Total(s)
    BY <2>1 DEF Alive
  <2>2. CASE Pending(a, s)
    BY <2>2, <1>1, <1>4 DEF Alive, Pending
  <2>3. CASE \E u \in low..(s - 1) : Pending(a, u) /\ timers[a][u].repeats = 0
    <3>1. PICK u \in low..(s - 1) : Pending(a, u) /\ timers[a][u].repeats = 0
      BY <2>3
    <3>2. u \in Steps \ {v} /\ u \in from..(s - 1)
      BY <3>1, <1>4, StepsBetween
    <3>3. QED
      BY <1>1, <3>1, <3>2 DEF Alive, Pending
  <2>4. QED
    BY <1>4, <2>1, <2>2, <2>3 DEF Alive
<1>5. CASE s < v
  <2>1. Alive(a, from, s)
    BY DEF AliveFrom
  <2>2. QED
    BY <1>2, <1>4, <1>5, <2>1
<1>6. CASE s > v /\ v >= from
  <2>1. Alive(a, v + 1, s)
    BY <1>2, <1>6 DEF AliveFrom
  <2>2. QED
    BY <1>2, <1>4, <1>6, <2>1
<1>7. CASE s > v /\ v < from
  <2>1. Alive(a, from, s)
    BY DEF AliveFrom
  <2>2. QED
    BY <1>2, <1>4, <1>7, <2>1
<1>8. QED
  BY <1>2, <1>3, <1>5, <1>6, <1>7

(* What a row or a copy has counted stays sent. *)
PagesGrow == \A a \in Alerts, s \in Steps : fired'[a][s] >= fired[a][s]

LEMMA CountedStill ==
    ASSUME TypeOK, TypeOK', PagesGrow, NEW n \in Nodes, CountedCopies(n), esc'[n] = esc[n]
    PROVE  CountedCopies(n)'
<1>1. Holds(n)' = Holds(n)
  BY DEF Holds
<1>2. ASSUME NEW t \in Holds(n) PROVE t.repeats <= fired'[t.alert][t.step]
  <2>1. t \in Snapshot
    BY HeldAreSnapshots
  <2>2. t.alert \in Alerts /\ t.step \in Steps /\ t.repeats \in Nat
    BY <2>1 DEF Snapshot
  <2> DEFINE p == fired[t.alert][t.step]
             q == fired'[t.alert][t.step]
  <2>3. p \in Nat /\ q \in Nat /\ q >= p
    BY <2>2 DEF TypeOK, PagesGrow
  <2>4. t.repeats <= p
    BY DEF CountedCopies
  <2> HIDE DEF p, q
  <2>5. t.repeats <= q
    BY <2>2, <2>3, <2>4
  <2>6. QED
    BY <2>5 DEF q
<1>3. ASSUME esc[n].pc \in {"next", "own"}
      PROVE  esc[n].cur.repeats < fired'[esc[n].cur.alert][esc[n].cur.step]
  <2> DEFINE t == esc[n].cur
             p == fired[t.alert][t.step]
             q == fired'[t.alert][t.step]
  <2>1. t.alert \in Alerts /\ t.step \in Steps /\ t.repeats \in Nat
    BY <1>3, WorkerAt DEF Snapshot
  <2>2. p \in Nat /\ q \in Nat /\ q >= p
    BY <2>1 DEF TypeOK, PagesGrow
  <2>3. t.repeats < p
    BY <1>3 DEF CountedCopies
  <2> HIDE DEF p, q
  <2>4. t.repeats < q
    BY <2>1, <2>2, <2>3
  <2>5. QED
    BY <2>4 DEF q
<1>4. QED
  BY <1>1, <1>2, <1>3 DEF CountedCopies

LEMMA CountedRowStill ==
    ASSUME TypeOK, TypeOK', PagesGrow, NEW a \in Alerts, NEW s \in Steps, CountedRow(a, s),
           \/ timers'[a][s] = timers[a][s]
           \/ timers'[a][s].done
           \/ timers'[a][s].repeats = 0
    PROVE  CountedRow(a, s)'
<1>1. /\ fired[a][s] \in Nat /\ fired'[a][s] \in Nat /\ fired'[a][s] >= fired[a][s]
      /\ timers[a][s].repeats \in Nat
  BY DEF TypeOK, PagesGrow
<1>2. CASE timers'[a][s] = timers[a][s]
  BY <1>1, <1>2 DEF CountedRow, Pending
<1>3. CASE timers'[a][s].done
  BY <1>3 DEF CountedRow, Pending
<1>4. CASE timers'[a][s].repeats = 0
  BY <1>1, <1>4 DEF CountedRow
<1>5. QED
  BY <1>2, <1>3, <1>4

(* Every step but a firing leaves the counts and the copies of the workers. *)
LEMMA CountOthers ==
    ASSUME TypeOK, TypeOK', CountInv, UNCHANGED fired,
           \A n \in Nodes : esc'[n] = esc[n] \/ esc'[n] = EscIdle,
           \A a \in Alerts, s \in Steps :
              \/ timers'[a][s] = timers[a][s] \/ timers'[a][s].done \/ timers'[a][s].repeats = 0
    PROVE  CountInv'
<1>1. PagesGrow
  BY DEF PagesGrow, TypeOK
<1>2. ASSUME NEW a \in Alerts, NEW s \in Steps PROVE CountedRow(a, s)'
  BY <1>1, CountedRowStill DEF CountInv
<1>3. ASSUME NEW n \in Nodes PROVE CountedCopies(n)'
  <2>1. CASE esc'[n] = esc[n]
    BY <1>1, <2>1, CountedStill DEF CountInv
  <2>2. CASE esc'[n] = EscIdle
    BY <2>2 DEF EscIdle, CountedCopies, Holds
  <2>3. QED
    BY <2>1, <2>2
<1>4. QED
  BY <1>2, <1>3 DEF CountInv

(* A step of the worker of one node. *)
LEMMA CountWorker ==
    ASSUME TypeOK, TypeOK', CountInv, PagesGrow, NEW n \in Nodes, NEW w,
           esc' = [esc EXCEPT ![n] = w], CountedCopies(n)',
           \A a \in Alerts, s \in Steps :
              timers'[a][s] = timers[a][s] \/ CountedRow(a, s)'
    PROVE  CountInv'
<1>1. ASSUME NEW a \in Alerts, NEW s \in Steps PROVE CountedRow(a, s)'
  BY CountedRowStill DEF CountInv
<1>2. ASSUME NEW m \in Nodes, m # n PROVE CountedCopies(m)'
  <2>1. esc'[m] = esc[m]
    BY <1>2 DEF TypeOK
  <2>2. QED
    BY <2>1, CountedStill DEF CountInv
<1>3. QED
  BY <1>1, <1>2 DEF CountInv

(* The copies a worker holds after a step: those it held, or copies of rows. *)
LEMMA CountHeld ==
    ASSUME TypeOK, TypeOK', CountInv, UNCHANGED fired, NEW n \in Nodes,
           \A t \in Holds(n)' : t \in Holds(n) \/ t \in Due,
           esc'[n].pc \in {"next", "own"} =>
              esc[n].pc \in {"next", "own"} /\ esc'[n].cur = esc[n].cur
    PROVE  CountedCopies(n)'
<1>1. CountedCopies(n)
  BY DEF CountInv
<1>2. ASSUME NEW t \in Due PROVE t.repeats <= fired[t.alert][t.step]
  <2>1. PICK a \in Alerts, s \in Steps : Pending(a, s) /\ t = Copy(a, s)
    BY <1>2 DEF Due
  <2>2. CountedRow(a, s)
    BY DEF CountInv
  <2>3. QED
    BY <2>1, <2>2 DEF CountedRow, Copy
<1>3. QED
  BY <1>1, <1>2 DEF CountedCopies

LEMMA RowWrite ==
    ASSUME TypeOK, NEW a, NEW v, NEW row, timers' = [timers EXCEPT ![a][v] = row]
    PROVE  \A b \in Alerts, u \in Steps : timers'[b][u] = timers[b][u] \/ timers'[b][u] = row
<1> SUFFICES ASSUME NEW b \in Alerts, NEW u \in Steps
             PROVE  timers'[b][u] = timers[b][u] \/ timers'[b][u] = row
  OBVIOUS
<1>1. timers'[b] = IF a = b THEN [timers[b] EXCEPT ![v] = row] ELSE timers[b]
  BY DEF TypeOK
<1>2. timers[b] \in [Steps -> [done : BOOLEAN, repeats : Nat, at : Nat]]
  BY DEF TypeOK
<1>3. QED
  BY <1>1, <1>2

LEMMA CountFiring ==
    ASSUME TypeOK, TypeOK', CountInv, NEW n \in Nodes,
           \/ Poll(n) \/ ArmNext(n) \/ Repeat(n) \/ MarkDone(n) \/ OwnWriteFails(n)
           \/ \E t \in esc[n].due : FireRead(n, t) \/ FireReadFails(n, t) \/ PolicyReadFails(n, t)
    PROVE  CountInv'
<1>0. UNCHANGED fired /\ PagesGrow
  <2>1. UNCHANGED fired
    BY DEF Poll, ArmNext, Repeat, MarkDone, OwnWriteFails, FireRead, FireReadFails,
       PolicyReadFails, history
  <2>2. QED
    BY <2>1 DEF PagesGrow, TypeOK
<1>1. CASE Poll(n)
  <2>1. esc' = [esc EXCEPT ![n] = [esc[n] EXCEPT !.due = Due]] /\ UNCHANGED timers
    BY <1>1 DEF Poll, TypeOK
  <2>2. esc'[n].due = Due /\ esc'[n].pc = "idle"
    BY <1>1, <2>1, WorkerAt DEF Poll, TypeOK, IdleWorker, BusyWorker
  <2>3. CountedCopies(n)'
    BY <1>0, <2>2, CountHeld DEF Holds
  <2>4. QED
    BY <1>0, <2>1, <2>3, CountWorker
<1>2. ASSUME NEW t \in esc[n].due,
             FireRead(n, t) \/ FireReadFails(n, t) \/ PolicyReadFails(n, t)
      PROVE  CountInv'
  <2>1. esc[n].pc = "idle" /\ UNCHANGED timers
    BY <1>2 DEF FireRead, FireReadFails, PolicyReadFails, IsNext
  <2> DEFINE w == esc'[n]
  <2>2. /\ esc' = [esc EXCEPT ![n] = w]
        /\ w.pc = "idle" \/ (w.due = esc[n].due \ {t} /\ w.cur = t)
        /\ w.due \subseteq esc[n].due
        /\ w.pc \in {"idle", "notify", "done"}
    <3>1. CASE FireRead(n, t)
      BY <3>1 DEF FireRead, TypeOK
    <3>2. CASE FireReadFails(n, t)
      BY <2>1, <3>2 DEF FireReadFails, TypeOK, IdleWorker, BusyWorker
    <3>3. CASE PolicyReadFails(n, t)
      BY <3>3 DEF PolicyReadFails, TypeOK
    <3>4. QED
      BY <1>2, <3>1, <3>2, <3>3
  <2>3. CountedCopies(n)'
    BY <1>0, <2>1, <2>2, CountHeld DEF Holds
  <2>4. QED
    BY <1>0, <2>1, <2>2, <2>3, CountWorker
<1>3. CASE ArmNext(n)
  <2>1. esc' = [esc EXCEPT ![n] = [esc[n] EXCEPT !.pc = "own"]] /\ esc[n].pc = "next"
    BY <1>3 DEF ArmNext, TypeOK
  <2>2. esc'[n] = [esc[n] EXCEPT !.pc = "own"]
    BY <2>1 DEF TypeOK
  <2>3. esc'[n].pc = "own" /\ esc'[n].due = esc[n].due /\ esc'[n].cur = esc[n].cur
    BY <2>2, WorkerAt DEF IdleWorker, BusyWorker
  <2>4. CountedCopies(n)'
    BY <1>0, <2>1, <2>3, CountHeld DEF Holds
  <2>5. \A b \in Alerts, u \in Steps : timers'[b][u] = timers[b][u] \/ timers'[b][u].repeats = 0
    <3> DEFINE row == Row(0, NextAt(esc[n].cur))
    <3>1. row.repeats = 0
      BY DEF Row
    <3>2. \/ timers' = [timers EXCEPT ![esc[n].cur.alert][esc[n].cur.step + 1] = row]
          \/ UNCHANGED timers
      BY <1>3 DEF ArmNext
    <3> HIDE DEF row
    <3>3. CASE timers' = [timers EXCEPT ![esc[n].cur.alert][esc[n].cur.step + 1] = row]
      BY <3>1, <3>3, RowWrite
    <3>4. CASE UNCHANGED timers
      BY <3>4
    <3>5. QED
      BY <3>2, <3>3, <3>4
  <2>6. \A b \in Alerts, u \in Steps : timers'[b][u] = timers[b][u] \/ CountedRow(b, u)'
    BY <1>0, <2>5, CountedRowStill DEF CountInv
  <2>7. QED
    BY <1>0, <2>1, <2>4, <2>6, CountWorker
<1>4. CASE Repeat(n) \/ MarkDone(n) \/ OwnWriteFails(n)
  <2> DEFINE w == [EscIdle EXCEPT !.due = esc[n].due]
  <2>1. esc' = [esc EXCEPT ![n] = w]
    BY <1>4 DEF Repeat, MarkDone, OwnWriteFails, NextTimer
  <2>2. esc'[n].pc = "idle" /\ esc'[n].due = esc[n].due
    BY <2>1 DEF TypeOK, EscIdle
  <2>3. CountedCopies(n)'
    BY <1>0, <2>2, CountHeld DEF Holds
  <2>4. CASE Repeat(n)
    <3>0. PICK t : t = esc[n].cur
      OBVIOUS
    <3> DEFINE row == Row(t.repeats + 1, now + Policy[t.step].repeatEvery)
    <3>1. timers' = [timers EXCEPT ![t.alert][t.step] = row] /\ esc[n].pc = "own"
      BY <2>4, <3>0 DEF Repeat
    <3>2. row.repeats = t.repeats + 1
      BY DEF Row
    <3>3. t.alert \in Alerts /\ t.step \in Steps /\ t.repeats \in Nat
      BY <3>0, <3>1, WorkerAt DEF Snapshot
    <3>4. t.repeats < fired[t.alert][t.step] /\ fired[t.alert][t.step] \in Nat
      <4>1. t.repeats < fired[t.alert][t.step]
        BY <3>0, <3>1 DEF CountInv, CountedCopies
      <4>2. QED
        BY <4>1, <3>3 DEF TypeOK
    <3>9. PICK r : r = row
      OBVIOUS
    <3> HIDE DEF row
    <3>5. /\ timers'[t.alert][t.step] = r
          /\ \A b \in Alerts, u \in Steps :
                b # t.alert \/ u # t.step => timers'[b][u] = timers[b][u]
      BY <3>1, <3>3, <3>9 DEF TypeOK
    <3>6. CountedRow(t.alert, t.step)'
      BY <1>0, <3>2, <3>3, <3>4, <3>5, <3>9 DEF CountedRow
    <3>7. QED
      BY <1>0, <2>1, <2>3, <3>5, <3>6, CountWorker
  <2>5. CASE MarkDone(n) \/ OwnWriteFails(n)
    <3>1. \A b \in Alerts, u \in Steps : timers'[b][u] = timers[b][u] \/ timers'[b][u].repeats = 0
      <4>1. CASE timers' = [timers EXCEPT ![esc[n].cur.alert][esc[n].cur.step] = DoneRow]
        BY <4>1, RowWrite DEF DoneRow
      <4>2. QED
        BY <2>5, <4>1 DEF MarkDone, OwnWriteFails
    <3>2. \A b \in Alerts, u \in Steps : timers'[b][u] = timers[b][u] \/ CountedRow(b, u)'
      BY <1>0, <3>1, CountedRowStill DEF CountInv
    <3>3. QED
      BY <1>0, <2>1, <2>3, <3>2, CountWorker
  <2>6. QED
    BY <1>4, <2>4, <2>5
<1>5. QED
  BY <1>1, <1>2, <1>3, <1>4

(* A notification: one page more, which the firing has not counted. *)
LEMMA NotifyPages ==
    ASSUME TypeOK, NEW n \in Nodes, Notify(n)
    PROVE  /\ PagesGrow
           /\ fired'[esc[n].cur.alert][esc[n].cur.step] = fired[esc[n].cur.alert][esc[n].cur.step] + 1
           /\ esc[n].cur \in Snapshot
<1> DEFINE a == esc[n].cur.alert
           s == esc[n].cur.step
<1>1. esc[n].cur \in Snapshot
  BY WorkerAt DEF Notify
<1>2. a \in Alerts /\ s \in Steps
  BY <1>1 DEF Snapshot
<1>3. fired' = [fired EXCEPT ![a][s] = @ + 1]
  BY DEF Notify
<1> HIDE DEF a, s
<1>4. fired'[a][s] = fired[a][s] + 1
  BY <1>2, <1>3 DEF TypeOK
<1>5. PagesGrow
  BY <1>2, <1>3 DEF TypeOK, PagesGrow
<1>6. QED
  BY <1>1, <1>4, <1>5 DEF a, s

LEMMA CountNotify ==
    ASSUME TypeOK, TypeOK', CountInv, NEW n \in Nodes, Notify(n)
    PROVE  CountInv'
<1> DEFINE t == esc[n].cur
           p == fired[t.alert][t.step]
           q == fired'[t.alert][t.step]
           pc == IF esc[n].acked THEN "done" ELSE IF ArmsNext(t) THEN "next" ELSE "own"
<1>1. PagesGrow /\ q = p + 1 /\ t \in Snapshot
  BY NotifyPages
<1>2. esc[n].pc = "notify" /\ esc' = [esc EXCEPT ![n] = [esc[n] EXCEPT !.pc = pc]]
  BY DEF Notify, TypeOK
<1>3. esc'[n] = [esc[n] EXCEPT !.pc = pc]
  BY <1>2 DEF TypeOK
<1>4. esc'[n].pc # "idle" /\ esc'[n].due = esc[n].due /\ esc'[n].cur = t
  BY <1>2, <1>3, WorkerAt DEF IdleWorker, BusyWorker
<1>5. Holds(n)' = Holds(n) /\ t \in Holds(n)
  BY <1>2, <1>4 DEF Holds
<1>6. t.repeats \in Nat /\ t.alert \in Alerts /\ t.step \in Steps
  BY <1>1 DEF Snapshot
<1>7. CountedCopies(n)
  BY DEF CountInv
<1>8. t.repeats <= p /\ p \in Nat
  BY <1>5, <1>6, <1>7 DEF CountedCopies, TypeOK
<1>9. t.repeats < q
  <2> HIDE DEF p, q
  <2>1. QED
    BY <1>1, <1>6, <1>8
<1>10. ASSUME NEW u \in Holds(n) PROVE u.repeats <= fired'[u.alert][u.step]
  <2>1. u \in Snapshot
    BY HeldAreSnapshots
  <2>2. u.alert \in Alerts /\ u.step \in Steps /\ u.repeats \in Nat
    BY <2>1 DEF Snapshot
  <2> DEFINE x == fired[u.alert][u.step]
             y == fired'[u.alert][u.step]
  <2>3. x \in Nat /\ y \in Nat /\ y >= x
    BY <1>1, <2>2 DEF TypeOK, PagesGrow
  <2>4. u.repeats <= x
    BY <1>7 DEF CountedCopies
  <2> HIDE DEF x, y
  <2>5. u.repeats <= y
    BY <2>2, <2>3, <2>4
  <2>6. QED
    BY <2>5 DEF y
<1>11. CountedCopies(n)'
  BY <1>4, <1>5, <1>9, <1>10 DEF CountedCopies
<1>12. UNCHANGED timers
  BY DEF Notify
<1>13. QED
  <2> HIDE DEF pc
  <2>1. QED
    BY <1>1, <1>2, <1>11, <1>12, CountWorker

LEMMA ChainWrites ==
    ASSUME TypeOK, NEW a \in Alerts,
           \/ \E from \in Nat : StartChain(a, from)
           \/ CancelEscalations(a)
           \/ UNCHANGED timers
    PROVE  \A b \in Alerts, s \in Steps :
              \/ timers'[b][s] = timers[b][s] \/ timers'[b][s].done \/ timers'[b][s].repeats = 0
BY DEF StartChain, CancelEscalations, TypeOK, DoneRow, Row

LEMMA StepCount ==
    ASSUME TypeOK, TypeOK', CountInv, [Next]_vars
    PROVE  CountInv'
<1>1. ASSUME NEW n \in Nodes, NEW a \in Alerts, Handler(n, a) \/ EngineWorks(n, a)
      PROVE  CountInv'
  <2>1. UNCHANGED fired
    BY <1>1 DEF Handler, EngineWorks, HandlerStarts, HandlerStops, Gate, EngineStarts, EngineStops,
       WakeFlips, WakeStarts, history
  <2>2. UNCHANGED esc
    BY <1>1 DEF Handler, EngineWorks, HandlerStarts, HandlerStops, Gate, EngineStarts, EngineStops,
       WakeFlips, WakeStarts
  <2>3. \/ \E from \in Nat : StartChain(a, from)
        \/ CancelEscalations(a)
        \/ UNCHANGED timers
    <3>1. alerts[a].openedAt \in Nat /\ engine[n].at \in Nat
      BY DEF TypeOK
    <3>2. QED
      BY <1>1, <3>1 DEF Handler, EngineWorks, HandlerStarts, HandlerStops, Gate, EngineStarts,
         EngineStops, WakeFlips, WakeStarts
  <2>4. QED
    BY <2>1, <2>2, <2>3, ChainWrites, CountOthers
<1>2. ASSUME NEW n \in Nodes, NEW a \in Alerts,
             \/ Raise(n, a) \/ Ack(n, a) \/ Snooze(n, a) \/ Resolve(n, a)
             \/ RuleOpens(n, a) \/ RuleResolves(n, a) \/ ReEvaluate(n, a) \/ Expire(n, a)
      PROVE  CountInv'
  <2>1. UNCHANGED <<fired, timers, esc>>
    BY <1>2 DEF Raise, Ack, Snooze, Resolve, RuleOpens, RuleResolves, ReEvaluate, Expire, history
  <2>2. QED
    BY <2>1, CountOthers
<1>3. ASSUME NEW n \in Nodes, Crash(n) PROVE CountInv'
  <2>1. UNCHANGED <<fired, timers>> /\ esc' = [esc EXCEPT ![n] = EscIdle]
    BY <1>3 DEF Crash, history
  <2>2. \A m \in Nodes : esc'[m] = esc[m] \/ esc'[m] = EscIdle
    BY <2>1 DEF TypeOK
  <2>3. QED
    BY <2>1, <2>2, CountOthers
<1>4. CASE UNCHANGED vars \/ Tick \/ \E n \in Nodes : WakeSelects(n)
  <2>1. UNCHANGED <<fired, timers, esc>>
    BY <1>4 DEF vars, history, Tick, WakeSelects
  <2>2. QED
    BY <2>1, CountOthers
<1>5. CASE Next
  BY <1>1, <1>2, <1>3, <1>4, <1>5, CountFiring, CountNotify
  DEF Next, Fire, Fails, Input
<1>6. QED
  BY <1>4, <1>5

(* Every step but a firing and the start of the alert's chain. *)
LEMMA RunOthers ==
    ASSUME TypeOK, TypeOK', NEW a \in Alerts, RunInv(a),
           timers'[a] = timers[a], UNCHANGED fired, starts'[a] = starts[a],
           \A n \in Nodes : esc'[n] = esc[n] \/ esc'[n] = EscIdle,
           \A n \in Nodes : ~Stops(n, a)'
    PROVE  RunInv(a)'
<1>1. ASSUME NEW from \in Nat, AliveFrom(a, from) PROVE AliveFrom(a, from)'
  <2>1. \A v \in Steps : fired'[a][v] >= fired[a][v]
    BY DEF TypeOK
  <2>2. QED
    BY <1>1, <2>1, AliveSame
<1>2. starts'[a] > 0 => AliveFrom(a, 0)'
  BY <1>1 DEF RunInv
<1>3. RowsCarry(a)'
  BY <1>1, StepsBetween DEF RunInv, RowsCarry, Pending
<1>4. ASSUME NEW n \in Nodes PROVE CopiesCarry(n, a)' /\ ~GivesUp(n, a)'
  <2>1. CopiesCarry(n, a) /\ ~GivesUp(n, a)
    BY DEF RunInv
  <2>2. CASE esc'[n] = esc[n]
    <3>1. Holds(n)' = Holds(n)
      BY <2>2 DEF Holds
    <3>2. \A t \in Holds(n) : t.step + 1 \in Nat
      BY HeldAreSnapshots, StepsBetween DEF Snapshot
    <3>3. esc[n].pc = "own" => esc[n].cur \in Holds(n)
      BY DEF Holds
    <3>4. CopiesCarry(n, a)'
      BY <1>1, <2>1, <2>2, <3>1, <3>2, <3>3 DEF CopiesCarry
    <3>5. QED
      BY <2>1, <2>2, <3>4 DEF GivesUp
  <2>3. CASE esc'[n] = EscIdle
    BY <2>3 DEF EscIdle, CopiesCarry, GivesUp, Holds
  <2>4. QED
    BY <2>2, <2>3
<1>5. QED
  BY <1>2, <1>3, <1>4 DEF RunInv

(* The start of its chain. *)
LEMMA RunStarts ==
    ASSUME TypeOK, TypeOK', NEW a \in Alerts, RunInv(a), NEW from \in Nat, StartChain(a, from),
           UNCHANGED <<fired, esc>>,
           \A n \in Nodes : ~Stops(n, a)'
    PROVE  RunInv(a)'
<1>1. CASE NSteps = 0
  BY <1>1, RunOthers DEF StartChain
<1>2. CASE NSteps # 0
  <2> DEFINE at == from + Policy[0].after
  <2>1. 0 \in Steps
    BY <1>2, EscalationAssumption DEF Steps
  <2>2. timers' = [timers EXCEPT ![a][0] = Row(0, at)]
    BY <1>2 DEF StartChain
  <2> HIDE DEF at
  <2>3. timers'[a] = [timers[a] EXCEPT ![0] = Row(0, at)]
    BY <2>2 DEF TypeOK
  <2>4. \A v \in Steps : fired'[a][v] >= fired[a][v]
    BY DEF TypeOK
  <2>5. AliveFrom(a, 0)'
    BY <2>1, <2>3, <2>4, AliveArmed
  <2>6. \A low \in Nat : AliveFrom(a, low) => AliveFrom(a, low)'
    BY <2>1, <2>3, <2>4, AliveArmed
  <2>7. RowsCarry(a)'
    <3> SUFFICES ASSUME NEW u \in Steps, Pending(a, u)', timers'[a][u].repeats > 0
                 PROVE  AliveFrom(a, u + 1)'
      BY DEF RowsCarry
    <3>1. Row(0, at).repeats = 0
      BY DEF Row
    <3>2. timers'[a][u] = timers[a][u]
      BY <2>1, <2>3, <3>1 DEF TypeOK
    <3>3. AliveFrom(a, u + 1)
      BY <3>2 DEF RunInv, RowsCarry, Pending
    <3>4. u + 1 \in Nat
      BY StepsBetween
    <3>5. QED
      BY <2>6, <3>3, <3>4
  <2>8. ASSUME NEW n \in Nodes PROVE CopiesCarry(n, a)' /\ ~GivesUp(n, a)'
    <3>1. CopiesCarry(n, a) /\ ~GivesUp(n, a)
      BY DEF RunInv
    <3>2. Holds(n)' = Holds(n)
      BY DEF Holds
    <3>3. \A t \in Holds(n) : t.step + 1 \in Nat
      BY HeldAreSnapshots, StepsBetween DEF Snapshot
    <3>4. esc[n].pc = "own" => esc[n].cur \in Holds(n)
      BY DEF Holds
    <3>5. CopiesCarry(n, a)'
      BY <2>6, <3>1, <3>2, <3>3, <3>4 DEF CopiesCarry
    <3>6. QED
      BY <3>1, <3>5 DEF GivesUp
  <2>9. QED
    BY <2>5, <2>7, <2>8 DEF RunInv
<1>3. QED
  BY <1>1, <1>2

(* A step of the worker of one node that keeps alive what was. *)
LEMMA RunWorker ==
    ASSUME TypeOK, TypeOK', NEW a \in Alerts, RunInv(a), NEW n \in Nodes, NEW w,
           esc' = [esc EXCEPT ![n] = w], UNCHANGED <<engine, starts, handlers>>,
           \A from \in Nat : AliveFrom(a, from) => AliveFrom(a, from)',
           RowsCarry(a)', CopiesCarry(n, a)', ~GivesUp(n, a)'
    PROVE  RunInv(a)'
<1>1. starts'[a] > 0 => AliveFrom(a, 0)'
  BY DEF RunInv
<1>2. ASSUME NEW m \in Nodes, m # n PROVE CopiesCarry(m, a)' /\ ~GivesUp(m, a)'
  <2>1. CopiesCarry(m, a) /\ ~GivesUp(m, a)
    BY DEF RunInv
  <2>2. esc'[m] = esc[m]
    BY <1>2 DEF TypeOK
  <2>3. Holds(m)' = Holds(m)
    BY <2>2 DEF Holds
  <2>4. \A t \in Holds(m) : t.step + 1 \in Nat
    BY HeldAreSnapshots, StepsBetween DEF Snapshot
  <2>5. esc[m].pc = "own" => esc[m].cur \in Holds(m)
    BY DEF Holds
  <2>6. CopiesCarry(m, a)'
    BY <2>1, <2>2, <2>3, <2>4, <2>5 DEF CopiesCarry
  <2>7. QED
    BY <2>1, <2>2, <2>6 DEF GivesUp
<1>3. \A m \in Nodes : ~Stops(m, a)'
  BY DEF RunInv, Stops, handlers
<1>4. QED
  BY <1>1, <1>2, <1>3 DEF RunInv

(* The steps of a worker before it writes: the copies it holds are those it
   held or copies of rows, and nothing is armed. *)
LEMMA RunReads ==
    ASSUME TypeOK, TypeOK', NEW a \in Alerts, RunInv(a), NEW n \in Nodes, NEW w,
           esc' = [esc EXCEPT ![n] = w], UNCHANGED <<engine, starts, handlers, timers>>,
           PagesGrow,
           \A t \in Holds(n)' : t \in Holds(n) \/ t \in Due,
           esc'[n].pc = "own" => esc'[n].cur.repeats > 0 \/ esc'[n].cur.step + 1 \notin Steps,
           ~GivesUp(n, a)'
    PROVE  RunInv(a)'
<1>1. ASSUME NEW from \in Nat, AliveFrom(a, from) PROVE AliveFrom(a, from)'
  <2>1. \A v \in Steps : fired'[a][v] >= fired[a][v]
    BY DEF PagesGrow
  <2>2. QED
    BY <1>1, <2>1, AliveSame
<1>2. RowsCarry(a)'
  BY <1>1, StepsBetween DEF RunInv, RowsCarry, Pending
<1>3. ASSUME NEW t \in Holds(n)', t.alert = a, t.repeats > 0
      PROVE  AliveFrom(a, t.step + 1)'
  <2>1. CASE t \in Holds(n)
    <3>1. AliveFrom(a, t.step + 1)
      BY <1>3, <2>1 DEF RunInv, CopiesCarry
    <3>2. t.step + 1 \in Nat
      BY <2>1, HeldAreSnapshots, StepsBetween DEF Snapshot
    <3>3. QED
      BY <1>1, <3>1, <3>2
  <2>2. CASE t \in Due
    <3>1. PICK b \in Alerts, s \in Steps : Pending(b, s) /\ t = Copy(b, s)
      BY <2>2 DEF Due
    <3>2. b = a /\ t.step = s /\ timers[b][s].repeats > 0
      BY <1>3, <3>1 DEF Copy
    <3>3. AliveFrom(a, s + 1) /\ s + 1 \in Nat
      BY <3>1, <3>2, StepsBetween DEF RunInv, RowsCarry
    <3>4. QED
      BY <1>1, <3>2, <3>3
  <2>3. QED
    BY <2>1, <2>2
<1>4. ASSUME NEW t, t = esc'[n].cur, esc'[n].pc = "own", t.alert = a
      PROVE  AliveFrom(a, t.step + 1)'
  <2>1. t \in Holds(n)'
    BY <1>4 DEF Holds
  <2>2. CASE t.repeats > 0
    BY <1>3, <1>4, <2>1, <2>2
  <2>3. CASE t.step + 1 \notin Steps
    <3>1. esc'[n] \in IdleWorker \cup BusyWorker
      BY DEF TypeOK
    <3>2. t.step \in Steps
      BY <1>4, <3>1 DEF IdleWorker, BusyWorker, Snapshot
    <3>3. \A s \in Steps : ~(s >= t.step + 1)
      BY <2>3, <3>2, EscalationAssumption DEF Steps
    <3>4. QED
      BY <3>3 DEF AliveFrom
  <2>4. QED
    BY <1>4, <2>2, <2>3
<1>5. CopiesCarry(n, a)'
  BY <1>3, <1>4 DEF CopiesCarry
<1>6. QED
  BY <1>1, <1>2, <1>5, RunWorker

LEMMA PollRuns ==
    ASSUME TypeOK, TypeOK', NEW a \in Alerts, RunInv(a), NEW n \in Nodes, Poll(n)
    PROVE  RunInv(a)'
<1>1. esc' = [esc EXCEPT ![n] = [esc[n] EXCEPT !.due = Due]]
  BY DEF Poll, TypeOK
<1>2. esc'[n].due = Due /\ esc'[n].pc = "idle"
  BY <1>1, WorkerAt DEF Poll, TypeOK, IdleWorker, BusyWorker
<1>3. PagesGrow /\ UNCHANGED <<engine, starts, handlers, timers>>
  BY DEF Poll, history, PagesGrow, TypeOK
<1>4. \A t \in Holds(n)' : t \in Holds(n) \/ t \in Due
  BY <1>2 DEF Holds
<1>5. ~GivesUp(n, a)'
  BY <1>2 DEF GivesUp
<1>6. esc'[n].pc # "own"
  BY <1>2
<1>7. QED
  BY <1>1, <1>3, <1>4, <1>5, <1>6, RunReads

(* The alert that was read was open: the firing does not give it up. *)
LEMMA ReadRuns ==
    ASSUME IInv, TypeOK, TypeOK', NEW a \in Alerts, Running(a), RunInv(a),
           NEW n \in Nodes, NEW t \in esc[n].due, FireRead(n, t)
    PROVE  RunInv(a)'
<1> DEFINE w == [pc |-> IF Sends(t) THEN "notify" ELSE "done",
                 due |-> esc[n].due \ {t}, cur |-> t, acked |-> Acked(t.alert)]
<1>1. esc' = [esc EXCEPT ![n] = w] /\ esc'[n] = w
  BY DEF FireRead, TypeOK
<1>2. Holds(n)' \subseteq Holds(n)
  BY <1>1 DEF Holds
<1>3. PagesGrow /\ UNCHANGED <<engine, starts, handlers, timers>>
  BY DEF FireRead, history, PagesGrow, TypeOK
<1>4. t \in Holds(n)
  BY DEF Holds
<1>5. t.alert = a => Open(a)
  BY <1>4 DEF IInv, CopiesInv, Running, Open
<1>6. ~GivesUp(n, a)'
  <2>1. t.alert = a => Sends(t) /\ ~Acked(t.alert)
    BY <1>5 DEF Sends, Active, Open, Acked
  <2>2. esc'[n].cur = t /\ (esc'[n].acked <=> Acked(t.alert))
    BY <1>1
  <2>3. Sends(t) => esc'[n].pc = "notify"
    BY <1>1
  <2>4. QED
    BY <2>1, <2>2, <2>3 DEF GivesUp
<1>7. esc'[n].pc # "own"
  BY <1>1
<1> HIDE DEF w
<1>8. QED
  BY <1>1, <1>2, <1>3, <1>6, <1>7, RunReads

LEMMA NotifyRuns ==
    ASSUME TypeOK, TypeOK', NEW a \in Alerts, RunInv(a), NEW n \in Nodes, Notify(n)
    PROVE  RunInv(a)'
<1> DEFINE t == esc[n].cur
           pc == IF esc[n].acked THEN "done" ELSE IF ArmsNext(t) THEN "next" ELSE "own"
<1>1. PagesGrow /\ t \in Snapshot /\ UNCHANGED <<engine, starts, handlers, timers>>
  BY NotifyPages DEF Notify
<1>2. esc[n].pc = "notify" /\ esc' = [esc EXCEPT ![n] = [esc[n] EXCEPT !.pc = pc]]
  BY DEF Notify, TypeOK
<1>3. esc'[n] = [esc[n] EXCEPT !.pc = pc]
  BY <1>2 DEF TypeOK
<1>4. /\ esc'[n].pc = pc /\ esc'[n].due = esc[n].due /\ esc'[n].cur = t
      /\ esc'[n].acked = esc[n].acked
  <2>1. esc[n] \in BusyWorker
    BY <1>2, WorkerAt DEF IdleWorker
  <2> HIDE DEF pc
  <2>2. QED
    BY <1>3, <2>1 DEF BusyWorker
<1>5. Holds(n)' \subseteq Holds(n)
  BY <1>2, <1>4 DEF Holds
<1>6. esc'[n].pc = "own" => esc'[n].cur.repeats > 0 \/ esc'[n].cur.step + 1 \notin Steps
  BY <1>1, <1>4 DEF ArmsNext, Snapshot
<1>7. ~GivesUp(n, a)'
  <2>1. ~GivesUp(n, a)
    BY DEF RunInv
  <2>2. t.alert = a => ~esc[n].acked
    BY <1>2, <2>1 DEF GivesUp
  <2>3. QED
    BY <1>4, <2>2 DEF GivesUp
<1> HIDE DEF pc
<1>8. QED
  BY <1>1, <1>2, <1>5, <1>6, <1>7, RunReads

LEMMA ArmRuns ==
    ASSUME IInv, TypeOK, TypeOK', NEW a \in Alerts, Running(a)', RunInv(a),
           NEW n \in Nodes, ArmNext(n)
    PROVE  RunInv(a)'
<1>1. PICK t : t = esc[n].cur
  OBVIOUS
<1>2. esc[n].pc = "next" /\ t \in Snapshot /\ t \in Holds(n)
  BY <1>1, WorkerAt DEF ArmNext, Holds
<1>3. t.alert \in Alerts /\ t.step \in Steps /\ t.step + 1 \in Steps
  BY <1>1, <1>2 DEF Snapshot, IInv, CopiesInv
<1>4. esc' = [esc EXCEPT ![n] = [esc[n] EXCEPT !.pc = "own"]]
  BY DEF ArmNext, TypeOK
<1>5. esc'[n] = [esc[n] EXCEPT !.pc = "own"]
  BY <1>4 DEF TypeOK
<1>6. /\ esc'[n].pc = "own" /\ esc'[n].due = esc[n].due /\ esc'[n].cur = t
      /\ esc'[n].acked = esc[n].acked
  BY <1>1, <1>5, WorkerAt DEF IdleWorker, BusyWorker
<1>7. Holds(n)' = Holds(n)
  BY <1>1, <1>2, <1>6 DEF Holds
<1>8. UNCHANGED <<engine, starts, handlers, fired>> /\ \A v \in Steps : fired'[a][v] >= fired[a][v]
  BY DEF ArmNext, history, TypeOK
<1>9. PICK at : timers' = [timers EXCEPT ![t.alert][t.step + 1] = Row(0, at)]
  <2>1. faults' = 0
    BY DEF Running
  <2>2. ~Fault
    BY <2>1 DEF Fault, TypeOK
  <2>3. QED
    BY <1>1, <2>2 DEF ArmNext
<1>10. ASSUME t.alert # a
       PROVE  /\ \A from \in Nat : AliveFrom(a, from) => AliveFrom(a, from)'
              /\ timers'[a] = timers[a]
  <2>1. timers'[a] = timers[a]
    BY <1>3, <1>9, <1>10 DEF TypeOK
  <2>2. QED
    BY <1>8, <2>1, AliveSame
<1>11. ASSUME t.alert = a
       PROVE  /\ \A from \in Nat : AliveFrom(a, from) => AliveFrom(a, from)'
              /\ AliveFrom(a, t.step + 1)'
              /\ \A u \in Steps : timers'[a][u] = timers[a][u] \/ timers'[a][u].repeats = 0
  <2>1. timers'[a] = [timers[a] EXCEPT ![t.step + 1] = Row(0, at)]
    BY <1>3, <1>9, <1>11 DEF TypeOK
  <2>2. /\ AliveFrom(a, t.step + 1)'
        /\ \A from \in Nat : AliveFrom(a, from) => AliveFrom(a, from)'
    BY <1>3, <1>8, <2>1, AliveArmed
  <2>3. Row(0, at).repeats = 0
    BY DEF Row
  <2>4. \A u \in Steps : timers'[a][u] = timers[a][u] \/ timers'[a][u].repeats = 0
    BY <1>3, <2>1, <2>3 DEF TypeOK
  <2>5. QED
    BY <2>2, <2>4
<1>12. \A from \in Nat : AliveFrom(a, from) => AliveFrom(a, from)'
  BY <1>10, <1>11
<1>13. \A u \in Steps : timers'[a][u] = timers[a][u] \/ timers'[a][u].repeats = 0
  BY <1>10, <1>11
<1>14. RowsCarry(a)'
  BY <1>12, <1>13, StepsBetween DEF RunInv, RowsCarry, Pending
<1>15. CopiesCarry(n, a)'
  <2>1. \A u \in Holds(n) : u.step + 1 \in Nat
    BY HeldAreSnapshots, StepsBetween DEF Snapshot
  <2>2. \A u \in Holds(n) : u.alert = a /\ u.repeats > 0 => AliveFrom(a, u.step + 1)'
    BY <1>12, <2>1 DEF RunInv, CopiesCarry
  <2>3. QED
    BY <1>6, <1>7, <1>11, <2>2 DEF CopiesCarry
<1>16. ~GivesUp(n, a)'
  <2>1. ~GivesUp(n, a)
    BY DEF RunInv
  <2>2. QED
    BY <1>1, <1>2, <1>6, <2>1 DEF GivesUp
<1>17. QED
  BY <1>4, <1>8, <1>12, <1>14, <1>15, <1>16, RunWorker

(* The write of its row: the step behind it is armed, and if it is done it was
   sent as planned. *)
LEMMA OwnRuns ==
    ASSUME CountInv, TypeOK, TypeOK', NEW a \in Alerts, RunInv(a),
           NEW n \in Nodes, Repeat(n) \/ MarkDone(n)
    PROVE  RunInv(a)'
<1>1. PICK t : t = esc[n].cur
  OBVIOUS
<1>2. t \in Snapshot /\ t \in Holds(n) /\ esc[n].pc \in {"own", "done"}
  BY <1>1, WorkerAt DEF Repeat, MarkDone, Holds
<1>3. t.alert \in Alerts /\ t.step \in Steps /\ t.repeats \in Nat
  BY <1>2 DEF Snapshot
<1>4. esc' = [esc EXCEPT ![n] = [EscIdle EXCEPT !.due = esc[n].due]]
  BY DEF Repeat, MarkDone, NextTimer
<1>5. esc'[n].pc = "idle" /\ esc'[n].due = esc[n].due
  BY <1>4 DEF TypeOK, EscIdle
<1>6. Holds(n)' \subseteq Holds(n)
  BY <1>5 DEF Holds
<1>7. UNCHANGED <<engine, starts, handlers, fired>> /\ \A v \in Steps : fired'[a][v] >= fired[a][v]
  BY DEF Repeat, MarkDone, history, TypeOK
<1>8. PICK row : /\ timers' = [timers EXCEPT ![t.alert][t.step] = row]
                 /\ ~row.done \/ (row.done /\ (esc[n].pc = "own" => ~Repeats(t)))
  <2>1. CASE Repeat(n)
    <3>1. ~Row(t.repeats + 1, now + Policy[t.step].repeatEvery).done
      BY DEF Row
    <3>2. QED
      BY <1>1, <2>1, <3>1 DEF Repeat
  <2>2. CASE MarkDone(n)
    <3>1. DoneRow.done
      BY DEF DoneRow
    <3>2. esc[n].pc = "own" => ~Repeats(t)
      BY <1>1, <2>2 DEF MarkDone
    <3>3. QED
      BY <1>1, <2>2, <3>1, <3>2 DEF MarkDone
  <2>3. QED
    BY <2>1, <2>2
<1>9. ASSUME t.alert # a
      PROVE  /\ \A from \in Nat : AliveFrom(a, from) => AliveFrom(a, from)'
             /\ RowsCarry(a)'
  <2>1. timers'[a] = timers[a]
    BY <1>3, <1>8, <1>9 DEF TypeOK
  <2>2. \A from \in Nat : AliveFrom(a, from) => AliveFrom(a, from)'
    BY <1>7, <2>1, AliveSame
  <2>3. RowsCarry(a)'
    BY <2>1, <2>2, StepsBetween DEF RunInv, RowsCarry, Pending
  <2>4. QED
    BY <2>2, <2>3
<1>10. ASSUME t.alert = a
       PROVE  /\ \A from \in Nat : AliveFrom(a, from) => AliveFrom(a, from)'
              /\ RowsCarry(a)'
  <2>1. esc[n].pc = "own"
    BY <1>1, <1>2, <1>10 DEF RunInv, GivesUp
  <2>2. AliveFrom(a, t.step + 1) /\ t.step + 1 \in Nat
    BY <1>1, <1>3, <1>10, <2>1, StepsBetween DEF RunInv, CopiesCarry
  <2>3. ~row.done \/ fired[a][t.step] >= Total(t.step)
    <3> SUFFICES ASSUME ~Repeats(t) PROVE fired[a][t.step] >= Total(t.step)
      BY <1>8, <2>1
    <3>1. t.repeats < fired[a][t.step]
      BY <1>1, <1>10, <2>1 DEF CountInv, CountedCopies
    <3>2. fired[a][t.step] \in Nat
      BY <1>3 DEF TypeOK
    <3>3. QED
      BY <1>3, <3>1, <3>2, StepFields DEF Repeats, Total
  <2>4. timers'[a] = [timers[a] EXCEPT ![t.step] = row]
    BY <1>3, <1>8, <1>10 DEF TypeOK
  <2>5. \A from \in Nat : AliveFrom(a, from) => AliveFrom(a, from)'
    BY <1>3, <1>7, <2>2, <2>3, <2>4, AliveOwn
  <2>6. ASSUME NEW u \in Steps, Pending(a, u)', timers'[a][u].repeats > 0
        PROVE  AliveFrom(a, u + 1)'
    <3>1. CASE u = t.step
      BY <3>1, <2>2, <2>5
    <3>2. CASE u # t.step
      <4>1. timers'[a][u] = timers[a][u]
        BY <1>3, <2>4, <3>2 DEF TypeOK
      <4>2. AliveFrom(a, u + 1) /\ u + 1 \in Nat
        BY <2>6, <4>1, StepsBetween DEF RunInv, RowsCarry, Pending
      <4>3. QED
        BY <2>5, <4>2
    <3>3. QED
      BY <3>1, <3>2
  <2>7. QED
    BY <2>5, <2>6 DEF RowsCarry
<1>11. \A from \in Nat : AliveFrom(a, from) => AliveFrom(a, from)'
  BY <1>9, <1>10
<1>12. CopiesCarry(n, a)'
  <2>1. \A u \in Holds(n) : u.step + 1 \in Nat
    BY HeldAreSnapshots, StepsBetween DEF Snapshot
  <2>2. \A u \in Holds(n) : u.alert = a /\ u.repeats > 0 => AliveFrom(a, u.step + 1)'
    BY <1>11, <2>1 DEF RunInv, CopiesCarry
  <2>3. QED
    BY <1>5, <1>6, <2>2 DEF CopiesCarry
<1>13. ~GivesUp(n, a)'
  BY <1>5 DEF GivesUp
<1>14. RowsCarry(a)'
  BY <1>9, <1>10
<1>15. QED
  BY <1>4, <1>7, <1>11, <1>12, <1>13, <1>14, RunWorker

(* What a step does to the failures, the snoozes and the alert rows. *)
LEMMA StepShape ==
    ASSUME [Next]_vars
    PROVE  /\ faults' = faults \/ Fault
           /\ UNCHANGED snoozes \/ \E n \in Nodes, b \in Alerts : Snooze(n, b)
           /\ \/ UNCHANGED alerts
              \/ \E n \in Nodes, b \in Alerts :
                    \/ Raise(n, b) \/ RuleOpens(n, b) \/ Ack(n, b) \/ Snooze(n, b) \/ Resolve(n, b)
                    \/ RuleResolves(n, b) \/ Expire(n, b) \/ WakeFlips(n, b)
<1> DEFINE Shape ==
             /\ faults' = faults \/ Fault
             /\ UNCHANGED snoozes \/ \E n \in Nodes, b \in Alerts : Snooze(n, b)
             /\ \/ UNCHANGED alerts
                \/ \E n \in Nodes, b \in Alerts :
                      \/ Raise(n, b) \/ RuleOpens(n, b) \/ Ack(n, b) \/ Snooze(n, b) \/ Resolve(n, b)
                      \/ RuleResolves(n, b) \/ Expire(n, b) \/ WakeFlips(n, b)
<1>1. CASE UNCHANGED vars \/ Tick \/ \E n \in Nodes : WakeSelects(n)
  BY <1>1 DEF vars, history, failures, Tick, WakeSelects
<1>2. ASSUME NEW n \in Nodes, Crash(n) \/ Poll(n) \/ Notify(n) \/ ArmNext(n)
      PROVE  Shape
  BY <1>2 DEF Crash, Poll, Notify, Enqueue, ArmNext, history, failures
<1>3. ASSUME NEW n \in Nodes, Repeat(n) \/ MarkDone(n) \/ OwnWriteFails(n)
      PROVE  Shape
  BY <1>3 DEF Repeat, MarkDone, OwnWriteFails, history, failures
<1>4. ASSUME NEW n \in Nodes, NEW t \in esc[n].due,
             FireRead(n, t) \/ FireReadFails(n, t) \/ PolicyReadFails(n, t)
      PROVE  Shape
  BY <1>4 DEF FireRead, FireReadFails, PolicyReadFails, history, failures
<1>5. ASSUME NEW n \in Nodes, NEW b \in Alerts,
             Handler(n, b) \/ Gate(n, b) \/ EngineStarts(n, b) \/ EngineStops(n, b)
             \/ WakeStarts(n, b) \/ ReEvaluate(n, b)
      PROVE  Shape
  BY <1>5 DEF Handler, HandlerStarts, HandlerStops, Gate, EngineStarts, EngineStops, WakeStarts,
     ReEvaluate, history, failures
<1>6. ASSUME NEW n \in Nodes, NEW b \in Alerts,
             \/ Raise(n, b) \/ RuleOpens(n, b) \/ Ack(n, b) \/ Resolve(n, b)
             \/ RuleResolves(n, b) \/ Expire(n, b) \/ WakeFlips(n, b)
      PROVE  Shape
  <2>1. faults' = faults \/ Fault
    BY <1>6 DEF Raise, RuleOpens, Ack, Resolve, RuleResolves, Expire, WakeFlips, failures
  <2>2. UNCHANGED snoozes
    BY <1>6 DEF Raise, RuleOpens, Ack, Resolve, RuleResolves, Expire, WakeFlips, history
  <2>3. QED
    BY <1>6, <2>1, <2>2
<1>7. ASSUME NEW n \in Nodes, NEW b \in Alerts, Snooze(n, b)
      PROVE  Shape
  <2>1. faults' = faults
    BY <1>7 DEF Snooze, failures
  <2>2. QED
    BY <1>7, <2>1
<1>8. CASE Next
  <2> HIDE DEF Shape
  <2>1. ASSUME NEW n \in Nodes, Poll(n) \/ Fire(n) \/ Fails(n) \/ Crash(n) PROVE Shape
    BY <1>2, <1>3, <1>4, <2>1 DEF Fire, Fails
  <2>2. ASSUME NEW n \in Nodes, Input(n) PROVE Shape
    BY <1>6, <1>7, <2>2 DEF Input
  <2>3. ASSUME NEW n \in Nodes, NEW b \in Alerts,
               Handler(n, b) \/ EngineWorks(n, b) \/ ReEvaluate(n, b) \/ Expire(n, b)
        PROVE  Shape
    BY <1>5, <1>6, <2>3 DEF EngineWorks
  <2>4. CASE Tick \/ \E n \in Nodes : WakeSelects(n)
    BY <1>1, <2>4 DEF Shape
  <2>5. QED
    <3>1. Shape
      BY <1>8, <2>1, <2>2, <2>3, <2>4 DEF Next, Shape
    <3>2. QED
      BY <3>1 DEF Shape
<1>9. QED
  BY <1>1, <1>8

(* An alert that was not disturbed after a step was not before it: nobody wakes
   an alert that was never snoozed. *)
LEMMA WasRunning ==
    ASSUME RaceInv, TypeOK, TypeOK', [Next]_vars, NEW a \in Alerts, Running(a)'
    PROVE  Running(a)
<1>1. faults \in Nat /\ faults' \in Nat /\ snoozes[a] \in Nat /\ snoozes'[a] \in Nat
  BY DEF TypeOK
<1>2. FewWakes(a) /\ wakes[a] \in Nat
  BY DEF RaceInv, TypeOK
<1>3. faults' = faults \/ Fault
  BY StepShape
<1>4. faults = 0
  BY <1>1, <1>3 DEF Running, Fault
<1>5. UNCHANGED snoozes \/ \E n \in Nodes, b \in Alerts : Snooze(n, b)
  BY StepShape
<1>6. snoozes[a] = 0
  <2>1. snoozes'[a] = 0
    BY DEF Running
  <2>2. CASE UNCHANGED snoozes
    BY <2>1, <2>2
  <2>3. ASSUME NEW n \in Nodes, NEW b \in Alerts, Snooze(n, b) PROVE snoozes[a] = 0
    BY <1>1, <2>1, <2>3 DEF Snooze, TypeOK
  <2>4. QED
    BY <1>5, <2>2, <2>3
<1>7. ~Flippable(a)
  BY <1>2, <1>6 DEF FewWakes
<1>8. ASSUME alerts[a].status \notin {"none", "open"}
      PROVE  alerts'[a].status \notin {"none", "open"}
  <2>1. ASSUME NEW n \in Nodes, NEW b \in Alerts, Raise(n, b) \/ RuleOpens(n, b)
        PROVE  alerts'[a].status \notin {"none", "open"}
    <3>1. b # a /\ Insert(b)
      BY <1>8, <2>1 DEF Raise, RuleOpens, Insert
    <3>2. QED
      BY <1>8, <3>1 DEF Insert, TypeOK
  <2>2. ASSUME NEW b \in Alerts, NEW status, NEW until, SetStatus(b, status, until),
               b # a \/ status \notin {"none", "open"}
        PROVE  alerts'[a].status \notin {"none", "open"}
    BY <1>8, <2>2 DEF SetStatus, TypeOK
  <2>3. ASSUME NEW n \in Nodes, NEW b \in Alerts,
               Ack(n, b) \/ Snooze(n, b) \/ Resolve(n, b) \/ RuleResolves(n, b)
        PROVE  alerts'[a].status \notin {"none", "open"}
    BY <2>2, <2>3 DEF Ack, Snooze, Resolve, RuleResolves
  <2>4. ASSUME NEW n \in Nodes, NEW b \in Alerts, Expire(n, b)
        PROVE  alerts'[a].status \notin {"none", "open"}
    BY <1>8, <2>4 DEF Expire, TypeOK
  <2>5. ASSUME NEW n \in Nodes, NEW b \in Alerts, WakeFlips(n, b)
        PROVE  alerts'[a].status \notin {"none", "open"}
    BY <1>7, <1>8, <2>2, <2>5 DEF WakeFlips
  <2>6. CASE UNCHANGED alerts
    BY <1>8, <2>6
  <2>7. QED
    BY <2>1, <2>3, <2>4, <2>5, <2>6, StepShape
<1>9. QED
  BY <1>4, <1>6, <1>8 DEF Running

LEMMA HandlerRuns ==
    ASSUME TypeOK, TypeOK', NEW a \in Alerts, Running(a), Running(a)', RunInv(a),
           NEW n \in Nodes, NEW b \in Alerts,
           \/ Raise(n, b) \/ Ack(n, b) \/ Snooze(n, b) \/ Resolve(n, b) \/ Handler(n, b)
    PROVE  RunInv(a)'
<1>1. \A m \in Nodes : stopping[m][a] = 0 /\ engine[m] # Busy("stop", a)
  BY DEF RunInv, Stops, TypeOK
<1>2. ~Fault
  BY DEF Running, Fault, TypeOK
<1>3. UNCHANGED <<engine, esc, fired>>
  BY DEF Raise, Ack, Snooze, Resolve, Handler, HandlerStarts, HandlerStops, history
<1>4. CASE Raise(n, b)
  <2>1. UNCHANGED <<timers, starts, stopping>>
    BY <1>4 DEF Raise, history
  <2>2. QED
    BY <1>1, <1>3, <2>1, RunOthers DEF Stops
<1>5. CASE Ack(n, b) \/ Snooze(n, b) \/ Resolve(n, b)
  <2>1. WillStop(n, b) /\ UNCHANGED <<timers, starts>>
    BY <1>5 DEF Ack, Snooze, Resolve, history
  <2>2. PICK status \in {"acked", "resolved"} : \E until : SetStatus(b, status, until)
    BY <1>5 DEF Ack, Snooze, Resolve
  <2>3. b # a
    BY <2>2 DEF Running, SetStatus, TypeOK
  <2>4. \A m \in Nodes : stopping'[m][a] = stopping[m][a]
    BY <2>1, <2>3 DEF WillStop, TypeOK
  <2>5. \A m \in Nodes : ~Stops(m, a)'
    BY <1>1, <1>3, <2>4 DEF Stops
  <2>6. QED
    BY <1>3, <2>1, <2>5, RunOthers
<1>6. CASE HandlerStarts(n, b)
  <2>1. StartChain(b, alerts[b].openedAt) /\ UNCHANGED stopping /\ alerts[b].openedAt \in Nat
    BY <1>2, <1>6 DEF HandlerStarts, TypeOK
  <2>2. \A m \in Nodes : ~Stops(m, a)'
    BY <1>1, <1>3, <2>1 DEF Stops
  <2>3. CASE b = a
    BY <1>3, <2>1, <2>2, <2>3, RunStarts
  <2>4. CASE b # a
    <3>1. timers'[a] = timers[a] /\ starts'[a] = starts[a]
      BY <2>1, <2>4 DEF StartChain, TypeOK
    <3>2. QED
      BY <1>3, <2>2, <3>1, RunOthers
  <2>5. QED
    BY <2>3, <2>4
<1>7. CASE HandlerStops(n, b)
  <2>1. b # a
    BY <1>1, <1>7 DEF HandlerStops
  <2>2. timers'[a] = timers[a] /\ UNCHANGED starts
    BY <1>7, <2>1 DEF HandlerStops, CancelEscalations, TypeOK, history
  <2>3. \A m \in Nodes : stopping'[m][a] = stopping[m][a]
    BY <1>7, <2>1 DEF HandlerStops, TypeOK
  <2>4. \A m \in Nodes : ~Stops(m, a)'
    BY <1>1, <1>3, <2>3 DEF Stops
  <2>5. QED
    BY <1>3, <2>2, <2>4, RunOthers
<1>8. QED
  BY <1>4, <1>5, <1>6, <1>7 DEF Handler

LEMMA BusyFields ==
    /\ EngineIdle.pc = "idle"
    /\ \A pc, c : Busy(pc, c).pc = pc /\ Busy(pc, c).work = {c}
BY DEF EngineIdle, Busy

LEMMA EngineRuns ==
    ASSUME TypeOK, TypeOK', NEW a \in Alerts, Running(a), Running(a)', RunInv(a),
           NEW n \in Nodes, NEW b \in Alerts,
           \/ RuleOpens(n, b) \/ RuleResolves(n, b) \/ EngineWorks(n, b)
           \/ ReEvaluate(n, b) \/ Expire(n, b) \/ WakeSelects(n)
    PROVE  RunInv(a)'
<1>1. \A m \in Nodes : stopping[m][a] = 0 /\ engine[m] # Busy("stop", a)
  BY DEF RunInv, Stops, TypeOK
<1>2. ~Fault
  BY DEF Running, Fault, TypeOK
<1>3. UNCHANGED <<esc, fired, stopping>>
  BY DEF RuleOpens, RuleResolves, EngineWorks, ReEvaluate, Expire, WakeSelects, Gate, EngineStarts,
     EngineStops, WakeFlips, WakeStarts, history, handlers
<1>4. ASSUME NEW e, engine' = [engine EXCEPT ![n] = e], e # Busy("stop", a)
      PROVE  \A m \in Nodes : ~Stops(m, a)'
  BY <1>1, <1>3, <1>4 DEF Stops, TypeOK, Busy, EngineIdle
<1>5. /\ EngineIdle # Busy("stop", a)
      /\ \A pc, c : pc # "stop" \/ c # a => Busy(pc, c) # Busy("stop", a)
      /\ Busy("stop", a).pc = "stop"
  <2>1. EngineIdle # Busy("stop", a) /\ Busy("stop", a).pc = "stop"
    BY BusyFields
  <2>2. ASSUME NEW pc, NEW c, pc # "stop" \/ c # a PROVE Busy(pc, c) # Busy("stop", a)
    <3>1. Busy(pc, c).pc = pc /\ Busy(pc, c).work = {c}
      BY BusyFields
    <3>2. Busy("stop", a).pc = "stop" /\ Busy("stop", a).work = {a}
      BY BusyFields
    <3>3. {c} = {a} => c = a
      OBVIOUS
    <3>4. QED
      BY <2>2, <3>1, <3>2, <3>3
  <2>3. QED
    BY <2>1, <2>2
<1>6. CASE RuleOpens(n, b) \/ ReEvaluate(n, b) \/ Gate(n, b) \/ Expire(n, b) \/ WakeSelects(n)
  <2>1. UNCHANGED <<timers, starts>>
    BY <1>6 DEF RuleOpens, ReEvaluate, Gate, Expire, WakeSelects, history
  <2>2. \A m \in Nodes : ~Stops(m, a)'
    <3>1. CASE RuleOpens(n, b)
      BY <1>4, <1>5, <3>1 DEF RuleOpens
    <3>2. CASE ReEvaluate(n, b) \/ Expire(n, b)
      <4>1. CASE UNCHANGED engine
        BY <1>1, <1>3, <4>1 DEF Stops
      <4>2. QED
        BY <1>4, <1>5, <3>2, <4>1 DEF ReEvaluate, Expire
    <3>3. CASE Gate(n, b)
      BY <1>4, <1>5, <3>3 DEF Gate
    <3>4. CASE WakeSelects(n)
      <4> DEFINE e == [pc |-> "flip", work |-> {c \in Alerts : Expired(c)}, woken |-> {}, at |-> now]
      <4>1. e # Busy("stop", a)
        BY <1>5
      <4>2. engine' = [engine EXCEPT ![n] = e]
        BY <3>4 DEF WakeSelects
      <4> HIDE DEF e
      <4>3. QED
        BY <1>4, <4>1, <4>2
    <3>5. QED
      BY <1>6, <3>1, <3>2, <3>3, <3>4
  <2>3. QED
    BY <1>3, <2>1, <2>2, RunOthers
<1>7. CASE EngineStarts(n, b) \/ WakeStarts(n, b)
  <2>1. PICK from \in Nat : StartChain(b, from)
    BY <1>2, <1>7 DEF EngineStarts, WakeStarts, TypeOK
  <2>2. \A m \in Nodes : ~Stops(m, a)'
    <3>1. CASE EngineStarts(n, b)
      BY <1>4, <1>5, <3>1 DEF EngineStarts
    <3>2. CASE WakeStarts(n, b)
      <4>1. AfterStart(engine[n], b) # Busy("stop", a)
        BY <1>5, <3>2 DEF WakeStarts, AfterStart, TypeOK
      <4>2. engine' = [engine EXCEPT ![n] = AfterStart(engine[n], b)]
        BY <3>2 DEF WakeStarts, TypeOK
      <4>3. QED
        BY <1>4, <4>1, <4>2
    <3>3. QED
      BY <1>7, <3>1, <3>2
  <2>3. CASE b = a
    BY <1>3, <2>1, <2>2, <2>3, RunStarts
  <2>4. CASE b # a
    <3>1. timers'[a] = timers[a] /\ starts'[a] = starts[a]
      BY <2>1, <2>4 DEF StartChain, TypeOK
    <3>2. QED
      BY <1>3, <2>2, <3>1, RunOthers
  <2>5. QED
    BY <2>3, <2>4
<1>8. CASE RuleResolves(n, b)
  <2>1. b # a
    BY <1>8 DEF RuleResolves, SetStatus, Running, TypeOK
  <2>2. \A m \in Nodes : ~Stops(m, a)'
    BY <1>4, <1>5, <1>8, <2>1 DEF RuleResolves
  <2>3. UNCHANGED <<timers, starts>>
    BY <1>8 DEF RuleResolves, history
  <2>4. QED
    BY <1>3, <2>2, <2>3, RunOthers
<1>9. CASE EngineStops(n, b)
  <2>1. b # a
    BY <1>1, <1>9 DEF EngineStops
  <2>2. timers'[a] = timers[a] /\ UNCHANGED starts
    BY <1>9, <2>1 DEF EngineStops, CancelEscalations, TypeOK, history
  <2>3. \A m \in Nodes : ~Stops(m, a)'
    BY <1>4, <1>5, <1>9 DEF EngineStops
  <2>4. QED
    BY <1>3, <2>2, <2>3, RunOthers
<1>10. CASE WakeFlips(n, b)
  <2>1. UNCHANGED <<timers, starts>>
    BY <1>10 DEF WakeFlips
  <2>2. PICK flipped \in BOOLEAN : engine' = [engine EXCEPT ![n] = AfterFlip(engine[n], b, flipped)]
    BY <1>10 DEF WakeFlips, TypeOK
  <2>3. AfterFlip(engine[n], b, flipped).pc # "stop"
    BY DEF AfterFlip, EngineIdle, TypeOK
  <2>4. \A m \in Nodes : ~Stops(m, a)'
    BY <1>4, <1>5, <2>2, <2>3
  <2>5. QED
    BY <1>3, <2>1, <2>4, RunOthers
<1>11. QED
  BY <1>6, <1>7, <1>8, <1>9, <1>10 DEF EngineWorks

LEMMA StepAlive ==
    ASSUME IInv, RaceInv, CountInv, AliveInv, TypeOK, TypeOK', [Next]_vars
    PROVE  AliveInv'
<1> SUFFICES ASSUME NEW a \in Alerts, Running(a)' PROVE RunInv(a)'
  BY DEF AliveInv
<1>1. Running(a)
  BY WasRunning
<1>2. RunInv(a)
  BY <1>1 DEF AliveInv
<1>3. ~Fault
  BY <1>1, <1>2 DEF Running, Fault, TypeOK
<1>4. ASSUME NEW n \in Nodes, Crash(n) PROVE RunInv(a)'
  <2>1. /\ UNCHANGED <<timers, fired, starts>>
        /\ esc' = [esc EXCEPT ![n] = EscIdle]
        /\ engine' = [engine EXCEPT ![n] = EngineIdle]
        /\ stopping' = [stopping EXCEPT ![n] = [b \in Alerts |-> 0]]
    BY <1>4 DEF Crash, history
  <2>2. \A m \in Nodes : esc'[m] = esc[m] \/ esc'[m] = EscIdle
    BY <2>1 DEF TypeOK
  <2>3. EngineIdle # Busy("stop", a)
    BY DEF EngineIdle, Busy
  <2>4. \A m \in Nodes : ~Stops(m, a)'
    BY <1>2, <2>1, <2>3 DEF RunInv, Stops, TypeOK
  <2>5. QED
    BY <1>2, <2>1, <2>2, <2>4, RunOthers
<1>5. CASE UNCHANGED vars \/ Tick
  <2>1. UNCHANGED <<timers, fired, starts, esc, engine, stopping>>
    BY <1>5 DEF vars, history, handlers, Tick
  <2>2. \A m \in Nodes : ~Stops(m, a)'
    BY <1>2, <2>1 DEF RunInv, Stops
  <2>3. QED
    BY <1>2, <2>1, <2>2, RunOthers
<1>6. ASSUME NEW n \in Nodes, Fire(n) PROVE RunInv(a)'
  BY <1>1, <1>2, <1>6, ReadRuns, NotifyRuns, ArmRuns, OwnRuns DEF Fire
<1>7. ASSUME NEW n \in Nodes, Fails(n) PROVE FALSE
  BY <1>3, <1>7 DEF Fails, FireReadFails, PolicyReadFails, OwnWriteFails
<1>8. CASE Next
  BY <1>1, <1>2, <1>4, <1>5, <1>6, <1>7, <1>8, PollRuns, HandlerRuns, EngineRuns
  DEF Next, Input
<1>9. QED
  BY <1>5, <1>8

LEMMA InitAlive == Init => CountInv /\ AliveInv
<1> SUFFICES ASSUME Init PROVE CountInv /\ AliveInv
  OBVIOUS
<1>1. \A n \in Nodes : esc[n].pc = "idle" /\ esc[n].due = {} /\ Holds(n) = {}
  BY DEF Init, EscIdle, Holds
<1>2. \A a \in Alerts, s \in Steps : ~Pending(a, s)
  BY DEF Init, Pending, DoneRow
<1>3. \A n \in Nodes, a \in Alerts : ~Stops(n, a)
  <2>1. \A a \in Alerts : EngineIdle # Busy("stop", a)
    BY BusyFields
  <2>2. QED
    BY <2>1 DEF Init, Stops
<1>4. \A a \in Alerts : starts[a] = 0
  BY DEF Init
<1>5. CountInv
  BY <1>1, <1>2 DEF CountInv, CountedRow, CountedCopies
<1>6. AliveInv
  BY <1>1, <1>2, <1>3, <1>4 DEF AliveInv, RunInv, RowsCarry, CopiesCarry, GivesUp
<1>7. QED
  BY <1>5, <1>6

(* The chain of an open alert that was never snoozed does not get lost, however
   many nodes fire its timers, crash between a page and the write of its row and
   fire again, with whatever steps and repeats: a step not sent as often as the
   policy says is pending, or an earlier one that will arm it is. *)
THEOREM ChainSurvives == Spec => []ChainAlive
<1>1. Init => TypeOK /\ IInv /\ RaceInv /\ CountInv /\ AliveInv
  BY InitTypes, InitInv, InitRaces, InitAlive
<1>2. /\ TypeOK /\ IInv /\ RaceInv /\ CountInv /\ AliveInv
      /\ [Next]_vars
      => (TypeOK /\ IInv /\ RaceInv /\ CountInv /\ AliveInv)'
  BY StepTypes, StepInv, StepRaces, StepCount, StepAlive
<1>3. TypeOK /\ AliveInv => ChainAlive
  <2> SUFFICES ASSUME TypeOK, AliveInv, NEW a \in Alerts, NEW s \in Steps,
                      Open(a), snoozes[a] = 0, faults = 0, starts[a] > 0, fired[a][s] < Total(s)
               PROVE  \/ Pending(a, s)
                      \/ \E u \in 0..(s - 1) : Pending(a, u) /\ timers[a][u].repeats = 0
    BY DEF ChainAlive
  <2>1. AliveFrom(a, 0)
    BY DEF AliveInv, Running, RunInv, Open
  <2>2. Alive(a, 0, s)
    BY <2>1, StepsBetween DEF AliveFrom
  <2>3. ~(fired[a][s] >= Total(s))
    BY TotalNat DEF TypeOK
  <2>4. QED
    BY <2>2, <2>3 DEF Alive
<1>4. QED
  BY <1>1, <1>2, <1>3, PTL DEF Spec

-----------------------------------------------------------------------------
(* An open alert has a chain, or somebody holds it in memory: a handler, the gate
   and the start of the engine, its map of suppressed alerts, a waker. *)
Cared(n, a) ==
    \/ a \in starting[n] \cup suppressedOpen[n] \cup engine[n].woken
    \/ engine[n].pc \in {"gate", "start"} /\ a \in engine[n].work

Unfailing == NSteps > 0 /\ crashes = 0 /\ faults = 0

ChainsInv ==
    Unfailing => \A a \in Alerts :
        Open(a) => starts[a] > 0 \/ \E n \in Nodes : Cared(n, a)

(* A step that loses nobody's care and opens nothing. *)
LEMMA CareKept ==
    ASSUME TypeOK, TypeOK', ChainsInv, Unfailing, NEW a \in Alerts, Open(a),
           starts'[a] >= starts[a],
           \A n \in Nodes : Cared(n, a) => starts'[a] > 0 \/ Cared(n, a)'
    PROVE  starts'[a] > 0 \/ \E n \in Nodes : Cared(n, a)'
<1>1. starts[a] \in Nat /\ starts'[a] \in Nat
  BY DEF TypeOK
<1>2. starts[a] > 0 \/ \E n \in Nodes : Cared(n, a)
  BY DEF ChainsInv
<1>3. QED
  BY <1>1, <1>2

LEMMA StartsChain ==
    ASSUME TypeOK, NEW a \in Alerts, NEW from, StartChain(a, from), NSteps > 0
    PROVE  starts'[a] > 0 /\ \A b \in Alerts : starts'[b] >= starts[b]
<1>1. starts' = [starts EXCEPT ![a] = @ + 1]
  BY EscalationAssumption DEF StartChain
<1>2. QED
  BY <1>1 DEF TypeOK

(* The steps of the workers and of the users. *)
LEMMA CareByOthers ==
    ASSUME TypeOK, TypeOK', ChainsInv, Unfailing, Unfailing', NEW n \in Nodes,
           \/ Poll(n) \/ Fire(n) \/ Fails(n) \/ Tick
           \/ \E b \in Alerts : Ack(n, b) \/ Snooze(n, b) \/ Resolve(n, b)
                                \/ HandlerStops(n, b) \/ Expire(n, b),
           NEW a \in Alerts, Open(a)'
    PROVE  starts'[a] > 0 \/ \E m \in Nodes : Cared(m, a)'
<1>1. UNCHANGED <<starts, starting, suppressedOpen, engine>>
  <2>1. CASE Poll(n) \/ Tick
    BY <2>1 DEF Poll, Tick, history, handlers
  <2>2. CASE Fire(n)
    BY <2>2 DEF Fire, FireRead, Notify, ArmNext, Repeat, MarkDone, history, handlers
  <2>3. CASE Fails(n)
    BY <2>3 DEF Fails, FireReadFails, PolicyReadFails, OwnWriteFails, history, handlers
  <2>4. ASSUME NEW b \in Alerts, Ack(n, b) \/ Snooze(n, b) \/ Resolve(n, b)
                                 \/ HandlerStops(n, b) \/ Expire(n, b)
        PROVE  UNCHANGED <<starts, starting, suppressedOpen, engine>>
    BY <2>4 DEF Ack, Snooze, Resolve, HandlerStops, Expire, history, handlers
  <2>5. QED
    BY <2>1, <2>2, <2>3, <2>4
<1>2. Open(a)
  <2>1. CASE UNCHANGED alerts
    BY <2>1 DEF Open
  <2>2. ASSUME NEW b \in Alerts, NEW status, NEW until, SetStatus(b, status, until), status # "open"
        PROVE  Open(a)
    BY <2>2 DEF SetStatus, Open, TypeOK
  <2>3. ASSUME NEW b \in Alerts, Ack(n, b) \/ Snooze(n, b) \/ Resolve(n, b) PROVE Open(a)
    BY <2>2, <2>3 DEF Ack, Snooze, Resolve
  <2>4. ASSUME NEW b \in Alerts, Expire(n, b) PROVE Open(a)
    BY <2>4 DEF Expire, Open, TypeOK
  <2>5. CASE Poll(n) \/ Fire(n) \/ Fails(n) \/ Tick
    BY <2>1, <2>5 DEF Poll, Tick, Fire, FireRead, Notify, ArmNext, Repeat, MarkDone, Fails,
       FireReadFails, PolicyReadFails, OwnWriteFails
  <2>6. ASSUME NEW b \in Alerts, HandlerStops(n, b) PROVE Open(a)
    BY <2>1, <2>6 DEF HandlerStops
  <2>7. QED
    BY <2>3, <2>4, <2>5, <2>6
<1>3. \A m \in Nodes : Cared(m, a) => Cared(m, a)'
  BY <1>1 DEF Cared
<1>4. starts'[a] >= starts[a]
  BY <1>1 DEF TypeOK
<1>5. QED
  BY <1>2, <1>3, <1>4, CareKept

(* The steps that take an alert over or start its chain. *)
LEMMA CareByStarters ==
    ASSUME TypeOK, TypeOK', ChainsInv, Unfailing, Unfailing', NEW n \in Nodes, NEW b \in Alerts,
           \/ Raise(n, b) \/ HandlerStarts(n, b)
           \/ RuleOpens(n, b) \/ Gate(n, b) \/ ReEvaluate(n, b) \/ EngineStarts(n, b),
           NEW a \in Alerts, Open(a)'
    PROVE  starts'[a] > 0 \/ \E m \in Nodes : Cared(m, a)'
<1>0. ~Fault /\ starts[a] \in Nat
  BY DEF Unfailing, Fault, TypeOK
<1>1. CASE Raise(n, b)
  <2>1. /\ Insert(b) /\ starting' = [starting EXCEPT ![n] = @ \cup {b}]
        /\ UNCHANGED <<starts, suppressedOpen, engine>>
    BY <1>1 DEF Raise, history
  <2>2. CASE a = b
    <3>1. a \in starting'[n]
      BY <2>1, <2>2 DEF TypeOK
    <3>2. QED
      BY <3>1 DEF Cared
  <2>3. CASE a # b
    <3>1. Open(a)
      BY <2>1, <2>3 DEF Insert, Open, TypeOK
    <3>2. \A m \in Nodes : Cared(m, a) => Cared(m, a)'
      BY <2>1 DEF Cared, TypeOK
    <3>3. QED
      BY <1>0, <2>1, <3>1, <3>2, CareKept
  <2>4. QED
    BY <2>2, <2>3
<1>2. CASE RuleOpens(n, b)
  <2>1. /\ Insert(b) /\ engine' = [engine EXCEPT ![n] = Busy("gate", b)] /\ engine[n] = EngineIdle
        /\ UNCHANGED <<starts, suppressedOpen, starting>>
    BY <1>2 DEF RuleOpens, history, handlers
  <2>2. CASE a = b
    <3>1. engine'[n].pc = "gate" /\ a \in engine'[n].work
      BY <2>1, <2>2, BusyFields DEF TypeOK
    <3>2. QED
      BY <3>1 DEF Cared
  <2>3. CASE a # b
    <3>1. Open(a)
      BY <2>1, <2>3 DEF Insert, Open, TypeOK
    <3>2. engine[n].pc = "idle" /\ engine[n].woken = {}
      BY <2>1 DEF EngineIdle
    <3>3. \A m \in Nodes : Cared(m, a) => Cared(m, a)'
      BY <2>1, <3>2 DEF Cared, TypeOK
    <3>4. QED
      BY <1>0, <2>1, <3>1, <3>3, CareKept
  <2>4. QED
    BY <2>2, <2>3
<1>3. CASE HandlerStarts(n, b)
  <2>1. /\ StartChain(b, alerts[b].openedAt) /\ starting' = [starting EXCEPT ![n] = @ \ {b}]
        /\ UNCHANGED <<alerts, suppressedOpen, engine>>
    BY <1>0, <1>3 DEF HandlerStarts
  <2>2. starts'[b] > 0 /\ starts'[a] >= starts[a]
    BY <2>1, StartsChain DEF Unfailing
  <2>3. a # b => \A m \in Nodes : Cared(m, a) => Cared(m, a)'
    BY <2>1 DEF Cared, TypeOK
  <2>4. Open(a)
    BY <2>1 DEF Open
  <2>5. QED
    BY <2>2, <2>3, <2>4, CareKept
<1>4. CASE Gate(n, b)
  <2>1. engine[n] = Busy("gate", b) /\ UNCHANGED <<alerts, starts, starting>>
    BY <1>4 DEF Gate, history, handlers
  <2>2. engine[n].work = {b} /\ engine[n].woken = {}
    BY <2>1 DEF Busy, EngineIdle
  <2>3. Open(a)
    BY <2>1 DEF Open
  <2>4. CASE /\ suppressedOpen' = [suppressedOpen EXCEPT ![n] = @ \cup {b}]
             /\ engine' = [engine EXCEPT ![n] = EngineIdle]
    <3>1. \A m \in Nodes : Cared(m, a) => Cared(m, a)'
      BY <2>1, <2>2, <2>4 DEF Cared, TypeOK
    <3>2. QED
      BY <1>0, <2>1, <2>3, <3>1, CareKept
  <2>5. CASE engine' = [engine EXCEPT ![n] = Busy("start", b)] /\ UNCHANGED suppressedOpen
    <3>1. engine'[n].pc = "start" /\ engine'[n].work = {b}
      BY <2>5, BusyFields DEF TypeOK
    <3>2. \A m \in Nodes \ {n} : engine'[m] = engine[m]
      BY <2>5 DEF TypeOK
    <3>3. \A m \in Nodes : Cared(m, a) => Cared(m, a)'
      BY <2>1, <2>2, <2>5, <3>1, <3>2 DEF Cared
    <3>4. QED
      BY <1>0, <2>1, <2>3, <3>3, CareKept
  <2>6. QED
    BY <1>4, <2>4, <2>5 DEF Gate
<1>5. CASE ReEvaluate(n, b)
  <2>1. engine[n] = EngineIdle /\ UNCHANGED <<alerts, starts, starting>>
    BY <1>5 DEF ReEvaluate, history, handlers
  <2>2. engine[n].pc = "idle" /\ engine[n].woken = {}
    BY <2>1 DEF EngineIdle
  <2>3. Open(a)
    BY <2>1 DEF Open
  <2>4. CASE /\ ~Open(b) /\ UNCHANGED engine
             /\ suppressedOpen' = [suppressedOpen EXCEPT ![n] = @ \ {b}]
    <3>1. \A m \in Nodes : Cared(m, a) => Cared(m, a)'
      BY <2>1, <2>3, <2>4 DEF Cared, TypeOK
    <3>2. QED
      BY <1>0, <2>1, <2>3, <3>1, CareKept
  <2>5. CASE engine' = [engine EXCEPT ![n] = Busy("start", b)] /\ UNCHANGED suppressedOpen
    <3>1. \A m \in Nodes \ {n} : engine'[m] = engine[m]
      BY <2>5 DEF TypeOK
    <3>2. \A m \in Nodes : Cared(m, a) => Cared(m, a)'
      BY <2>1, <2>2, <2>5, <3>1 DEF Cared
    <3>3. QED
      BY <1>0, <2>1, <2>3, <3>2, CareKept
  <2>6. QED
    BY <1>5, <2>4, <2>5 DEF ReEvaluate
<1>6. CASE EngineStarts(n, b)
  <2>1. /\ StartChain(b, alerts[b].openedAt) /\ engine[n] = Busy("start", b)
        /\ suppressedOpen' = [suppressedOpen EXCEPT ![n] = @ \ {b}]
        /\ engine' = [engine EXCEPT ![n] = EngineIdle]
        /\ UNCHANGED <<alerts, starting>>
    BY <1>0, <1>6 DEF EngineStarts, handlers
  <2>2. engine[n].work = {b} /\ engine[n].woken = {}
    BY <2>1 DEF Busy, EngineIdle
  <2>3. starts'[b] > 0 /\ starts'[a] >= starts[a]
    BY <2>1, StartsChain DEF Unfailing
  <2>4. a # b => \A m \in Nodes : Cared(m, a) => Cared(m, a)'
    BY <2>1, <2>2 DEF Cared, TypeOK
  <2>5. Open(a)
    BY <2>1 DEF Open
  <2>6. QED
    BY <2>3, <2>4, <2>5, CareKept
<1>7. QED
  BY <1>1, <1>2, <1>3, <1>4, <1>5, <1>6

(* The steps of the engine that resolve, stop and wake. *)
LEMMA CareByWakers ==
    ASSUME TypeOK, TypeOK', ChainsInv, Unfailing, Unfailing', NEW n \in Nodes, NEW b \in Alerts,
           \/ RuleResolves(n, b) \/ EngineStops(n, b) \/ WakeSelects(n)
           \/ WakeFlips(n, b) \/ WakeStarts(n, b),
           NEW a \in Alerts, Open(a)'
    PROVE  starts'[a] > 0 \/ \E m \in Nodes : Cared(m, a)'
<1>0. ~Fault /\ starts[a] \in Nat
  BY DEF Unfailing, Fault, TypeOK
<1>1. CASE RuleResolves(n, b) \/ EngineStops(n, b) \/ WakeSelects(n)
  <2>1. UNCHANGED <<starts, starting, suppressedOpen>>
    BY <1>1 DEF RuleResolves, EngineStops, WakeSelects, history, handlers
  <2>2. engine[n].pc \notin {"gate", "start"} /\ engine[n].woken = {}
    <3>1. CASE engine[n] = EngineIdle
      BY <3>1 DEF EngineIdle
    <3>2. CASE engine[n] = Busy("stop", b)
      BY <3>2 DEF Busy, EngineIdle
    <3>3. QED
      BY <1>1, <3>1, <3>2 DEF RuleResolves, EngineStops, WakeSelects
  <2>3. \A m \in Nodes \ {n} : engine'[m] = engine[m]
    BY <1>1 DEF RuleResolves, EngineStops, WakeSelects, TypeOK
  <2>4. Open(a)
    <3>1. CASE RuleResolves(n, b)
      <4>1. PICK until : SetStatus(b, "resolved", until)
        BY <3>1 DEF RuleResolves
      <4>2. QED
        BY <4>1 DEF SetStatus, Open, TypeOK
    <3>2. CASE EngineStops(n, b) \/ WakeSelects(n)
      BY <3>2 DEF EngineStops, WakeSelects, Open
    <3>3. QED
      BY <1>1, <3>1, <3>2
  <2>5. \A m \in Nodes : Cared(m, a) => Cared(m, a)'
    BY <2>1, <2>2, <2>3 DEF Cared
  <2>6. QED
    BY <1>0, <2>1, <2>4, <2>5, CareKept
<1>2. CASE WakeFlips(n, b)
  <2>1. UNCHANGED <<starts, starting, suppressedOpen>> /\ engine[n].pc = "flip"
    BY <1>2 DEF WakeFlips, handlers
  <2>2. PICK flipped \in BOOLEAN :
           /\ engine' = [engine EXCEPT ![n] = AfterFlip(engine[n], b, flipped)]
           /\ flipped \/ UNCHANGED alerts
           /\ flipped => SetStatus(b, "open", NoTime)
    BY <1>2 DEF WakeFlips, TypeOK
  <2>3. \A m \in Nodes \ {n} : engine'[m] = engine[m]
    BY <2>2 DEF TypeOK
  <2>4. engine'[n].woken = IF flipped THEN engine[n].woken \cup {b} ELSE engine[n].woken
    BY <2>2 DEF AfterFlip, EngineIdle, TypeOK
  <2>5. \A m \in Nodes : Cared(m, a) => Cared(m, a)'
    BY <2>1, <2>3, <2>4 DEF Cared
  <2>6. CASE flipped /\ a = b
    BY <2>4, <2>6 DEF Cared
  <2>7. CASE ~(flipped /\ a = b)
    <3>1. Open(a)
      BY <2>2, <2>7 DEF Open, SetStatus, TypeOK
    <3>2. QED
      BY <1>0, <2>1, <2>5, <3>1, CareKept
  <2>8. QED
    BY <2>6, <2>7
<1>3. CASE WakeStarts(n, b)
  <2>1. /\ StartChain(b, engine[n].at) /\ engine[n].pc = "rearm"
        /\ engine' = [engine EXCEPT ![n] = AfterStart(engine[n], b)]
        /\ UNCHANGED <<alerts, starting, suppressedOpen>>
    BY <1>0, <1>3 DEF WakeStarts, handlers, TypeOK
  <2>2. \A m \in Nodes \ {n} : engine'[m] = engine[m]
    BY <2>1 DEF TypeOK
  <2>3. engine'[n].woken = engine[n].woken \ {b}
    BY <2>1, <1>3 DEF AfterStart, EngineIdle, TypeOK, WakeStarts
  <2>4. starts'[b] > 0 /\ starts'[a] >= starts[a]
    BY <2>1, StartsChain DEF Unfailing
  <2>5. a # b => \A m \in Nodes : Cared(m, a) => Cared(m, a)'
    BY <2>1, <2>2, <2>3 DEF Cared
  <2>6. Open(a)
    BY <2>1 DEF Open
  <2>7. QED
    BY <2>4, <2>5, <2>6, CareKept
<1>4. QED
  BY <1>1, <1>2, <1>3

(* Only a crash counts as one. *)
LEMMA KeepsCrashes ==
    ASSUME Next, \A n \in Nodes : ~Crash(n)
    PROVE  crashes' = crashes
<1>1. ASSUME NEW n \in Nodes, Poll(n) \/ Fire(n) \/ Fails(n) PROVE crashes' = crashes
  BY <1>1 DEF Poll, Fire, FireRead, Notify, ArmNext, Repeat, MarkDone, Fails,
     FireReadFails, PolicyReadFails, OwnWriteFails, failures
<1>2. ASSUME NEW n \in Nodes, NEW b \in Alerts,
             \/ Raise(n, b) \/ Ack(n, b) \/ Snooze(n, b) \/ Resolve(n, b)
             \/ RuleOpens(n, b) \/ RuleResolves(n, b) \/ Handler(n, b)
      PROVE  crashes' = crashes
  BY <1>2 DEF Raise, Ack, Snooze, Resolve, RuleOpens, RuleResolves, Handler, HandlerStarts,
     HandlerStops, failures
<1>3. ASSUME NEW n \in Nodes, NEW b \in Alerts,
             EngineWorks(n, b) \/ ReEvaluate(n, b) \/ Expire(n, b)
      PROVE  crashes' = crashes
  BY <1>3 DEF EngineWorks, Gate, EngineStarts, EngineStops, WakeFlips, WakeStarts, ReEvaluate,
     Expire, failures
<1>4. ASSUME NEW n \in Nodes, WakeSelects(n) PROVE crashes' = crashes
  BY <1>4 DEF WakeSelects, failures
<1>5. CASE Tick
  BY <1>5 DEF Tick, failures
<1>6. QED
  BY <1>1, <1>2, <1>3, <1>4, <1>5 DEF Next, Input

LEMMA StepChains ==
    ASSUME TypeOK, TypeOK', ChainsInv, [Next]_vars
    PROVE  ChainsInv'
<1> SUFFICES ASSUME Unfailing', NEW a \in Alerts, Open(a)'
             PROVE  starts'[a] > 0 \/ \E n \in Nodes : Cared(n, a)'
  BY DEF ChainsInv
<1>1. crashes \in Nat /\ crashes' = 0
  BY DEF TypeOK, Unfailing
<1>2. \A n \in Nodes : ~Crash(n)
  BY <1>1 DEF Crash
<1>3. crashes = 0
  <2>1. CASE UNCHANGED vars
    BY <1>1, <2>1 DEF vars, failures
  <2>2. CASE Next
    BY <1>1, <1>2, <2>2, KeepsCrashes
  <2>3. QED
    BY <2>1, <2>2
<1>4. faults = 0
  BY StepShape DEF Unfailing, Fault, TypeOK
<1>5. Unfailing
  BY <1>3, <1>4 DEF Unfailing
<1>6. CASE UNCHANGED vars
  <2>1. UNCHANGED <<alerts, starts, starting, suppressedOpen, engine>>
    BY <1>6 DEF vars, history, handlers
  <2>2. QED
    BY <1>5, <2>1 DEF ChainsInv, Cared, Open
<1>7. CASE Tick
  <2>1. UNCHANGED <<alerts, starts, starting, suppressedOpen, engine>>
    BY <1>7 DEF Tick, history, handlers
  <2>2. QED
    BY <1>5, <2>1 DEF ChainsInv, Cared, Open
<1>8. ASSUME NEW n \in Nodes, Poll(n) \/ Fire(n) \/ Fails(n) \/ WakeSelects(n)
      PROVE  starts'[a] > 0 \/ \E m \in Nodes : Cared(m, a)'
  <2>1. CASE WakeSelects(n)
    BY <1>5, <2>1, CareByWakers
  <2>2. QED
    BY <1>5, <1>8, <2>1, CareByOthers
<1>9. ASSUME NEW n \in Nodes, NEW b \in Alerts,
             Input(n) \/ Handler(n, b) \/ EngineWorks(n, b) \/ ReEvaluate(n, b) \/ Expire(n, b)
      PROVE  starts'[a] > 0 \/ \E m \in Nodes : Cared(m, a)'
  <2>1. ASSUME NEW c \in Alerts,
               \/ Ack(n, c) \/ Snooze(n, c) \/ Resolve(n, c) \/ HandlerStops(n, c) \/ Expire(n, c)
        PROVE  starts'[a] > 0 \/ \E m \in Nodes : Cared(m, a)'
    BY <1>5, <2>1, CareByOthers
  <2>2. ASSUME NEW c \in Alerts,
               \/ Raise(n, c) \/ HandlerStarts(n, c) \/ RuleOpens(n, c) \/ Gate(n, c)
               \/ ReEvaluate(n, c) \/ EngineStarts(n, c)
        PROVE  starts'[a] > 0 \/ \E m \in Nodes : Cared(m, a)'
    BY <1>5, <2>2, CareByStarters
  <2>3. ASSUME NEW c \in Alerts,
               RuleResolves(n, c) \/ EngineStops(n, c) \/ WakeFlips(n, c) \/ WakeStarts(n, c)
        PROVE  starts'[a] > 0 \/ \E m \in Nodes : Cared(m, a)'
    BY <1>5, <2>3, CareByWakers
  <2>4. QED
    BY <1>9, <2>1, <2>2, <2>3 DEF Input, Handler, EngineWorks
<1>10. CASE Next
  <2>1. CASE Tick
    BY <1>7, <2>1
  <2>2. CASE ~Tick
    <3>1. PICK n \in Nodes :
            \/ Poll(n) \/ Fire(n) \/ Fails(n) \/ Input(n) \/ WakeSelects(n)
            \/ \E b \in Alerts : Handler(n, b) \/ EngineWorks(n, b) \/ ReEvaluate(n, b) \/ Expire(n, b)
      BY <1>2, <1>10, <2>2 DEF Next
    <3>2. CASE Poll(n) \/ Fire(n) \/ Fails(n) \/ WakeSelects(n)
      BY <1>8, <3>2
    <3>3. CASE Input(n)
      BY <1>9, <3>3
    <3>4. QED
      BY <1>9, <3>1, <3>2, <3>3
  <2>3. QED
    BY <2>1, <2>2
<1>11. QED
  BY <1>6, <1>10

(* Every open alert has a chain or somebody who is about to start it, for every
   interleaving of handlers, suppressions and wakers, as long as no process crashed
   and no call failed: a crash is the only way to the alert without a chain. *)
THEOREM ChainUnlessFailed == Spec => [](Unfailing => OpenHasChain)
<1>1. Init => TypeOK /\ ChainsInv
  <2>1. Init => ChainsInv
    BY DEF Init, ChainsInv, Open, NoAlert
  <2>2. QED
    BY <2>1, InitTypes
<1>2. TypeOK /\ ChainsInv /\ [Next]_vars => (TypeOK /\ ChainsInv)'
  BY StepTypes, StepChains
<1>3. TypeOK /\ ChainsInv => (Unfailing => OpenHasChain)
  BY DEF ChainsInv, OpenHasChain, Cared
<1>4. QED
  BY <1>1, <1>2, <1>3, PTL DEF Spec

-----------------------------------------------------------------------------
(* On one node on which nothing fails, a step is not sent more often than planned.
   What is still to come of a step is told by the copy the worker has of its row,
   for the copy will overwrite the row, and by the row only if there is no copy. *)
IsOf(t, a, s) == t.alert = a /\ t.step = s
Has(w, a, s) == \E t \in w.due : IsOf(t, a, s)
CopyIn(w, a, s) == CHOOSE t \in w.due : IsOf(t, a, s)
Firing(w, a, s) == w.pc # "idle" /\ IsOf(w.cur, a, s)

(* The firings it will still give by itself, and whether it will arm the next step. *)
Left(w, row, a, s) ==
    IF Firing(w, a, s)
      THEN IF w.pc = "notify" THEN Total(s) - w.cur.repeats
           ELSE IF w.pc = "done" THEN 0 ELSE Total(s) - w.cur.repeats - 1
    ELSE IF Has(w, a, s) THEN Total(s) - CopyIn(w, a, s).repeats
    ELSE IF row.done THEN 0 ELSE Total(s) - row.repeats

Fresh(w, row, a, s) ==
    IF Firing(w, a, s) THEN w.pc \in {"notify", "next"} /\ w.cur.repeats = 0
    ELSE IF Has(w, a, s) THEN CopyIn(w, a, s).repeats = 0
    ELSE ~row.done /\ row.repeats = 0

LeftAt(n, a, s) == Left(esc[n], timers[a][s], a, s)
FreshAt(n, a, s) == Fresh(esc[n], timers[a][s], a, s)

(* The steps before one that will arm it, by way of the steps between. *)
ToArm(n, a, s) == {u \in 0 .. (s - 1) : FreshAt(n, a, u)}

Budget(n, a, s) ==
    fired[a][s] + LeftAt(n, a, s) + Total(s) * Cardinality(ToArm(n, a, s)) <= Total(s) * starts[a]

(* One copy of a row at a time. *)
Distinct(w) ==
    /\ \A t, u \in w.due : IsOf(t, u.alert, u.step) => t = u
    /\ w.pc # "idle" => ~Has(w, w.cur.alert, w.cur.step)

FewRepeats(n) ==
    /\ \A a \in Alerts, s \in Steps : Pending(a, s) => timers[a][s].repeats < Total(s)
    /\ \A t \in Holds(n) : t.repeats < Total(t.step)

FirstArms(n) == esc[n].pc = "next" => esc[n].cur.repeats = 0 /\ esc[n].cur.step + 1 \in Steps

PlanInv(n) ==
    /\ Distinct(esc[n]) /\ FewRepeats(n) /\ FirstArms(n)
    /\ \A a \in Alerts, s \in Steps : Budget(n, a, s)

LEMMA TotalPositive ==
    ASSUME NEW s \in Steps
    PROVE  Total(s) \in Nat /\ Total(s) > 0
BY StepFields DEF Total

LEMMA CopyIs ==
    ASSUME NEW w, Distinct(w), NEW t \in w.due
    PROVE  Has(w, t.alert, t.step) /\ CopyIn(w, t.alert, t.step) = t
<1>1. IsOf(t, t.alert, t.step)
  BY DEF IsOf
<1>2. IsOf(CopyIn(w, t.alert, t.step), t.alert, t.step) /\ CopyIn(w, t.alert, t.step) \in w.due
  BY <1>1 DEF CopyIn
<1>3. QED
  BY <1>1, <1>2 DEF Distinct, Has

LEMMA CopyFound ==
    ASSUME NEW w, NEW a, NEW s, Has(w, a, s)
    PROVE  CopyIn(w, a, s) \in w.due /\ CopyIn(w, a, s).alert = a /\ CopyIn(w, a, s).step = s
BY DEF Has, CopyIn, IsOf

(* A step that no firing is about is told by the same copy as before. *)
LEMMA ViewElsewhere ==
    ASSUME NEW w, NEW x, Distinct(w), Distinct(x), NEW a, NEW s, NEW row, NEW new,
           ~Firing(w, a, s), ~Firing(x, a, s),
           \A t : IsOf(t, a, s) => (t \in w.due <=> t \in x.due)
    PROVE  /\ Has(x, a, s) <=> Has(w, a, s)
           /\ Has(w, a, s) \/ new = row =>
                 Left(x, new, a, s) = Left(w, row, a, s) /\ Fresh(x, new, a, s) = Fresh(w, row, a, s)
<1>1. Has(x, a, s) <=> Has(w, a, s)
  BY DEF Has
<1>2. CASE Has(w, a, s)
  <2>1. PICK t \in w.due : IsOf(t, a, s)
    BY <1>2 DEF Has
  <2>2. t \in x.due /\ t.alert = a /\ t.step = s
    BY <2>1 DEF IsOf
  <2>3. CopyIn(w, a, s) = t /\ CopyIn(x, a, s) = t
    BY <2>1, <2>2, CopyIs
  <2>4. QED
    BY <1>1, <1>2, <2>3 DEF Left, Fresh
<1>3. CASE ~Has(w, a, s)
  BY <1>1, <1>3 DEF Left, Fresh
<1>4. QED
  BY <1>1, <1>2, <1>3

LEMMA LeftRange ==
    ASSUME NEW w \in Workers, NEW row \in Rows, NEW a \in Alerts, NEW s \in Steps,
           ~row.done => row.repeats < Total(s),
           \A t \in w.due : t.repeats < Total(t.step),
           w.pc # "idle" => w.cur.repeats < Total(w.cur.step)
    PROVE  Left(w, row, a, s) \in 0 .. Total(s)
<1>1. Total(s) \in Nat /\ Total(s) > 0
  BY TotalPositive
<1>2. w.due \subseteq Snapshot /\ (w.pc # "idle" => w.cur \in Snapshot)
  BY DEF Workers, IdleWorker, BusyWorker
<1>3. CASE Firing(w, a, s)
  <2>1. w.cur.repeats \in Nat /\ w.cur.repeats < Total(s)
    BY <1>2, <1>3 DEF Firing, IsOf, Snapshot
  <2>2. QED
    BY <1>1, <1>3, <2>1 DEF Left
<1>4. CASE ~Firing(w, a, s) /\ Has(w, a, s)
  <2> DEFINE t == CopyIn(w, a, s)
  <2>1. t \in w.due /\ t.step = s
    BY <1>4, CopyFound
  <2>2. t.repeats \in Nat /\ t.repeats < Total(s)
    BY <1>2, <2>1 DEF Snapshot
  <2>3. Left(w, row, a, s) = Total(s) - t.repeats
    BY <1>4 DEF Left
  <2>4. QED
    BY <1>1, <2>2, <2>3
<1>5. CASE ~Firing(w, a, s) /\ ~Has(w, a, s)
  <2>1. row.repeats \in Nat
    BY DEF Rows
  <2>2. Left(w, row, a, s) = IF row.done THEN 0 ELSE Total(s) - row.repeats
    BY <1>5 DEF Left
  <2>3. QED
    BY <1>1, <2>1, <2>2
<1>6. QED
  BY <1>3, <1>4, <1>5

LEMMA LeftNat ==
    ASSUME TypeOK, TypeOK', NEW n \in Nodes, NEW a \in Alerts, NEW s \in Steps,
           FewRepeats(n), FewRepeats(n)'
    PROVE  /\ LeftAt(n, a, s) \in 0 .. Total(s)
           /\ LeftAt(n, a, s)' \in 0 .. Total(s)
<1>1. /\ esc[n] \in Workers /\ timers[a][s] \in Rows
      /\ esc'[n] \in Workers /\ timers'[a][s] \in Rows
  BY DEF TypeOK, Workers, Rows
<1>2. /\ ~timers[a][s].done => timers[a][s].repeats < Total(s)
      /\ \A t \in esc[n].due : t.repeats < Total(t.step)
      /\ esc[n].pc # "idle" => esc[n].cur.repeats < Total(esc[n].cur.step)
  BY DEF FewRepeats, Pending, Holds
<1>3. /\ ~timers'[a][s].done => timers'[a][s].repeats < Total(s)
      /\ \A t \in esc'[n].due : t.repeats < Total(t.step)
      /\ esc'[n].pc # "idle" => esc'[n].cur.repeats < Total(esc'[n].cur.step)
  BY DEF FewRepeats, Pending, Holds, Total
<1>4. Left(esc[n], timers[a][s], a, s) \in 0 .. Total(s)
  BY <1>1, <1>2, LeftRange
<1>5. Left(esc'[n], timers'[a][s], a, s) \in 0 .. Total(s)
  BY <1>1, <1>3, LeftRange
<1>6. QED
  BY <1>4, <1>5 DEF LeftAt

(* Sets of earlier steps are finite. *)
LEMMA EarlierFinite ==
    ASSUME NEW s \in Steps, NEW S, S \subseteq 0 .. (s - 1)
    PROVE  /\ IsFiniteSet(S) /\ Cardinality(S) \in Nat
           /\ \A T \in SUBSET S : Cardinality(T) <= Cardinality(S)
<1>1. s \in Nat
  BY EscalationAssumption DEF Steps
<1>2. IsFiniteSet(0 .. (s - 1))
  BY <1>1, FS_Interval
<1>3. IsFiniteSet(S)
  BY <1>2, FS_Subset
<1>4. QED
  BY <1>3, FS_Subset, FS_CardinalityType

LEMMA ArmCount ==
    ASSUME NEW n, NEW a, NEW s \in Steps
    PROVE  /\ ToArm(n, a, s) \subseteq 0 .. (s - 1) /\ ToArm(n, a, s)' \subseteq 0 .. (s - 1)
           /\ Cardinality(ToArm(n, a, s)) \in Nat /\ Cardinality(ToArm(n, a, s)') \in Nat
<1>1. ToArm(n, a, s) \subseteq 0 .. (s - 1)
  BY DEF ToArm
<1>2. ToArm(n, a, s)' \subseteq 0 .. (s - 1)
  BY DEF ToArm
<1>3. Cardinality(ToArm(n, a, s)) \in Nat
  BY <1>1, EarlierFinite
<1>4. Cardinality(ToArm(n, a, s)') \in Nat
  BY <1>2, EarlierFinite
<1>5. QED
  BY <1>1, <1>2, <1>3, <1>4

LEMMA Product ==
    ASSUME NEW T \in Nat, NEW i \in Int, NEW j \in Int, i <= j
    PROVE  T * i <= T * j
<1>1. j - i \in Nat
  OBVIOUS
<1>2. T * (j - i) \in Nat
  BY <1>1
<1>3. T * j = T * i + T * (j - i)
  OBVIOUS
<1>4. QED
  BY <1>2, <1>3

(* The account: e rounds of a step are added, and so many starts or steps that
   will arm it are used up. *)
LEMMA Account ==
    ASSUME NEW T \in Nat, NEW x \in Nat, NEW y \in Nat, NEW c \in Nat, NEW d \in Nat,
           NEW k \in Nat, NEW m \in Nat, NEW e \in Nat,
           x + T * c <= T * k, y <= x + T * e, d + e <= c + (m - k)
    PROVE  y + T * d <= T * m
<1>1. T * (d + e) <= T * (c + (m - k))
  <2>1. d + e \in Int /\ c + (m - k) \in Int
    OBVIOUS
  <2>2. QED
    BY <2>1, Product
<1>2. T * (d + e) = T * d + T * e
  OBVIOUS
<1>3. T * (c + (m - k)) = T * c + T * m - T * k
  OBVIOUS
<1>4. T * c \in Int /\ T * d \in Int /\ T * e \in Int /\ T * k \in Int /\ T * m \in Int
  OBVIOUS
<1>5. QED
  BY <1>1, <1>2, <1>3, <1>4

LEMMA Affords ==
    ASSUME TypeOK, TypeOK', NEW n \in Nodes, NEW a \in Alerts, NEW s \in Steps, Budget(n, a, s),
           FewRepeats(n), FewRepeats(n)', NEW e \in Nat,
           fired'[a][s] + LeftAt(n, a, s)' <= fired[a][s] + LeftAt(n, a, s) + Total(s) * e,
           Cardinality(ToArm(n, a, s)') + e <= Cardinality(ToArm(n, a, s)) + (starts'[a] - starts[a])
    PROVE  Budget(n, a, s)'
<1> DEFINE x == fired[a][s] + LeftAt(n, a, s)
           y == fired'[a][s] + LeftAt(n, a, s)'
           c == Cardinality(ToArm(n, a, s))
           d == Cardinality(ToArm(n, a, s)')
           T == Total(s)
<1>1. LeftAt(n, a, s) \in 0 .. Total(s) /\ LeftAt(n, a, s)' \in 0 .. Total(s) /\ Total(s) \in Nat
  BY LeftNat, TotalPositive
<1>2. x \in Nat /\ y \in Nat /\ T \in Nat /\ starts[a] \in Nat /\ starts'[a] \in Nat
  BY <1>1 DEF TypeOK
<1>3. c \in Nat
  BY ArmCount
<1>4. d \in Nat
  BY ArmCount
<1>5. x + T * c <= T * starts[a]
  BY DEF Budget
<1>6. y <= x + T * e /\ d + e <= c + (starts'[a] - starts[a])
  OBVIOUS
<1> HIDE DEF x, y, c, d, T
<1>7. y + T * d <= T * starts'[a]
  BY <1>2, <1>3, <1>4, <1>5, <1>6, Account
<1>8. QED
  BY <1>7 DEF Budget, y, d, T, Total

(* A step that adds no firings to come and no step that arms keeps the account. *)
LEMMA Spends ==
    ASSUME TypeOK, TypeOK', NEW n \in Nodes, NEW a \in Alerts, NEW s \in Steps, Budget(n, a, s),
           FewRepeats(n), FewRepeats(n)', starts'[a] = starts[a],
           fired'[a][s] + LeftAt(n, a, s)' <= fired[a][s] + LeftAt(n, a, s),
           \A u \in Steps : FreshAt(n, a, u)' => FreshAt(n, a, u)
    PROVE  Budget(n, a, s)'
<1>1. ToArm(n, a, s)' \subseteq ToArm(n, a, s)
  <2>1. 0 .. (s - 1) \subseteq Steps
    BY StepsBetween
  <2>2. QED
    BY <2>1 DEF ToArm
<1> DEFINE S == ToArm(n, a, s)
           T == ToArm(n, a, s)'
<1>2. S \subseteq 0 .. (s - 1) /\ Cardinality(S) \in Nat /\ Cardinality(T) \in Nat /\ T \subseteq S
  BY <1>1, ArmCount
<1>3. starts[a] \in Nat /\ starts'[a] - starts[a] = 0
  BY DEF TypeOK
<1>4. fired[a][s] \in Nat /\ LeftAt(n, a, s) \in Nat /\ Total(s) \in Nat
  BY LeftNat, TotalPositive DEF TypeOK
<1>5. fired'[a][s] + LeftAt(n, a, s)' <= fired[a][s] + LeftAt(n, a, s) + Total(s) * 0
  BY <1>4
<1> HIDE DEF S, T
<1>6. Cardinality(T) <= Cardinality(S)
  BY <1>2, EarlierFinite
<1>7. Cardinality(T) + 0 <= Cardinality(S) + (starts'[a] - starts[a])
  BY <1>2, <1>3, <1>6
<1>8. QED
  BY <1>5, <1>7, Affords DEF S, T

LEMMA DoneView ==
    ASSUME NEW w, NEW a, NEW s, NEW row, NEW new, new.done
    PROVE  /\ Left(w, new, a, s) \in {Left(w, row, a, s), 0}
           /\ Fresh(w, new, a, s) => Fresh(w, row, a, s)
<1>1. CASE Firing(w, a, s) \/ Has(w, a, s)
  <2>1. Left(w, new, a, s) = Left(w, row, a, s)
    BY <1>1 DEF Left
  <2>2. Fresh(w, new, a, s) <=> Fresh(w, row, a, s)
    BY <1>1 DEF Fresh
  <2>3. QED
    BY <2>1, <2>2
<1>2. CASE ~Firing(w, a, s) /\ ~Has(w, a, s)
  BY <1>2 DEF Left, Fresh
<1>3. QED
  BY <1>1, <1>2

(* What a step that leaves the worker alone does to what is to come. *)
LEMMA ViewOfRow ==
    ASSUME NEW n \in Nodes, NEW a \in Alerts, NEW s \in Steps, esc'[n] = esc[n]
    PROVE  /\ timers'[a][s] = timers[a][s] =>
                 LeftAt(n, a, s)' = LeftAt(n, a, s) /\ FreshAt(n, a, s)' = FreshAt(n, a, s)
           /\ timers'[a][s].done =>
                 LeftAt(n, a, s)' \in {LeftAt(n, a, s), 0} /\ (FreshAt(n, a, s)' => FreshAt(n, a, s))
<1> DEFINE w == esc[n]
<1>1. /\ LeftAt(n, a, s)' = Left(w, timers'[a][s], a, s)
      /\ FreshAt(n, a, s)' = Fresh(w, timers'[a][s], a, s)
  BY DEF LeftAt, FreshAt, Left, Fresh, Firing, Has, CopyIn, Total, IsOf
<1>2. LeftAt(n, a, s) = Left(w, timers[a][s], a, s) /\ FreshAt(n, a, s) = Fresh(w, timers[a][s], a, s)
  BY DEF LeftAt, FreshAt
<1>3. CASE timers'[a][s] = timers[a][s]
  BY <1>1, <1>2, <1>3
<1>4. CASE timers'[a][s].done
  BY <1>1, <1>2, <1>4, DoneView
<1>5. QED
  BY <1>3, <1>4

LEMMA FewStill ==
    ASSUME TypeOK, TypeOK', NEW n \in Nodes, PlanInv(n), esc'[n] = esc[n],
           \A a \in Alerts, s \in Steps :
              \/ timers'[a][s] = timers[a][s] \/ timers'[a][s].done \/ timers'[a][s].repeats = 0
    PROVE  Distinct(esc[n])' /\ FewRepeats(n)' /\ FirstArms(n)'
<1>1. Distinct(esc[n])' /\ FirstArms(n)'
  BY DEF PlanInv, Distinct, FirstArms, Has
<1>2. \A t \in Holds(n)' : t.repeats < Total(t.step)'
  BY DEF PlanInv, FewRepeats, Holds, Total
<1>3. ASSUME NEW a \in Alerts, NEW s \in Steps, ~timers'[a][s].done
      PROVE  timers'[a][s].repeats < Total(s)
  <2>1. Total(s) \in Nat /\ Total(s) > 0
    BY TotalPositive
  <2>2. timers'[a][s] = timers[a][s] => timers'[a][s].repeats < Total(s)
    BY <1>3 DEF PlanInv, FewRepeats, Pending
  <2>3. QED
    BY <1>3, <2>1, <2>2
<1>4. \A a \in Alerts, s \in Steps : Pending(a, s)' => timers'[a][s].repeats < Total(s)'
  BY <1>3 DEF Pending, Total
<1>5. QED
  BY <1>1, <1>2, <1>4 DEF FewRepeats

LEMMA PlanStill ==
    ASSUME TypeOK, TypeOK', NEW n \in Nodes, PlanInv(n), esc'[n] = esc[n], UNCHANGED <<fired, starts>>,
           \A a \in Alerts, s \in Steps : timers'[a][s] = timers[a][s] \/ timers'[a][s].done
    PROVE  PlanInv(n)'
<1>1. Distinct(esc[n])' /\ FewRepeats(n)' /\ FirstArms(n)'
  BY FewStill
<1>2. FewRepeats(n)
  BY DEF PlanInv
<1>3. ASSUME NEW a \in Alerts, NEW s \in Steps PROVE Budget(n, a, s)'
  <2>1. \A u \in Steps : FreshAt(n, a, u)' => FreshAt(n, a, u)
    BY ViewOfRow
  <2>2. LeftAt(n, a, s)' \in {LeftAt(n, a, s), 0}
    BY ViewOfRow
  <2>3. LeftAt(n, a, s) \in Nat /\ LeftAt(n, a, s)' \in Nat /\ LeftAt(n, a, s)' <= LeftAt(n, a, s)
    BY <1>1, <1>2, <2>2, LeftNat, TotalPositive
  <2>4. fired[a][s] \in Nat /\ fired'[a][s] = fired[a][s] /\ starts'[a] = starts[a]
    BY DEF TypeOK
  <2>5. fired'[a][s] + LeftAt(n, a, s)' <= fired[a][s] + LeftAt(n, a, s)
    BY <2>3, <2>4
  <2>6. Budget(n, a, s)
    BY DEF PlanInv
  <2>7. QED
    BY <1>1, <1>2, <2>1, <2>4, <2>5, <2>6, Spends
<1>4. QED
  BY <1>1, <1>3 DEF PlanInv

(* A start adds one round for every step. *)
LEMMA PlanStarts ==
    ASSUME TypeOK, TypeOK', NEW n \in Nodes, PlanInv(n), esc'[n] = esc[n], UNCHANGED fired,
           NEW b \in Alerts, NEW from, StartChain(b, from)
    PROVE  PlanInv(n)'
<1>1. CASE NSteps = 0
  BY <1>1, PlanStill DEF StartChain
<1>2. CASE NSteps # 0
  <2> DEFINE row == Row(0, from + Policy[0].after)
  <2>1. timers' = [timers EXCEPT ![b][0] = row] /\ starts' = [starts EXCEPT ![b] = @ + 1]
    BY <1>2 DEF StartChain
  <2>2. row.repeats = 0
    BY DEF Row
  <2> HIDE DEF row
  <2>3. /\ \A a \in Alerts, s \in Steps : a # b \/ s # 0 => timers'[a][s] = timers[a][s]
        /\ \A a \in Alerts, s \in Steps : timers'[a][s] = timers[a][s] \/ timers'[a][s] = row
    BY <2>1, RowWrite DEF TypeOK
  <2>4. \A a \in Alerts : starts[a] \in Nat /\ starts'[a] = IF a = b THEN starts[a] + 1 ELSE starts[a]
    BY <2>1 DEF TypeOK
  <2>5. FewRepeats(n) /\ Distinct(esc[n])' /\ FewRepeats(n)' /\ FirstArms(n)'
    BY <2>2, <2>3, FewStill DEF PlanInv
  <2>6. ASSUME NEW a \in Alerts, NEW s \in Steps PROVE Budget(n, a, s)'
    <3>1. Budget(n, a, s) /\ fired[a][s] \in Nat /\ fired'[a][s] = fired[a][s]
      BY DEF PlanInv, TypeOK
    <3>2. Total(s) \in Nat /\ LeftAt(n, a, s) \in 0 .. Total(s) /\ LeftAt(n, a, s)' \in 0 .. Total(s)
      BY <2>5, LeftNat, TotalPositive
    <3>3. \A u \in Steps : a # b \/ u # 0 =>
             LeftAt(n, a, u)' = LeftAt(n, a, u) /\ FreshAt(n, a, u)' = FreshAt(n, a, u)
      BY <2>3, ViewOfRow
    <3>4. CASE a # b
      <4>1. /\ fired'[a][s] + LeftAt(n, a, s)' <= fired[a][s] + LeftAt(n, a, s)
            /\ starts'[a] = starts[a] /\ \A u \in Steps : FreshAt(n, a, u)' => FreshAt(n, a, u)
        BY <2>4, <3>1, <3>2, <3>3, <3>4
      <4>2. QED
        BY <2>5, <3>1, <4>1, Spends
    <3>5. CASE a = b /\ s = 0
      <4>1. ToArm(n, a, s) = {} /\ ToArm(n, a, s)' = {}
        BY <3>5, ArmCount
      <4>2. Cardinality({}) = 0
        BY FS_EmptySet
      <4>3. Cardinality(ToArm(n, a, s)') + 1 <= Cardinality(ToArm(n, a, s)) + (starts'[a] - starts[a])
        <5>1. Cardinality(ToArm(n, a, s)') = 0 /\ Cardinality(ToArm(n, a, s)) = 0
          BY <4>1, <4>2
        <5>2. starts'[a] - starts[a] = 1
          BY <2>4, <3>5
        <5>3. QED
          BY <5>1, <5>2
      <4>4. fired'[a][s] + LeftAt(n, a, s)' <= fired[a][s] + LeftAt(n, a, s) + Total(s) * 1
        BY <3>1, <3>2
      <4>5. QED
        BY <2>5, <3>1, <4>3, <4>4, Affords
    <3>6. CASE a = b /\ s # 0
      <4> DEFINE S == ToArm(n, a, s)
                 T == ToArm(n, a, s)'
      <4>1. S \subseteq 0 .. (s - 1) /\ T \subseteq S \cup {0}
        <5>1. 0 .. (s - 1) \subseteq Steps
          BY StepsBetween
        <5>2. \A u \in 0 .. (s - 1) : u = 0 \/ FreshAt(n, a, u)' = FreshAt(n, a, u)
          BY <3>3, <5>1
        <5>3. QED
          BY <5>2 DEF ToArm
      <4> HIDE DEF S, T
      <4>2. s \in Nat /\ 0 \in 0 .. (s - 1)
        BY <3>6, StepsBetween
      <4>3. S \cup {0} \subseteq 0 .. (s - 1)
        BY <4>1, <4>2
      <4>4. IsFiniteSet(S) /\ Cardinality(S) \in Nat /\ Cardinality(T) <= Cardinality(S \cup {0})
            /\ Cardinality(T) \in Nat /\ Cardinality(S \cup {0}) \in Nat
        <5>1. IsFiniteSet(S) /\ Cardinality(S) \in Nat
          BY <4>1, EarlierFinite
        <5>2. T \in SUBSET (S \cup {0}) /\ T \subseteq 0 .. (s - 1)
          BY <4>1, <4>3
        <5>3. Cardinality(T) \in Nat
          BY <5>2, EarlierFinite
        <5>4. Cardinality(T) <= Cardinality(S \cup {0}) /\ Cardinality(S \cup {0}) \in Nat
          BY <4>3, <5>2, EarlierFinite
        <5>5. QED
          BY <5>1, <5>3, <5>4
      <4>5. Cardinality(S \cup {0}) <= Cardinality(S) + 1
        <5>1. Cardinality(S \cup {0}) = IF 0 \in S THEN Cardinality(S) ELSE Cardinality(S) + 1
          BY <4>4, FS_AddElement
        <5>2. QED
          BY <4>4, <5>1
      <4>6. Cardinality(T) + 0 <= Cardinality(S) + (starts'[a] - starts[a])
        BY <2>4, <3>6, <4>4, <4>5
      <4>7. fired'[a][s] + LeftAt(n, a, s)' <= fired[a][s] + LeftAt(n, a, s) + Total(s) * 0
        BY <3>1, <3>2, <3>3, <3>6
      <4>8. QED
        BY <2>5, <3>1, <4>6, <4>7, Affords DEF S, T
    <3>7. QED
      BY <3>4, <3>5, <3>6
  <2>7. QED
    BY <2>5, <2>6 DEF PlanInv
<1>3. QED
  BY <1>1, <1>2

(* A step of the worker that adds no firings to come and no step that arms. *)
LEMMA PlanFires ==
    ASSUME TypeOK, TypeOK', NEW n \in Nodes, PlanInv(n), UNCHANGED starts,
           Distinct(esc[n])', FewRepeats(n)', FirstArms(n)',
           \A a \in Alerts, s \in Steps :
              /\ fired'[a][s] + LeftAt(n, a, s)' <= fired[a][s] + LeftAt(n, a, s)
              /\ FreshAt(n, a, s)' => FreshAt(n, a, s)
    PROVE  PlanInv(n)'
<1>1. ASSUME NEW a \in Alerts, NEW s \in Steps PROVE Budget(n, a, s)'
  BY Spends DEF PlanInv
<1>2. QED
  BY <1>1 DEF PlanInv

(* The steps that the worker is not about are as they were. *)
LEMMA OtherViews ==
    ASSUME NEW n \in Nodes, Distinct(esc[n]), Distinct(esc[n])', NEW a \in Alerts, NEW s \in Steps,
           ~Firing(esc[n], a, s), ~Firing(esc'[n], a, s),
           \A t : IsOf(t, a, s) => (t \in esc[n].due <=> t \in esc'[n].due),
           Has(esc[n], a, s) \/ timers'[a][s] = timers[a][s]
    PROVE  LeftAt(n, a, s)' = LeftAt(n, a, s) /\ FreshAt(n, a, s)' = FreshAt(n, a, s)
<1>1. Distinct(esc'[n])
  BY DEF Distinct, Has, IsOf
<1>2. /\ Left(esc'[n], timers'[a][s], a, s) = Left(esc[n], timers[a][s], a, s)
      /\ Fresh(esc'[n], timers'[a][s], a, s) = Fresh(esc[n], timers[a][s], a, s)
  BY <1>1, ViewElsewhere
<1>3. /\ LeftAt(n, a, s)' = Left(esc'[n], timers'[a][s], a, s)
      /\ FreshAt(n, a, s)' = Fresh(esc'[n], timers'[a][s], a, s)
  BY DEF LeftAt, FreshAt, Left, Fresh, Firing, Has, CopyIn, Total, IsOf
<1>4. QED
  BY <1>2, <1>3 DEF LeftAt, FreshAt

LEMMA PollPlan ==
    ASSUME TypeOK, TypeOK', NEW n \in Nodes, PlanInv(n), Poll(n)
    PROVE  PlanInv(n)'
<1>1. /\ esc[n].pc = "idle" /\ esc[n].due = {} /\ UNCHANGED <<timers, fired, starts>>
      /\ esc' = [esc EXCEPT ![n] = [esc[n] EXCEPT !.due = Due]]
  BY DEF Poll, history, TypeOK
<1>2. esc'[n].pc = "idle" /\ esc'[n].due = Due
  BY <1>1, WorkerAt DEF TypeOK, IdleWorker, BusyWorker
<1>3. \A t \in Due : \E a \in Alerts, s \in Steps : Pending(a, s) /\ t = Copy(a, s)
  BY DEF Due
<1>4. \A a, s : /\ Copy(a, s).alert = a /\ Copy(a, s).step = s
                /\ Copy(a, s).repeats = timers[a][s].repeats
  BY DEF Copy
<1>5. \A t, u \in Due : IsOf(t, u.alert, u.step) => t = u
  BY <1>3, <1>4 DEF IsOf
<1>6. Distinct(esc[n])' /\ FirstArms(n)'
  BY <1>2, <1>5 DEF Distinct, FirstArms
<1>7. FewRepeats(n)'
  <2>1. \A t \in Due : t.repeats < Total(t.step)
    BY <1>3, <1>4 DEF PlanInv, FewRepeats
  <2>2. Holds(n)' = Due
    BY <1>2 DEF Holds
  <2>3. \A t \in Holds(n)' : t.repeats < Total(t.step)'
    BY <2>1, <2>2 DEF Total
  <2>4. \A a \in Alerts, s \in Steps : Pending(a, s)' => timers'[a][s].repeats < Total(s)'
    BY <1>1 DEF PlanInv, FewRepeats, Pending, Total
  <2>5. QED
    BY <2>3, <2>4 DEF FewRepeats
<1>8. ASSUME NEW a \in Alerts, NEW s \in Steps
      PROVE  LeftAt(n, a, s)' = LeftAt(n, a, s) /\ (FreshAt(n, a, s)' => FreshAt(n, a, s))
  <2> DEFINE w == esc'[n]
  <2>1. /\ LeftAt(n, a, s)' = Left(w, timers[a][s], a, s)
        /\ FreshAt(n, a, s)' <=> Fresh(w, timers[a][s], a, s)
    BY <1>1 DEF LeftAt, FreshAt, Left, Fresh, Firing, Has, CopyIn, Total, IsOf
  <2>2. w.pc = "idle" /\ w.due = Due /\ Distinct(w)
    BY <1>2, <1>5 DEF Distinct
  <2> HIDE DEF w
  <2>3. ~Firing(w, a, s) /\ ~Firing(esc[n], a, s) /\ ~Has(esc[n], a, s)
    BY <1>1, <2>2 DEF Firing, Has
  <2>4. /\ LeftAt(n, a, s) = IF timers[a][s].done THEN 0 ELSE Total(s) - timers[a][s].repeats
        /\ FreshAt(n, a, s) <=> ~timers[a][s].done /\ timers[a][s].repeats = 0
    BY <2>3 DEF LeftAt, FreshAt, Left, Fresh
  <2>5. CASE Has(w, a, s)
    <3>1. PICK t \in Due : IsOf(t, a, s)
      BY <2>2, <2>5 DEF Has
    <3>2. Pending(a, s) /\ t.repeats = timers[a][s].repeats /\ t.alert = a /\ t.step = s
      BY <3>1, <1>3, <1>4 DEF IsOf
    <3>3. CopyIn(w, a, s) = t
      BY <2>2, <3>1, <3>2, CopyIs
    <3>4. /\ Left(w, timers[a][s], a, s) = Total(s) - t.repeats
          /\ Fresh(w, timers[a][s], a, s) <=> t.repeats = 0
      BY <2>3, <2>5, <3>3 DEF Left, Fresh
    <3>5. LeftAt(n, a, s)' = LeftAt(n, a, s)
      BY <2>1, <2>4, <3>2, <3>4 DEF Pending
    <3>6. FreshAt(n, a, s)' => FreshAt(n, a, s)
      BY <2>1, <2>4, <3>2, <3>4 DEF Pending
    <3>7. QED
      BY <3>5, <3>6
  <2>6. CASE ~Has(w, a, s)
    <3>1. /\ Left(w, timers[a][s], a, s) = IF timers[a][s].done THEN 0 ELSE Total(s) - timers[a][s].repeats
          /\ Fresh(w, timers[a][s], a, s) <=> ~timers[a][s].done /\ timers[a][s].repeats = 0
      BY <2>3, <2>6 DEF Left, Fresh
    <3>2. LeftAt(n, a, s)' = LeftAt(n, a, s)
      BY <2>1, <2>4, <3>1
    <3>3. FreshAt(n, a, s)' => FreshAt(n, a, s)
      BY <2>1, <2>4, <3>1
    <3>4. QED
      BY <3>2, <3>3
  <2>7. QED
    BY <2>5, <2>6
<1>9. \A a \in Alerts, s \in Steps :
         /\ fired'[a][s] + LeftAt(n, a, s)' <= fired[a][s] + LeftAt(n, a, s)
         /\ FreshAt(n, a, s)' => FreshAt(n, a, s)
  <2>1. ASSUME NEW a \in Alerts, NEW s \in Steps
        PROVE  fired'[a][s] + LeftAt(n, a, s)' <= fired[a][s] + LeftAt(n, a, s)
    <3>1. fired[a][s] \in Nat /\ fired'[a][s] = fired[a][s] /\ LeftAt(n, a, s)' = LeftAt(n, a, s)
      BY <1>1, <1>8 DEF TypeOK
    <3>2. LeftAt(n, a, s) \in Nat
      BY <1>7, LeftNat, TotalPositive DEF PlanInv
    <3>3. QED
      BY <3>1, <3>2
  <2>2. QED
    BY <1>8, <2>1
<1>10. QED
  BY <1>1, <1>6, <1>7, <1>9, PlanFires

LEMMA ReadPlan ==
    ASSUME TypeOK, TypeOK', NEW n \in Nodes, PlanInv(n), NEW t \in esc[n].due, FireRead(n, t)
    PROVE  PlanInv(n)'
<1>1. esc[n].pc = "idle" /\ UNCHANGED <<timers, fired, starts>>
  BY DEF FireRead, IsNext, history
<1>2. /\ esc'[n].pc \in {"notify", "done"} /\ esc'[n].cur = t
      /\ esc'[n].due = esc[n].due \ {t}
  BY DEF FireRead, TypeOK
<1>3. t \in Snapshot /\ t.alert \in Alerts /\ t.step \in Steps /\ t.repeats \in Nat
  BY WorkerAt DEF Snapshot
<1>4. Distinct(esc[n]) /\ Distinct(esc[n])' /\ FirstArms(n)'
  BY <1>2 DEF PlanInv, Distinct, FirstArms, Has, IsOf
<1>5. FewRepeats(n)'
  <2>1. Holds(n)' \subseteq Holds(n)
    BY <1>2 DEF Holds
  <2>2. QED
    BY <1>1, <2>1 DEF PlanInv, FewRepeats, Pending, Total
<1>6. /\ LeftAt(n, t.alert, t.step) = Total(t.step) - t.repeats
      /\ FreshAt(n, t.alert, t.step) <=> t.repeats = 0
  <2>1. ~Firing(esc[n], t.alert, t.step)
    BY <1>1 DEF Firing
  <2>2. Has(esc[n], t.alert, t.step) /\ CopyIn(esc[n], t.alert, t.step) = t
    BY <1>4, CopyIs
  <2>3. QED
    BY <2>1, <2>2 DEF LeftAt, FreshAt, Left, Fresh
<1>7. /\ LeftAt(n, t.alert, t.step)' \in {Total(t.step) - t.repeats, 0}
      /\ FreshAt(n, t.alert, t.step)' => t.repeats = 0
  <2> DEFINE w == esc'[n]
  <2>1. Firing(w, t.alert, t.step) /\ w.pc \in {"notify", "done"} /\ w.cur = t
    BY <1>2 DEF Firing, IsOf
  <2>2. /\ LeftAt(n, t.alert, t.step)' = Left(w, timers[t.alert][t.step], t.alert, t.step)
        /\ FreshAt(n, t.alert, t.step)' <=> Fresh(w, timers[t.alert][t.step], t.alert, t.step)
    BY <1>1 DEF LeftAt, FreshAt, Left, Fresh, Firing, Has, CopyIn, Total, IsOf
  <2> HIDE DEF w
  <2>3. QED
    BY <2>1, <2>2 DEF Left, Fresh
<1>8. ASSUME NEW a \in Alerts, NEW s \in Steps, ~IsOf(t, a, s)
      PROVE  LeftAt(n, a, s)' = LeftAt(n, a, s) /\ FreshAt(n, a, s)' = FreshAt(n, a, s)
  <2>1. ~Firing(esc[n], a, s) /\ ~Firing(esc'[n], a, s)
    BY <1>1, <1>2, <1>8 DEF Firing
  <2>2. \A u : IsOf(u, a, s) => (u \in esc[n].due <=> u \in esc'[n].due)
    BY <1>2, <1>8
  <2>3. QED
    BY <1>1, <1>4, <2>1, <2>2, OtherViews
<1>9. ASSUME NEW a \in Alerts, NEW s \in Steps
      PROVE  /\ fired'[a][s] + LeftAt(n, a, s)' <= fired[a][s] + LeftAt(n, a, s)
             /\ FreshAt(n, a, s)' => FreshAt(n, a, s)
  <2>1. fired[a][s] \in Nat /\ fired'[a][s] = fired[a][s]
    BY <1>1 DEF TypeOK
  <2>2. LeftAt(n, a, s) \in Nat /\ LeftAt(n, a, s)' \in Nat
    BY <1>5, LeftNat, TotalPositive DEF PlanInv
  <2>3. CASE IsOf(t, a, s)
    <3>1. a = t.alert /\ s = t.step
      BY <2>3 DEF IsOf
    <3>2. LeftAt(n, a, s)' = LeftAt(n, a, s) \/ LeftAt(n, a, s)' = 0
      BY <3>1, <1>6, <1>7
    <3>3. FreshAt(n, a, s)' => FreshAt(n, a, s)
      BY <3>1, <1>6, <1>7
    <3>4. QED
      BY <2>1, <2>2, <3>2, <3>3
  <2>4. CASE ~IsOf(t, a, s)
    BY <1>8, <2>1, <2>2, <2>4
  <2>5. QED
    BY <2>3, <2>4
<1>10. QED
  BY <1>1, <1>4, <1>5, <1>9, PlanFires

(* The step that is being fired, before and after the worker's next move. *)
LEMMA ViewOfFiring ==
    ASSUME TypeOK, NEW n \in Nodes, esc[n].pc # "idle"
    PROVE  LET t == esc[n].cur IN
           /\ t \in Snapshot /\ t.alert \in Alerts /\ t.step \in Steps /\ t.repeats \in Nat
           /\ esc[n] \in BusyWorker
           /\ \A a, s : Firing(esc[n], a, s) <=> IsOf(t, a, s)
           /\ esc[n].pc = "notify" =>
                 /\ LeftAt(n, t.alert, t.step) = Total(t.step) - t.repeats
                 /\ FreshAt(n, t.alert, t.step) <=> t.repeats = 0
           /\ esc[n].pc \in {"next", "own"} =>
                 /\ LeftAt(n, t.alert, t.step) = Total(t.step) - t.repeats - 1
                 /\ FreshAt(n, t.alert, t.step) <=> esc[n].pc = "next" /\ t.repeats = 0
           /\ esc[n].pc = "done" =>
                 LeftAt(n, t.alert, t.step) = 0 /\ ~FreshAt(n, t.alert, t.step)
<1> DEFINE w == esc[n]
           t == w.cur
<1>1. w \in BusyWorker
  BY DEF TypeOK, IdleWorker, BusyWorker
<1>2. t \in Snapshot /\ t.alert \in Alerts /\ t.step \in Steps /\ t.repeats \in Nat
  BY <1>1 DEF BusyWorker, Snapshot
<1>3. \A a, s : Firing(w, a, s) <=> IsOf(t, a, s)
  BY DEF Firing
<1>4. Firing(w, t.alert, t.step)
  BY <1>3 DEF IsOf
<1>5. /\ LeftAt(n, t.alert, t.step) = Left(w, timers[t.alert][t.step], t.alert, t.step)
      /\ FreshAt(n, t.alert, t.step) <=> Fresh(w, timers[t.alert][t.step], t.alert, t.step)
  BY DEF LeftAt, FreshAt
<1>6. /\ w.pc = "notify" => LeftAt(n, t.alert, t.step) = Total(t.step) - t.repeats
      /\ w.pc \in {"next", "own"} => LeftAt(n, t.alert, t.step) = Total(t.step) - t.repeats - 1
      /\ w.pc = "done" => LeftAt(n, t.alert, t.step) = 0
  BY <1>4, <1>5 DEF Left
<1>7. FreshAt(n, t.alert, t.step) <=> w.pc \in {"notify", "next"} /\ t.repeats = 0
  BY <1>4, <1>5 DEF Fresh
<1>8. QED
  BY <1>1, <1>2, <1>3, <1>6, <1>7

LEMMA NotifyPlan ==
    ASSUME TypeOK, TypeOK', NEW n \in Nodes, PlanInv(n), Notify(n)
    PROVE  PlanInv(n)'
<1>0. esc[n].pc = "notify"
  BY DEF Notify
<1>a. PICK t \in Snapshot : t = esc[n].cur
  BY <1>0, ViewOfFiring
<1> DEFINE pc == IF esc[n].acked THEN "done" ELSE IF ArmsNext(t) THEN "next" ELSE "own"
<1>1. /\ esc[n].pc = "notify" /\ UNCHANGED <<timers, starts>>
      /\ fired' = [fired EXCEPT ![t.alert][t.step] = @ + 1]
      /\ esc' = [esc EXCEPT ![n].pc = pc]
  BY <1>a DEF Notify
<1>2. t \in Snapshot /\ t.alert \in Alerts /\ t.step \in Steps /\ t.repeats \in Nat
      /\ esc[n] \in BusyWorker /\ \A a, s : Firing(esc[n], a, s) <=> IsOf(t, a, s)
  BY <1>1, <1>a, ViewOfFiring
<1>3. esc'[n].pc = pc /\ esc'[n].cur = t /\ esc'[n].due = esc[n].due
  BY <1>1, <1>2, <1>a DEF TypeOK, BusyWorker
<1>4. pc \in {"next", "own", "done"} /\ (pc = "next" => ArmsNext(t))
  OBVIOUS
<1> HIDE DEF pc
<1>5. Distinct(esc[n]) /\ Distinct(esc[n])' /\ FirstArms(n)'
  BY <1>1, <1>3, <1>4, <1>a DEF PlanInv, Distinct, FirstArms, ArmsNext, Has
<1>6. FewRepeats(n)'
  <2>1. Holds(n)' = Holds(n)
    BY <1>1, <1>3, <1>4, <1>a DEF Holds
  <2>2. QED
    BY <1>1, <2>1 DEF PlanInv, FewRepeats, Pending, Total
<1>7. LeftAt(n, t.alert, t.step) = Total(t.step) - t.repeats
      /\ (FreshAt(n, t.alert, t.step) <=> t.repeats = 0)
  BY <1>1, <1>a, ViewOfFiring
<1>8. /\ LeftAt(n, t.alert, t.step)' \in {Total(t.step) - t.repeats - 1, 0}
      /\ FreshAt(n, t.alert, t.step)' => t.repeats = 0
  <2> DEFINE w == esc'[n]
  <2>1. Firing(w, t.alert, t.step) /\ w.pc \in {"next", "own", "done"} /\ w.cur = t
    BY <1>3, <1>4 DEF Firing, IsOf
  <2>2. /\ LeftAt(n, t.alert, t.step)' = Left(w, timers[t.alert][t.step], t.alert, t.step)
        /\ FreshAt(n, t.alert, t.step)' <=> Fresh(w, timers[t.alert][t.step], t.alert, t.step)
    BY <1>1, <1>3 DEF LeftAt, FreshAt, Left, Fresh, Firing, Has, CopyIn, Total, IsOf
  <2> HIDE DEF w
  <2>3. QED
    BY <2>1, <2>2 DEF Left, Fresh
<1>9. ASSUME NEW a \in Alerts, NEW s \in Steps, ~IsOf(t, a, s)
      PROVE  LeftAt(n, a, s)' = LeftAt(n, a, s) /\ FreshAt(n, a, s)' = FreshAt(n, a, s)
  <2>1. ~Firing(esc[n], a, s) /\ ~Firing(esc'[n], a, s)
    BY <1>2, <1>3, <1>9 DEF Firing
  <2>2. QED
    BY <1>1, <1>3, <1>5, <2>1, OtherViews
<1>10. ASSUME NEW a \in Alerts, NEW s \in Steps
       PROVE  /\ fired'[a][s] + LeftAt(n, a, s)' <= fired[a][s] + LeftAt(n, a, s)
              /\ FreshAt(n, a, s)' => FreshAt(n, a, s)
  <2>1. fired[a][s] \in Nat
        /\ fired'[a][s] = IF IsOf(t, a, s) THEN fired[a][s] + 1 ELSE fired[a][s]
    BY <1>1, <1>2 DEF TypeOK, IsOf
  <2>2. LeftAt(n, a, s) \in Nat /\ LeftAt(n, a, s)' \in Nat
    BY <1>6, LeftNat, TotalPositive DEF PlanInv
  <2>3. CASE IsOf(t, a, s)
    <3>1. a = t.alert /\ s = t.step
      BY <2>3 DEF IsOf
    <3>2. t.repeats < Total(s) /\ Total(s) \in Nat
      BY <1>1, <1>a, <3>1, TotalPositive DEF PlanInv, FewRepeats, Holds
    <3>3. LeftAt(n, a, s)' + 1 <= LeftAt(n, a, s)
      BY <1>2, <3>1, <3>2, <1>7, <1>8
    <3>4. FreshAt(n, a, s)' => FreshAt(n, a, s)
      BY <3>1, <1>7, <1>8
    <3>5. QED
      BY <2>1, <2>2, <2>3, <3>3, <3>4
  <2>4. CASE ~IsOf(t, a, s)
    BY <1>9, <2>1, <2>2, <2>4
  <2>5. QED
    BY <2>3, <2>4
<1>11. QED
  BY <1>1, <1>5, <1>6, <1>10, PlanFires

(* The worker has written the row of the step it fired and goes on. *)
LEMMA OwnPlan ==
    ASSUME TypeOK, TypeOK', NEW n \in Nodes, PlanInv(n), Repeat(n) \/ MarkDone(n)
    PROVE  PlanInv(n)'
<1>0. esc[n].pc \in {"own", "done"} /\ UNCHANGED <<fired, starts>>
  BY DEF Repeat, MarkDone, history
<1>1. PICK t \in Snapshot : t = esc[n].cur
  BY <1>0, ViewOfFiring
<1>2. /\ t.alert \in Alerts /\ t.step \in Steps /\ t.repeats \in Nat
      /\ \A a, s : Firing(esc[n], a, s) <=> IsOf(t, a, s)
  BY <1>0, <1>1, ViewOfFiring
<1>3. PICK row \in Rows :
        /\ timers' = [timers EXCEPT ![t.alert][t.step] = row]
        /\ row.done \/ (esc[n].pc = "own" /\ row.repeats = t.repeats + 1 /\ row.repeats < Total(t.step))
  <2>1. CASE Repeat(n)
    <3> DEFINE row == Row(t.repeats + 1, now + Policy[t.step].repeatEvery)
    <3>1. timers' = [timers EXCEPT ![t.alert][t.step] = row] /\ Repeats(t) /\ esc[n].pc = "own"
      BY <1>1, <2>1 DEF Repeat
    <3>2. row \in Rows /\ row.repeats = t.repeats + 1
      BY <1>2, StepFields DEF Row, Rows, TypeOK
    <3>3. t.repeats + 1 < Total(t.step)
      BY <1>2, <3>1, StepFields DEF Repeats, Total
    <3> HIDE DEF row
    <3>4. QED
      BY <3>1, <3>2, <3>3
  <2>2. CASE MarkDone(n)
    <3>1. timers' = [timers EXCEPT ![t.alert][t.step] = DoneRow]
      BY <1>1, <2>2 DEF MarkDone
    <3>2. DoneRow \in Rows /\ DoneRow.done
      BY DEF DoneRow, Rows
    <3>3. QED
      BY <3>1, <3>2
  <2>3. QED
    BY <2>1, <2>2
<1>4. esc'[n].pc = "idle" /\ esc'[n].due = esc[n].due
  BY DEF Repeat, MarkDone, NextTimer, EscIdle, TypeOK
<1>5. \A a \in Alerts, s \in Steps :
         timers'[a][s] = IF IsOf(t, a, s) THEN row ELSE timers[a][s]
  <2>1. timers'[t.alert] = [timers[t.alert] EXCEPT ![t.step] = row]
    BY <1>2, <1>3 DEF TypeOK
  <2>2. \A a \in Alerts : a # t.alert => timers'[a] = timers[a]
    BY <1>3 DEF TypeOK
  <2>3. timers[t.alert] \in [Steps -> Rows]
    BY <1>2 DEF TypeOK, Rows
  <2>4. QED
    BY <1>2, <2>1, <2>2, <2>3 DEF IsOf
<1>6. Distinct(esc[n]) /\ Distinct(esc[n])' /\ FirstArms(n)' /\ ~Has(esc[n], t.alert, t.step)
  BY <1>0, <1>1, <1>4 DEF PlanInv, Distinct, FirstArms, Has
<1>7. FewRepeats(n)'
  <2>1. Holds(n)' \subseteq Holds(n)
    BY <1>4 DEF Holds
  <2>2. ASSUME NEW a \in Alerts, NEW s \in Steps, Pending(a, s)' PROVE timers'[a][s].repeats < Total(s)
    <3>1. CASE IsOf(t, a, s)
      BY <1>3, <1>5, <2>2, <3>1 DEF Pending, IsOf
    <3>2. CASE ~IsOf(t, a, s)
      BY <1>5, <2>2, <3>2 DEF Pending, PlanInv, FewRepeats
    <3>3. QED
      BY <3>1, <3>2
  <2>3. QED
    BY <2>1, <2>2 DEF PlanInv, FewRepeats, Total
<1>8. LeftAt(n, t.alert, t.step) = IF esc[n].pc = "own" THEN Total(t.step) - t.repeats - 1 ELSE 0
  BY <1>0, <1>1, ViewOfFiring
<1>9. /\ LeftAt(n, t.alert, t.step)' = IF row.done THEN 0 ELSE Total(t.step) - t.repeats - 1
      /\ ~FreshAt(n, t.alert, t.step)'
  <2> DEFINE w == esc'[n]
  <2>1. ~Firing(w, t.alert, t.step) /\ ~Has(w, t.alert, t.step)
    BY <1>4, <1>6 DEF Firing, Has
  <2>2. timers'[t.alert][t.step] = row
    BY <1>2, <1>5 DEF IsOf
  <2>3. /\ LeftAt(n, t.alert, t.step)' = Left(w, row, t.alert, t.step)
        /\ FreshAt(n, t.alert, t.step)' <=> Fresh(w, row, t.alert, t.step)
    BY <2>2 DEF LeftAt, FreshAt, Left, Fresh, Firing, Has, CopyIn, Total, IsOf
  <2> HIDE DEF w
  <2>4. ~row.done => row.repeats = t.repeats + 1
    BY <1>3
  <2>5. LeftAt(n, t.alert, t.step)' = IF row.done THEN 0 ELSE Total(t.step) - row.repeats
    BY <2>1, <2>3 DEF Left
  <2>6. FreshAt(n, t.alert, t.step)' => ~row.done /\ row.repeats = 0
    BY <2>1, <2>3 DEF Fresh
  <2>7. QED
    BY <1>2, <2>4, <2>5, <2>6, TotalPositive
<1>10. ASSUME NEW a \in Alerts, NEW s \in Steps, ~IsOf(t, a, s)
       PROVE  LeftAt(n, a, s)' = LeftAt(n, a, s) /\ FreshAt(n, a, s)' = FreshAt(n, a, s)
  <2>1. ~Firing(esc[n], a, s) /\ ~Firing(esc'[n], a, s)
    BY <1>2, <1>4, <1>10 DEF Firing
  <2>2. timers'[a][s] = timers[a][s]
    BY <1>5, <1>10
  <2>3. QED
    BY <1>4, <1>6, <2>1, <2>2, OtherViews
<1>11. ASSUME NEW a \in Alerts, NEW s \in Steps
       PROVE  /\ fired'[a][s] + LeftAt(n, a, s)' <= fired[a][s] + LeftAt(n, a, s)
              /\ FreshAt(n, a, s)' => FreshAt(n, a, s)
  <2>1. fired[a][s] \in Nat /\ fired'[a][s] = fired[a][s]
    BY <1>0 DEF TypeOK
  <2>2. LeftAt(n, a, s) \in Nat /\ LeftAt(n, a, s)' \in Nat
    BY <1>7, LeftNat, TotalPositive DEF PlanInv
  <2>3. CASE IsOf(t, a, s)
    <3>1. a = t.alert /\ s = t.step
      BY <2>3 DEF IsOf
    <3>2. LeftAt(n, a, s)' = LeftAt(n, a, s) \/ LeftAt(n, a, s)' = 0
      BY <1>3, <3>1, <1>8, <1>9
    <3>3. ~FreshAt(n, a, s)'
      BY <3>1, <1>9
    <3>4. QED
      BY <2>1, <2>2, <3>2, <3>3
  <2>4. CASE ~IsOf(t, a, s)
    BY <1>10, <2>1, <2>2, <2>4
  <2>5. QED
    BY <2>3, <2>4
<1>12. QED
  BY <1>0, <1>6, <1>7, <1>11, PlanFires

(* An element is taken out, and perhaps another put in. *)
LEMMA Swap ==
    ASSUME NEW s \in Steps, NEW S, S \subseteq 0 .. (s - 1), NEW v \in S, NEW T, NEW u
    PROVE  /\ T \subseteq S \ {v} => Cardinality(T) + 1 <= Cardinality(S)
           /\ T \subseteq (S \ {v}) \cup {u} => Cardinality(T) <= Cardinality(S)
<1>1. IsFiniteSet(S) /\ Cardinality(S) \in Nat
  BY EarlierFinite
<1>2. IsFiniteSet(S \ {v}) /\ Cardinality(S \ {v}) = Cardinality(S) - 1
  BY <1>1, FS_RemoveElement
<1>3. /\ IsFiniteSet((S \ {v}) \cup {u})
      /\ Cardinality((S \ {v}) \cup {u}) =
            IF u \in S \ {v} THEN Cardinality(S \ {v}) ELSE Cardinality(S \ {v}) + 1
  BY <1>2, FS_AddElement
<1>4. ASSUME T \subseteq S \ {v} PROVE Cardinality(T) + 1 <= Cardinality(S)
  <2>1. Cardinality(T) \in Nat /\ Cardinality(T) <= Cardinality(S \ {v})
    BY <1>2, <1>4, FS_Subset, FS_CardinalityType
  <2>2. QED
    BY <1>1, <1>2, <2>1
<1>5. ASSUME T \subseteq (S \ {v}) \cup {u} PROVE Cardinality(T) <= Cardinality(S)
  <2>1. Cardinality(T) \in Nat /\ Cardinality(T) <= Cardinality((S \ {v}) \cup {u})
    BY <1>3, <1>5, FS_Subset, FS_CardinalityType
  <2>2. Cardinality((S \ {v}) \cup {u}) <= Cardinality(S)
    BY <1>1, <1>2, <1>3
  <2>3. QED
    BY <1>1, <1>2, <1>3, <2>1, <2>2
<1>6. QED
  BY <1>4, <1>5

(* Arming the next step uses up the step that arms. *)
LEMMA ArmPlan ==
    ASSUME TypeOK, TypeOK', NEW n \in Nodes, PlanInv(n), ArmNext(n), ~Fault
    PROVE  PlanInv(n)'
<1>0. esc[n].pc = "next" /\ UNCHANGED <<fired, starts>>
  BY DEF ArmNext, history
<1>1. PICK t \in Snapshot : t = esc[n].cur
  BY <1>0, ViewOfFiring
<1>2. PICK b \in Alerts, v \in Steps, next \in Steps : b = t.alert /\ v = t.step /\ next = v + 1
  BY <1>0, <1>1 DEF Snapshot, PlanInv, FirstArms
<1>3. /\ t.repeats = 0 /\ esc[n] \in BusyWorker
      /\ \A a, s : Firing(esc[n], a, s) <=> a = b /\ s = v
  BY <1>0, <1>1, <1>2, ViewOfFiring DEF PlanInv, FirstArms, IsOf
<1>4. PICK row \in Rows : row.repeats = 0 /\ timers' = [timers EXCEPT ![b][next] = row]
  <2> DEFINE row == Row(0, NextAt(esc[n].cur))
  <2>1. timers' = [timers EXCEPT ![b][next] = row]
    BY <1>1, <1>2 DEF ArmNext
  <2>2. row.repeats = 0
    BY DEF Row
  <2> HIDE DEF row
  <2>3. timers'[b][next] = row
    BY <2>1 DEF TypeOK
  <2>4. row \in Rows
    BY <2>3 DEF TypeOK, Rows
  <2>5. QED
    BY <2>1, <2>2, <2>4
<1>5. esc'[n].pc = "own" /\ esc'[n].cur = t /\ esc'[n].due = esc[n].due
  BY <1>1, <1>3 DEF ArmNext, TypeOK, BusyWorker
<1>6. \A a \in Alerts, s \in Steps :
         /\ a # b \/ s # next => timers'[a][s] = timers[a][s]
         /\ timers'[a][s] = timers[a][s] \/ timers'[a][s] = row
  BY <1>4, RowWrite DEF TypeOK
<1>7. Distinct(esc[n]) /\ Distinct(esc[n])' /\ FirstArms(n)'
  BY <1>0, <1>1, <1>5 DEF PlanInv, Distinct, FirstArms, Has
<1>8. FewRepeats(n)'
  <2>1. Holds(n)' \subseteq Holds(n)
    BY <1>0, <1>1, <1>5 DEF Holds
  <2>2. ASSUME NEW a \in Alerts, NEW s \in Steps, Pending(a, s)' PROVE timers'[a][s].repeats < Total(s)
    <3>1. Total(s) \in Nat /\ Total(s) > 0
      BY TotalPositive
    <3>2. CASE timers'[a][s] = row
      BY <1>4, <3>1, <3>2
    <3>3. CASE timers'[a][s] = timers[a][s]
      BY <2>2, <3>3 DEF Pending, PlanInv, FewRepeats
    <3>4. QED
      BY <1>6, <3>2, <3>3
  <2>3. QED
    BY <2>1, <2>2 DEF PlanInv, FewRepeats, Total
<1>9. LeftAt(n, b, v) = Total(v) - t.repeats - 1 /\ FreshAt(n, b, v)
  BY <1>0, <1>1, <1>2, <1>3, ViewOfFiring
<1>10. LeftAt(n, b, v)' = Total(v) - t.repeats - 1 /\ ~FreshAt(n, b, v)'
  <2> DEFINE w == esc'[n]
             new == timers'[b][v]
  <2>1. Firing(w, b, v) /\ w.pc = "own" /\ w.cur = t
    BY <1>2, <1>5 DEF Firing, IsOf
  <2>2. LeftAt(n, b, v)' = Left(w, new, b, v) /\ (FreshAt(n, b, v)' <=> Fresh(w, new, b, v))
    BY DEF LeftAt, FreshAt, Left, Fresh, Firing, Has, CopyIn, Total, IsOf
  <2> HIDE DEF w, new
  <2>3. QED
    BY <2>1, <2>2 DEF Left, Fresh
<1>11. ASSUME NEW a \in Alerts, NEW s \in Steps, a # b \/ s \notin {v, next}
       PROVE  LeftAt(n, a, s)' = LeftAt(n, a, s) /\ FreshAt(n, a, s)' = FreshAt(n, a, s)
  <2>1. ~Firing(esc[n], a, s) /\ ~Firing(esc'[n], a, s)
    BY <1>2, <1>3, <1>5, <1>11 DEF Firing, IsOf
  <2>2. timers'[a][s] = timers[a][s]
    BY <1>6, <1>11
  <2>3. QED
    BY <1>5, <1>7, <2>1, <2>2, OtherViews
<1>12. ASSUME NEW a \in Alerts, NEW s \in Steps PROVE Budget(n, a, s)'
  <2>1. Budget(n, a, s) /\ FewRepeats(n)
    BY DEF PlanInv
  <2>2. /\ fired[a][s] \in Nat /\ fired'[a][s] = fired[a][s]
        /\ starts[a] \in Nat /\ starts'[a] - starts[a] = 0 /\ starts'[a] = starts[a]
    BY <1>0 DEF TypeOK
  <2>3. Total(s) \in Nat /\ LeftAt(n, a, s) \in 0 .. Total(s) /\ LeftAt(n, a, s)' \in 0 .. Total(s)
    BY <1>8, <2>1, LeftNat, TotalPositive
  <2>4. CASE a # b
    <3>1. \A u \in Steps : FreshAt(n, a, u)' => FreshAt(n, a, u)
      BY <1>11, <2>4
    <3>2. fired'[a][s] + LeftAt(n, a, s)' <= fired[a][s] + LeftAt(n, a, s)
      BY <1>11, <2>2, <2>3, <2>4
    <3>3. QED
      BY <1>8, <2>1, <2>2, <3>1, <3>2, Spends
  <2>5. CASE a = b
    <3> DEFINE S == ToArm(n, a, s)
               T == ToArm(n, a, s)'
    <3>1. 0 .. (s - 1) \subseteq Steps /\ s \in Nat /\ v \in Nat
      BY StepsBetween
    <3>2. /\ S \subseteq 0 .. (s - 1) /\ T \subseteq 0 .. (s - 1)
          /\ Cardinality(S) \in Nat /\ Cardinality(T) \in Nat
      BY ArmCount
    <3>3. T \subseteq (S \ {v}) \cup {next}
      <4>1. ASSUME NEW u \in 0 .. (s - 1), FreshAt(n, a, u)', u # next
            PROVE  FreshAt(n, a, u) /\ u # v
        BY <1>10, <1>11, <2>5, <3>1, <4>1
      <4>2. QED
        BY <4>1 DEF ToArm
    <3>4. v < s => v \in S
      BY <1>9, <2>5, <3>1 DEF ToArm
    <3> HIDE DEF S, T
    <3>5. s # next => LeftAt(n, a, s)' = LeftAt(n, a, s)
      BY <1>9, <1>10, <1>11, <2>5
    <3>6. CASE s <= v
      <4>1. T \subseteq S
        BY <1>2, <3>1, <3>2, <3>3, <3>6
      <4>2. Cardinality(T) + 0 <= Cardinality(S) + (starts'[a] - starts[a])
        <5>1. Cardinality(T) <= Cardinality(S)
          BY <3>2, <4>1, EarlierFinite
        <5>2. QED
          BY <2>2, <3>2, <5>1
      <4>3. fired'[a][s] + LeftAt(n, a, s)' <= fired[a][s] + LeftAt(n, a, s) + Total(s) * 0
        BY <1>2, <2>2, <2>3, <3>1, <3>5, <3>6
      <4>4. QED
        BY <1>8, <2>1, <4>2, <4>3, Affords DEF S, T
    <3>7. CASE s = next
      <4>1. v \in S /\ T \subseteq S \ {v}
        BY <1>2, <3>1, <3>2, <3>3, <3>4, <3>7
      <4>2. Cardinality(T) + 1 <= Cardinality(S)
        BY <3>2, <4>1, Swap
      <4>3. Cardinality(T) + 1 <= Cardinality(S) + (starts'[a] - starts[a])
        BY <2>2, <3>2, <4>2
      <4>4. fired'[a][s] + LeftAt(n, a, s)' <= fired[a][s] + LeftAt(n, a, s) + Total(s) * 1
        BY <2>2, <2>3
      <4>5. QED
        BY <1>8, <2>1, <4>3, <4>4, Affords DEF S, T
    <3>8. CASE s > v /\ s # next
      <4>1. v \in S
        BY <3>4, <3>8
      <4>2. Cardinality(T) <= Cardinality(S)
        BY <3>2, <3>3, <4>1, Swap
      <4>3. Cardinality(T) + 0 <= Cardinality(S) + (starts'[a] - starts[a])
        BY <2>2, <3>2, <4>2
      <4>4. fired'[a][s] + LeftAt(n, a, s)' <= fired[a][s] + LeftAt(n, a, s) + Total(s) * 0
        BY <2>2, <2>3, <3>5, <3>8
      <4>5. QED
        BY <1>8, <2>1, <4>3, <4>4, Affords DEF S, T
    <3>9. QED
      BY <3>1, <3>6, <3>7, <3>8
  <2>6. QED
    BY <2>4, <2>5
<1>13. QED
  BY <1>7, <1>8, <1>12 DEF PlanInv

Flawless == crashes = 0 /\ faults = 0

LEMMA StepPlan ==
    ASSUME TypeOK, TypeOK', NEW n, Nodes = {n}, Flawless => PlanInv(n), [Next]_vars
    PROVE  Flawless' => PlanInv(n)'
<1> SUFFICES ASSUME Flawless' PROVE PlanInv(n)'
  OBVIOUS
<1>1. faults' = 0 /\ faults = 0 /\ ~Fault
  BY StepShape DEF Flawless, Fault, TypeOK
<1>2. crashes \in Nat /\ crashes' = 0
  BY DEF TypeOK, Flawless
<1>3. ~Crash(n)
  BY <1>2 DEF Crash
<1>4. crashes = 0
  <2>1. CASE UNCHANGED vars
    BY <1>2, <2>1 DEF vars, failures
  <2>2. CASE Next
    BY <1>2, <1>3, <2>2, KeepsCrashes
  <2>3. QED
    BY <2>1, <2>2
<1>5. PlanInv(n) /\ n \in Nodes
  BY <1>1, <1>4 DEF Flawless
<1>6. ASSUME UNCHANGED <<esc, timers, fired, starts>> PROVE PlanInv(n)'
  BY <1>5, <1>6, PlanStill
<1>7. ASSUME NEW b \in Alerts, CancelEscalations(b), UNCHANGED <<esc, fired, starts>> PROVE PlanInv(n)'
  <2>1. \A a \in Alerts, s \in Steps : timers'[a][s] = timers[a][s] \/ timers'[a][s].done
    BY <1>7 DEF CancelEscalations, TypeOK, DoneRow
  <2>2. QED
    BY <1>5, <1>7, <2>1, PlanStill
<1>8. ASSUME NEW b \in Alerts, NEW from, StartChain(b, from), UNCHANGED <<esc, fired>> PROVE PlanInv(n)'
  BY <1>5, <1>8, PlanStarts
<1>9. CASE UNCHANGED vars
  BY <1>6, <1>9 DEF vars, history
<1>10. CASE Tick \/ WakeSelects(n)
  BY <1>6, <1>10 DEF Tick, WakeSelects, history
<1>11. CASE Poll(n) \/ Fire(n)
  BY <1>1, <1>5, <1>11, PollPlan, ReadPlan, NotifyPlan, ArmPlan, OwnPlan DEF Fire
<1>12. ~Fails(n)
  BY <1>1 DEF Fails, FireReadFails, PolicyReadFails, OwnWriteFails
<1>13. ASSUME NEW b \in Alerts,
              \/ Raise(n, b) \/ Ack(n, b) \/ Snooze(n, b) \/ Resolve(n, b)
              \/ RuleOpens(n, b) \/ RuleResolves(n, b)
       PROVE  PlanInv(n)'
  BY <1>6, <1>13 DEF Raise, Ack, Snooze, Resolve, RuleOpens, RuleResolves, history
<1>14. ASSUME NEW b \in Alerts, Gate(n, b) \/ WakeFlips(n, b) \/ ReEvaluate(n, b) \/ Expire(n, b)
       PROVE  PlanInv(n)'
  BY <1>6, <1>14 DEF Gate, WakeFlips, ReEvaluate, Expire, history
<1>15. ASSUME NEW b \in Alerts, HandlerStops(n, b) \/ EngineStops(n, b) PROVE PlanInv(n)'
  BY <1>1, <1>7, <1>15 DEF HandlerStops, EngineStops, history
<1>16. ASSUME NEW b \in Alerts, HandlerStarts(n, b) \/ EngineStarts(n, b) \/ WakeStarts(n, b)
       PROVE  PlanInv(n)'
  BY <1>1, <1>8, <1>16 DEF HandlerStarts, EngineStarts, WakeStarts, history
<1>17. CASE Input(n)
  BY <1>13, <1>17 DEF Input
<1>18. ASSUME NEW b \in Alerts, Handler(n, b) \/ EngineWorks(n, b) \/ ReEvaluate(n, b) \/ Expire(n, b)
       PROVE  PlanInv(n)'
  BY <1>14, <1>15, <1>16, <1>18 DEF Handler, EngineWorks
<1>19. CASE Next
  BY <1>3, <1>10, <1>11, <1>12, <1>17, <1>18, <1>19 DEF Next
<1>20. QED
  BY <1>9, <1>19

LEMMA InitPlan ==
    ASSUME Init, NEW n \in Nodes
    PROVE  PlanInv(n)
<1>1. /\ esc[n] = EscIdle /\ TypeOK
      /\ \A a \in Alerts, s \in Steps : timers[a][s].done /\ fired[a][s] = 0 /\ starts[a] = 0
  BY InitTypes DEF Init, DoneRow
<1>2. esc[n].pc = "idle" /\ esc[n].due = {}
  BY <1>1 DEF EscIdle
<1>3. Distinct(esc[n]) /\ FirstArms(n) /\ FewRepeats(n)
  BY <1>1, <1>2 DEF Distinct, FirstArms, FewRepeats, Holds, Pending
<1>4. \A a, s : ~Firing(esc[n], a, s) /\ ~Has(esc[n], a, s)
  BY <1>2 DEF Firing, Has
<1>5. \A a \in Alerts, s \in Steps : LeftAt(n, a, s) = 0 /\ ~FreshAt(n, a, s)
  BY <1>1, <1>4 DEF LeftAt, FreshAt, Left, Fresh
<1>6. ASSUME NEW a \in Alerts, NEW s \in Steps PROVE Budget(n, a, s)
  <2>1. ToArm(n, a, s) = {}
    BY <1>5, StepsBetween DEF ToArm
  <2>2. Cardinality(ToArm(n, a, s)) = 0
    BY <2>1, FS_EmptySet
  <2>3. Total(s) \in Nat
    BY TotalPositive
  <2>4. fired[a][s] = 0 /\ starts[a] = 0 /\ LeftAt(n, a, s) = 0
    BY <1>1, <1>5
  <2>5. QED
    BY <2>2, <2>3, <2>4 DEF Budget
<1>7. QED
  BY <1>3, <1>6 DEF PlanInv

LEMMA PlanBounds ==
    ASSUME TypeOK, NEW n, Nodes = {n}, Flawless, PlanInv(n)
    PROVE  FiringsBounded
<1> SUFFICES ASSUME NEW a \in Alerts, NEW s \in Steps
             PROVE  fired[a][s] <= Total(s) * starts[a] + crashes + faults
  BY DEF FiringsBounded
<1>1. LeftAt(n, a, s) \in Nat
  <2>1. esc[n] \in Workers /\ timers[a][s] \in Rows
    BY DEF TypeOK, Workers, Rows
  <2>2. /\ ~timers[a][s].done => timers[a][s].repeats < Total(s)
        /\ \A t \in esc[n].due : t.repeats < Total(t.step)
        /\ esc[n].pc # "idle" => esc[n].cur.repeats < Total(esc[n].cur.step)
    BY DEF PlanInv, FewRepeats, Pending, Holds
  <2>3. Left(esc[n], timers[a][s], a, s) \in 0 .. Total(s)
    BY <2>1, <2>2, LeftRange
  <2>4. QED
    BY <2>3, TotalPositive DEF LeftAt
<1> DEFINE more == Total(s) * Cardinality(ToArm(n, a, s))
           most == Total(s) * starts[a]
<1>2. more \in Nat /\ most \in Nat /\ fired[a][s] \in Nat
  BY ArmCount, TotalPositive DEF TypeOK
<1>3. fired[a][s] + LeftAt(n, a, s) + more <= most
  BY DEF PlanInv, Budget
<1> HIDE DEF more, most
<1>4. fired[a][s] <= most
  BY <1>1, <1>2, <1>3
<1>5. most + crashes + faults = most
  BY <1>2 DEF Flawless
<1>6. QED
  BY <1>4, <1>5 DEF most

(* On one node on which nothing fails, a step is sent as often as the policy says,
   neither less nor more: the chain of an alert that was never snoozed does not
   get lost, and however the firings, the handlers, the waker and the engine
   interleave, no start of a chain adds more than one round of any step (fire,
   StartChain). *)
THEOREM AsPlannedUnlessFailed ==
    ASSUME NEW n, Nodes = {n}
    PROVE  Spec => [](crashes = 0 /\ faults = 0 => FiresAsPlanned)
<1>1. Init => TypeOK /\ (Flawless => PlanInv(n))
  BY InitTypes, InitPlan
<1>2. TypeOK /\ (Flawless => PlanInv(n)) /\ [Next]_vars => (TypeOK /\ (Flawless => PlanInv(n)))'
  BY StepTypes, StepPlan
<1>3. TypeOK /\ (Flawless => PlanInv(n)) /\ ChainAlive => (crashes = 0 /\ faults = 0 => FiresAsPlanned)
  BY PlanBounds DEF Flawless, FiresAsPlanned
<1>4. Spec => []ChainAlive
  BY ChainSurvives
<1>5. QED
  BY <1>1, <1>2, <1>3, <1>4, PTL DEF Spec
=============================================================================
