------------------------------ MODULE Escalation ------------------------------
(***************************************************************************)
(* The life of an alert and of its escalation chain.                        *)
(*                                                                          *)
(* The alert rows (storage/alerts.go) and the step timers (table            *)
(* escalations, storage/queue.go) live in the database and survive a crash. *)
(* Four kinds of processes of every node read and write them without a      *)
(* common lock, one SQL statement at a time:                                *)
(*   - the escalation worker polls due timers and fires them                *)
(*     (escalation/escalation.go: Run, fire);                               *)
(*   - the alerting engine's goroutine opens, resolves, expires and wakes   *)
(*     alerts and starts chains (alerting/engine.go);                       *)
(*   - request handlers raise, acknowledge, snooze and resolve alerts       *)
(*     (api/alerts.go), each a write of the alert followed by StartChain    *)
(*     or StopChain.                                                        *)
(* A node's volatile state is what its processes have read and not yet      *)
(* acted on.  Every alert of the model has an escalation policy, the same   *)
(* one; an alert's identity is never reused.                                *)
(***************************************************************************)
EXTENDS Integers, FiniteSets

CONSTANTS Alerts,      \* identities of alerts, each opened at most once
          Nodes,       \* instances of the server on one database
          NSteps,      \* number of steps of the policy
          Policy,      \* the steps: after, unlessAcked, repeatEvery, maxRepeats
          NextDelay,   \* delay of a next step whose moment has passed (5 s)
          AutoClose,   \* the rule's autoCloseAfter, 0 for none
          SnoozeFor,   \* lengths a user snoozes for
          NoTimer,     \* no timer is being fired
          MaxTime,     \* bound on the clock
          LastInput,   \* bound: alerts open and users act up to this time
          MaxSnoozes,  \* bound on snoozes of an alert
          MaxCrashes,  \* bound on crashes
          MaxFaults    \* bound on failing database calls

Steps == 0..(NSteps - 1)

Step == [after : Nat, unlessAcked : BOOLEAN, repeatEvery : Nat, maxRepeats : Nat]

(* A row of the due list: a copy of a timer, as old as the poll. *)
Snapshot == [alert : Alerts, step : Steps, repeats : Nat, at : Nat]

ASSUME EscalationAssumption ==
    /\ IsFiniteSet(Nodes)
    /\ NSteps \in Nat
    /\ Policy \in [Steps -> Step]
    /\ NextDelay \in Nat
    /\ AutoClose \in Nat
    /\ SnoozeFor \subseteq Nat
    /\ NoTimer \notin Snapshot
    /\ {MaxTime, LastInput, MaxSnoozes, MaxCrashes, MaxFaults} \subseteq Nat

VARIABLES
    now,            \* the clock
    alerts,         \* durable: the alert rows
    timers,         \* durable: the escalations rows, by alert and step
    esc,            \* the escalation worker of each node
    engine,         \* the alerting engine's goroutine of each node
    suppressedOpen, \* engine memory: opened while suppressed, chain not started
    starting,       \* handlers that inserted an alert and have not started its chain
    stopping,       \* handlers that wrote an alert and have not stopped its chain
    fired,          \* history: firings that went to notify, per alert and step
    unsent,         \* history: steps whose last notification was not enqueued
    late,           \* history: firings that notified after the alert was closed
    starts,         \* history: StartChain calls that armed step 0
    snoozes, wakes, \* history: snoozes of an alert, and its wake-ups
    crashes, faults \* counters of the failures so far

history == <<fired, unsent, late, starts, snoozes, wakes>>
failures == <<crashes, faults>>
handlers == <<starting, stopping>>
vars == <<now, alerts, timers, esc, engine, suppressedOpen, handlers,
          history, failures>>
-----------------------------------------------------------------------------
NoTime == -1
Status == {"none", "open", "acked", "resolved", "expired"}
NoAlert == [status |-> "none", openedAt |-> 0, snoozedUntil |-> NoTime]

(* A done row is never read again: neither its repeats nor its time matter,
   and it is not told apart from a row that was never written. *)
DoneRow == [done |-> TRUE, repeats |-> 0, at |-> 0]
Row(repeats, at) == [done |-> FALSE, repeats |-> repeats, at |-> at]

EscIdle == [pc |-> "idle", due |-> {}, cur |-> NoTimer, acked |-> FALSE]
EngineIdle == [pc |-> "idle", work |-> {}, woken |-> {}, at |-> 0]

IdleWorker == [pc : {"idle"}, due : SUBSET Snapshot, cur : {NoTimer}, acked : {FALSE}]
BusyWorker == [pc : {"notify", "next", "own", "done"}, due : SUBSET Snapshot,
               cur : Snapshot, acked : BOOLEAN]

TypeOK ==
    /\ now \in Nat
    /\ alerts \in [Alerts -> [status : Status, openedAt : Nat, snoozedUntil : Nat \cup {NoTime}]]
    /\ timers \in [Alerts -> [Steps -> [done : BOOLEAN, repeats : Nat, at : Nat]]]
    /\ esc \in [Nodes -> IdleWorker \cup BusyWorker]
    /\ engine \in [Nodes -> [pc : {"idle", "gate", "start", "stop", "flip", "rearm"},
                             work : SUBSET Alerts, woken : SUBSET Alerts, at : Nat]]
    /\ suppressedOpen \in [Nodes -> SUBSET Alerts]
    /\ starting \in [Nodes -> SUBSET Alerts]
    /\ stopping \in [Nodes -> [Alerts -> Nat]]
    /\ fired \in [Alerts -> [Steps -> Nat]]
    /\ unsent \subseteq Alerts \X Steps
    /\ late \in [Alerts -> Nat]
    /\ starts \in [Alerts -> Nat]
    /\ snoozes \in [Alerts -> Nat]
    /\ wakes \in [Alerts -> Nat]
    /\ crashes \in Nat
    /\ faults \in Nat

Init ==
    /\ now = 0
    /\ alerts = [a \in Alerts |-> NoAlert]
    /\ timers = [a \in Alerts |-> [s \in Steps |-> DoneRow]]
    /\ esc = [n \in Nodes |-> EscIdle]
    /\ engine = [n \in Nodes |-> EngineIdle]
    /\ suppressedOpen = [n \in Nodes |-> {}]
    /\ starting = [n \in Nodes |-> {}]
    /\ stopping = [n \in Nodes |-> [a \in Alerts |-> 0]]
    /\ fired = [a \in Alerts |-> [s \in Steps |-> 0]]
    /\ unsent = {}
    /\ late = [a \in Alerts |-> 0]
    /\ starts = [a \in Alerts |-> 0]
    /\ snoozes = [a \in Alerts |-> 0]
    /\ wakes = [a \in Alerts |-> 0]
    /\ crashes = 0
    /\ faults = 0

Open(a) == alerts[a].status = "open"
Acked(a) == alerts[a].status = "acked"
Active(a) == Open(a) \/ Acked(a)
Closed(a) == alerts[a].status \in {"resolved", "expired"}
Pending(a, s) == ~timers[a][s].done

(* A database call fails: the code logs the error and goes on. *)
Fault == faults < MaxFaults /\ faults' = faults + 1
-----------------------------------------------------------------------------
(* Mutants of StartChain: a chain that starts too early, and one that arms
   every step at once. *)
StartsEarly(a, from) ==
    /\ timers' = [timers EXCEPT ![a][0] = Row(0, from + Policy[0].after - 1)]
    /\ UNCHANGED starts

ArmsEveryStep(a, from) ==
    /\ timers' = [timers EXCEPT ![a] = [s \in Steps |-> Row(0, from + Policy[s].after)]]
    /\ UNCHANGED starts

(* StartChain: step 0 at its offset from the origin; a policy without
   steps is a no-op.  StopChain: every row of the alert is done. *)
StartChain(a, from) ==
    IF NSteps = 0
      THEN UNCHANGED <<timers, starts>>
      ELSE /\ timers' = [timers EXCEPT ![a][0] = Row(0, from + Policy[0].after)]
           /\ starts' = [starts EXCEPT ![a] = @ + 1]

CancelEscalations(a) == timers' = [timers EXCEPT ![a] = [s \in Steps |-> DoneRow]]

(* UpsertAlert inserts the row of a new alert, opened now. *)
Insert(a) ==
    /\ now <= LastInput
    /\ alerts[a].status = "none"
    /\ alerts' = [alerts EXCEPT ![a] = [status |-> "open", openedAt |-> now,
                                        snoozedUntil |-> NoTime]]

SetStatus(a, status, until) ==
    alerts' = [alerts EXCEPT ![a].status = status, ![a].snoozedUntil = until]
-----------------------------------------------------------------------------
(* The escalation worker.  A poll copies the due rows; each copy is then
   fired in the order of its time, with one database call per step. *)
Copy(a, s) == [alert |-> a, step |-> s, repeats |-> timers[a][s].repeats, at |-> timers[a][s].at]

Due == {Copy(r[1], r[2]) : r \in {p \in Alerts \X Steps : /\ Pending(p[1], p[2])
                                                          /\ timers[p[1]][p[2]].at <= now}}

(* Mutant: the poll marks what it takes as done. *)
PollClaims(n) ==
    /\ esc[n].pc = "idle" /\ esc[n].due = {}
    /\ Due # {}
    /\ esc' = [esc EXCEPT ![n].due = Due]
    /\ timers' = [a \in Alerts |-> [s \in Steps |->
                    IF timers[a][s].at <= now THEN DoneRow ELSE timers[a][s]]]
    /\ UNCHANGED <<now, alerts, engine, suppressedOpen, handlers, history, failures>>

Poll(n) ==
    /\ esc[n].pc = "idle" /\ esc[n].due = {}
    /\ Due # {}
    /\ esc' = [esc EXCEPT ![n].due = Due]
    /\ UNCHANGED <<now, alerts, timers, engine, suppressedOpen, handlers, history, failures>>

IsNext(n, t) ==
    /\ esc[n].pc = "idle"
    /\ t \in esc[n].due
    /\ \A u \in esc[n].due : t.at <= u.at

(* Mutant: a closed alert is not looked at. *)
SendsUnlessAcked(t) == ~(Acked(t.alert) /\ Policy[t.step].unlessAcked)

(* The alert is read; closed: nothing is sent.  Acknowledged: a step marked
   unlessAcked is skipped.  Otherwise the step notifies. *)
Sends(t) == Active(t.alert) /\ ~(Acked(t.alert) /\ Policy[t.step].unlessAcked)

FireRead(n, t) ==
    /\ IsNext(n, t)
    /\ esc' = [esc EXCEPT ![n] = [pc |-> IF Sends(t) THEN "notify" ELSE "done",
                                  due |-> @.due \ {t}, cur |-> t, acked |-> Acked(t.alert)]]
    /\ UNCHANGED <<now, alerts, timers, engine, suppressedOpen, handlers, history, failures>>

(* The alert lookup fails: the timer stays due and is polled again. *)
FireReadFails(n, t) ==
    /\ IsNext(n, t)
    /\ Fault
    /\ esc' = [esc EXCEPT ![n].due = @ \ {t}]
    /\ UNCHANGED <<now, alerts, timers, engine, suppressedOpen, handlers, history, crashes>>

(* The policy cannot be loaded: the timer is marked done. *)
PolicyReadFails(n, t) ==
    /\ IsNext(n, t)
    /\ Active(t.alert)
    /\ Fault
    /\ esc' = [esc EXCEPT ![n] = [pc |-> "done", due |-> @.due \ {t}, cur |-> t, acked |-> FALSE]]
    /\ UNCHANGED <<now, alerts, timers, engine, suppressedOpen, handlers, history, crashes>>

(* Mutant: the last step is not armed. *)
ArmsButLast(t) == t.repeats = 0 /\ t.step + 2 \in Steps

ArmsNext(t) == t.repeats = 0 /\ t.step + 1 \in Steps
Repeats(t) == Policy[t.step].repeatEvery > 0 /\ t.repeats < Policy[t.step].maxRepeats

(* notifyStep: the deliveries of the step are enqueued; or no contact of it
   resolves; or the outbox refuses them, which is logged.  The firing goes on
   in any case. *)
Enqueue(a, s) ==
    \/ unsent' = unsent \ {<<a, s>>} /\ UNCHANGED faults
    \/ UNCHANGED <<unsent, faults>>
    \/ Fault /\ unsent' = unsent \cup {<<a, s>>}

Notify(n) ==
    LET t == esc[n].cur IN
    /\ esc[n].pc = "notify"
    /\ Enqueue(t.alert, t.step)
    /\ fired' = [fired EXCEPT ![t.alert][t.step] = @ + 1]
    /\ late' = IF Closed(t.alert) THEN [late EXCEPT ![t.alert] = @ + 1] ELSE late
    /\ esc' = [esc EXCEPT ![n].pc = IF esc[n].acked THEN "done"
                                    ELSE IF ArmsNext(t) THEN "next" ELSE "own"]
    /\ UNCHANGED <<now, alerts, timers, engine, suppressedOpen, handlers,
                   starts, snoozes, wakes, crashes>>

(* Mutant: the offset of the step that fired, not of the next. *)
AtOwnOffset(t) ==
    LET at == alerts[t.alert].openedAt + Policy[t.step].after
    IN  IF at < now THEN now + NextDelay ELSE at

(* Arm the next step at its offset from the opening, or soon. *)
NextAt(t) ==
    LET at == alerts[t.alert].openedAt + Policy[t.step + 1].after
    IN  IF at < now THEN now + NextDelay ELSE at

ArmNext(n) ==
    LET t == esc[n].cur IN
    /\ esc[n].pc = "next"
    /\ \/ /\ timers' = [timers EXCEPT ![t.alert][t.step + 1] = Row(0, NextAt(t))]
          /\ UNCHANGED faults
       \/ Fault /\ UNCHANGED timers
    /\ esc' = [esc EXCEPT ![n].pc = "own"]
    /\ UNCHANGED <<now, alerts, engine, suppressedOpen, handlers, history, crashes>>

NextTimer(n) == esc' = [esc EXCEPT ![n] = [EscIdle EXCEPT !.due = esc[n].due]]

(* The fired row itself: scheduled again while repeats are left, else done. *)
Repeat(n) ==
    LET t == esc[n].cur IN
    /\ esc[n].pc = "own" /\ Repeats(t)
    /\ timers' = [timers EXCEPT ![t.alert][t.step] =
                    Row(t.repeats + 1, now + Policy[t.step].repeatEvery)]
    /\ NextTimer(n)
    /\ UNCHANGED <<now, alerts, engine, suppressedOpen, handlers, history, failures>>

(* Mutant: the row of a closed alert is left as it is. *)
LeavesClosed(n) ==
    LET t == esc[n].cur IN
    /\ esc[n].pc = "done" \/ (esc[n].pc = "own" /\ ~Repeats(t))
    /\ timers' = IF Closed(t.alert) THEN timers
                 ELSE [timers EXCEPT ![t.alert][t.step] = DoneRow]
    /\ NextTimer(n)
    /\ UNCHANGED <<now, alerts, engine, suppressedOpen, handlers, history, failures>>

MarkDone(n) ==
    LET t == esc[n].cur IN
    /\ esc[n].pc = "done" \/ (esc[n].pc = "own" /\ ~Repeats(t))
    /\ timers' = [timers EXCEPT ![t.alert][t.step] = DoneRow]
    /\ NextTimer(n)
    /\ UNCHANGED <<now, alerts, engine, suppressedOpen, handlers, history, failures>>

(* The write of Repeat or MarkDone fails: the row stays as it is, due. *)
OwnWriteFails(n) ==
    /\ esc[n].pc \in {"own", "done"}
    /\ Fault
    /\ NextTimer(n)
    /\ UNCHANGED <<now, alerts, timers, engine, suppressedOpen, handlers, history, crashes>>
-----------------------------------------------------------------------------
(* Request handlers.  RaiseAlert inserts an alert and then starts its chain;
   acknowledging, snoozing and resolving write the alert and then stop the
   chain.  A handler that crashes between the two writes is not resumed. *)
Raise(n, a) ==
    /\ Insert(a)
    /\ starting' = [starting EXCEPT ![n] = @ \cup {a}]
    /\ UNCHANGED <<now, timers, esc, engine, suppressedOpen, stopping, history, failures>>

HandlerStarts(n, a) ==
    /\ a \in starting[n]
    /\ starting' = [starting EXCEPT ![n] = @ \ {a}]
    /\ \/ /\ StartChain(a, alerts[a].openedAt)
          /\ UNCHANGED faults
       \/ Fault /\ UNCHANGED <<timers, starts>>
    /\ UNCHANGED <<now, alerts, esc, engine, suppressedOpen, stopping,
                   fired, unsent, late, snoozes, wakes, crashes>>

WillStop(n, a) == stopping' = [stopping EXCEPT ![n][a] = @ + 1]

Ack(n, a) ==
    /\ now <= LastInput
    /\ Open(a)
    /\ SetStatus(a, "acked", NoTime)
    /\ WillStop(n, a)
    /\ UNCHANGED <<now, timers, esc, engine, suppressedOpen, starting, history, failures>>

Snooze(n, a) ==
    /\ now <= LastInput
    /\ snoozes[a] < MaxSnoozes
    /\ Active(a)
    /\ \E d \in SnoozeFor : SetStatus(a, "acked", now + d)
    /\ WillStop(n, a)
    /\ snoozes' = [snoozes EXCEPT ![a] = @ + 1]
    /\ UNCHANGED <<now, timers, esc, engine, suppressedOpen, starting,
                   fired, unsent, late, starts, wakes, failures>>

Resolve(n, a) ==
    /\ now <= LastInput
    /\ Active(a)
    /\ SetStatus(a, "resolved", NoTime)
    /\ WillStop(n, a)
    /\ UNCHANGED <<now, timers, esc, engine, suppressedOpen, starting, history, failures>>

HandlerStops(n, a) ==
    /\ stopping[n][a] > 0
    /\ stopping' = [stopping EXCEPT ![n][a] = @ - 1]
    /\ \/ CancelEscalations(a) /\ UNCHANGED faults
       \/ Fault /\ UNCHANGED timers
    /\ UNCHANGED <<now, alerts, esc, engine, suppressedOpen, starting, history, crashes>>
-----------------------------------------------------------------------------
(* The alerting engine: one goroutine per node, one thing at a time. *)
Busy(pc, a) == [EngineIdle EXCEPT !.pc = pc, !.work = {a}]

(* A rule matched: the alert is inserted, then the suppression gate decides
   whether its chain starts or waits. *)
RuleOpens(n, a) ==
    /\ engine[n] = EngineIdle
    /\ Insert(a)
    /\ engine' = [engine EXCEPT ![n] = Busy("gate", a)]
    /\ UNCHANGED <<now, timers, esc, suppressedOpen, handlers, history, failures>>

Gate(n, a) ==
    /\ engine[n] = Busy("gate", a)
    /\ \/ /\ suppressedOpen' = [suppressedOpen EXCEPT ![n] = @ \cup {a}]
          /\ engine' = [engine EXCEPT ![n] = EngineIdle]
       \/ /\ engine' = [engine EXCEPT ![n] = Busy("start", a)]
          /\ UNCHANGED suppressedOpen
    /\ UNCHANGED <<now, alerts, timers, esc, handlers, history, failures>>

(* reEvaluateSuppressed: no longer open, forgotten; still suppressed, kept;
   otherwise the chain starts. *)
ReEvaluate(n, a) ==
    /\ engine[n] = EngineIdle
    /\ a \in suppressedOpen[n]
    /\ \/ /\ ~Open(a)
          /\ suppressedOpen' = [suppressedOpen EXCEPT ![n] = @ \ {a}]
          /\ UNCHANGED engine
       \/ /\ Open(a)
          /\ engine' = [engine EXCEPT ![n] = Busy("start", a)]
          /\ UNCHANGED suppressedOpen
    /\ UNCHANGED <<now, alerts, timers, esc, handlers, history, failures>>

EngineStarts(n, a) ==
    /\ engine[n] = Busy("start", a)
    /\ engine' = [engine EXCEPT ![n] = EngineIdle]
    /\ \/ /\ StartChain(a, alerts[a].openedAt)
          /\ suppressedOpen' = [suppressedOpen EXCEPT ![n] = @ \ {a}]
          /\ UNCHANGED faults
       \/ Fault /\ UNCHANGED <<timers, starts, suppressedOpen>>
    /\ UNCHANGED <<now, alerts, esc, handlers, fired, unsent, late, snoozes, wakes, crashes>>

(* A clear event resolves the alert, then stops its chain. *)
RuleResolves(n, a) ==
    /\ now <= LastInput
    /\ engine[n] = EngineIdle
    /\ Active(a)
    /\ SetStatus(a, "resolved", NoTime)
    /\ engine' = [engine EXCEPT ![n] = Busy("stop", a)]
    /\ UNCHANGED <<now, timers, esc, suppressedOpen, handlers, history, failures>>

EngineStops(n, a) ==
    /\ engine[n] = Busy("stop", a)
    /\ engine' = [engine EXCEPT ![n] = EngineIdle]
    /\ \/ CancelEscalations(a) /\ UNCHANGED faults
       \/ Fault /\ UNCHANGED timers
    /\ UNCHANGED <<now, alerts, esc, suppressedOpen, handlers, history, crashes>>

(* autoClose: past the horizon the alert expires; its chain is not stopped
   and its snooze deadline stays in the row. *)
Expire(n, a) ==
    /\ engine[n] = EngineIdle
    /\ AutoClose > 0
    /\ Active(a)
    /\ alerts[a].openedAt < now - AutoClose
    /\ alerts' = [alerts EXCEPT ![a].status = "expired"]
    /\ UNCHANGED <<now, timers, esc, engine, suppressedOpen, handlers, history, failures>>

(* wakeSnoozed: the expired snoozes are selected, each is flipped back to
   open if it still is a snoozed alert, and the chains of those flipped are
   started with the time of the tick as their origin. *)
Expired(a) == Acked(a) /\ alerts[a].snoozedUntil # NoTime /\ alerts[a].snoozedUntil <= now

WakeSelects(n) ==
    /\ engine[n] = EngineIdle
    /\ \E a \in Alerts : Expired(a)
    /\ engine' = [engine EXCEPT ![n] = [pc |-> "flip", work |-> {a \in Alerts : Expired(a)},
                                        woken |-> {}, at |-> now]]
    /\ UNCHANGED <<now, alerts, timers, esc, suppressedOpen, handlers, history, failures>>

Flippable(a) == Acked(a) /\ alerts[a].snoozedUntil # NoTime

AfterFlip(e, a, flipped) ==
    LET work  == e.work \ {a}
        woken == IF flipped THEN e.woken \cup {a} ELSE e.woken
    IN  IF work = {} /\ woken = {}
          THEN EngineIdle
          ELSE [e EXCEPT !.pc = IF work = {} THEN "rearm" ELSE "flip",
                         !.work = work, !.woken = woken]

WakeFlips(n, a) ==
    /\ engine[n].pc = "flip" /\ a \in engine[n].work
    /\ IF Flippable(a)
         THEN \/ /\ SetStatus(a, "open", NoTime)
                 /\ wakes' = [wakes EXCEPT ![a] = @ + 1]
                 /\ engine' = [engine EXCEPT ![n] = AfterFlip(@, a, TRUE)]
                 /\ UNCHANGED faults
              \/ /\ Fault
                 /\ engine' = [engine EXCEPT ![n] = AfterFlip(@, a, FALSE)]
                 /\ UNCHANGED <<alerts, wakes>>
         ELSE /\ engine' = [engine EXCEPT ![n] = AfterFlip(@, a, FALSE)]
              /\ UNCHANGED <<alerts, wakes, faults>>
    /\ UNCHANGED <<now, timers, esc, suppressedOpen, handlers,
                   fired, unsent, late, starts, snoozes, crashes>>

AfterStart(e, a) ==
    IF e.woken = {a} THEN EngineIdle ELSE [e EXCEPT !.woken = e.woken \ {a}]

WakeStarts(n, a) ==
    /\ engine[n].pc = "rearm" /\ a \in engine[n].woken
    /\ engine' = [engine EXCEPT ![n] = AfterStart(@, a)]
    /\ \/ StartChain(a, engine[n].at) /\ UNCHANGED faults
       \/ Fault /\ UNCHANGED <<timers, starts>>
    /\ UNCHANGED <<now, alerts, esc, suppressedOpen, handlers,
                   fired, unsent, late, snoozes, wakes, crashes>>
-----------------------------------------------------------------------------
(* A node crashes and comes back: all it had read and not acted on is lost. *)
Crash(n) ==
    /\ crashes < MaxCrashes
    /\ crashes' = crashes + 1
    /\ esc' = [esc EXCEPT ![n] = EscIdle]
    /\ engine' = [engine EXCEPT ![n] = EngineIdle]
    /\ suppressedOpen' = [suppressedOpen EXCEPT ![n] = {}]
    /\ starting' = [starting EXCEPT ![n] = {}]
    /\ stopping' = [stopping EXCEPT ![n] = [a \in Alerts |-> 0]]
    /\ UNCHANGED <<now, alerts, timers, history, faults>>

Tick ==
    /\ now < MaxTime
    /\ now' = now + 1
    /\ UNCHANGED <<alerts, timers, esc, engine, suppressedOpen, handlers, history, failures>>

Fire(n) ==
    \/ \E t \in esc[n].due : FireRead(n, t)
    \/ Notify(n)
    \/ ArmNext(n)
    \/ Repeat(n)
    \/ MarkDone(n)

Fails(n) ==
    \/ \E t \in esc[n].due : FireReadFails(n, t) \/ PolicyReadFails(n, t)
    \/ OwnWriteFails(n)

Input(n) ==
    \E a \in Alerts : \/ Raise(n, a) \/ Ack(n, a) \/ Snooze(n, a) \/ Resolve(n, a)
                      \/ RuleOpens(n, a) \/ RuleResolves(n, a)

Handler(n, a) == HandlerStarts(n, a) \/ HandlerStops(n, a)

EngineWorks(n, a) ==
    \/ Gate(n, a) \/ EngineStarts(n, a) \/ EngineStops(n, a)
    \/ WakeFlips(n, a) \/ WakeStarts(n, a)

Next ==
    \/ Tick
    \/ \E n \in Nodes :
          \/ Poll(n) \/ Fire(n) \/ Fails(n) \/ Crash(n)
          \/ Input(n)
          \/ WakeSelects(n)
          \/ \E a \in Alerts : Handler(n, a) \/ EngineWorks(n, a) \/ ReEvaluate(n, a) \/ Expire(n, a)

Spec == Init /\ [][Next]_vars

(* The tickers of the workers never stop, a supervised worker is restarted,
   and a handler that is not killed runs to its end.  Nothing obliges a user
   to act, a suppression to lift or a database to fail. *)
Fairness ==
    /\ WF_vars(Tick)
    /\ \A n \in Nodes :
         /\ WF_vars(Poll(n))
         /\ WF_vars(Fire(n))
         /\ WF_vars(WakeSelects(n))
         /\ \A a \in Alerts : WF_vars(HandlerStarts(n, a)) /\ WF_vars(HandlerStops(n, a))
                              /\ WF_vars(EngineWorks(n, a))

FairSpec == Spec /\ Fairness
-----------------------------------------------------------------------------
(* No step is scheduled or has fired before its offset from the opening
   of the alert, whatever is raced, re-armed, repeated or lost
   (StartChain, fire: at = OpenedAt + After). *)
Moment(a, s) == alerts[a].openedAt + Policy[s].after

NotEarly ==
    \A a \in Alerts, s \in Steps :
        /\ Pending(a, s) => timers[a][s].at >= Moment(a, s)
        /\ fired[a][s] > 0 => now >= Moment(a, s)

(* A later step is never armed, let alone fired, for an alert whose previous
   step has not fired: nothing skips a step (fire arms the next step after
   notifyStep, whether or not that reached anybody). *)
StepsInOrder ==
    \A a \in Alerts, s \in Steps :
        /\ s + 1 \in Steps
        /\ Pending(a, s + 1) \/ fired[a][s + 1] > 0
        => fired[a][s] > 0

(* What a reader of escalation-policies.md expects on top: "If not skipped, the
   step's notifications and action are enqueued" before the chain moves on. *)
NoStepUnsent ==
    \A a \in Alerts, s \in Steps :
        s + 1 \in Steps /\ Pending(a, s + 1) => <<a, s>> \notin unsent

(* A step fires once and maxRepeats times more for each start of the
   chain; a crash or a failed write between the notification and the write of
   its row adds one (escalation.go: repeats are bounded).  This holds on one
   node as long as a step fired again does not re-arm a next one that has
   begun to repeat: re-armed, that one counts its repeats from zero. *)
Total(s) == IF Policy[s].repeatEvery > 0 THEN Policy[s].maxRepeats + 1 ELSE 1

FiringsBounded ==
    \A a \in Alerts, s \in Steps :
        fired[a][s] <= Total(s) * starts[a] + crashes + faults

(* Why both hold: the copies that the workers and the wakers hold obey them
   too, and nobody holds anything about an alert before it is opened. *)
Holds(n) == esc[n].due \cup (IF esc[n].pc = "idle" THEN {} ELSE {esc[n].cur})

CopiesInv ==
    \A n \in Nodes :
        /\ \A t \in Holds(n) :
              /\ alerts[t.alert].status # "none"
              /\ Moment(t.alert, t.step) <= t.at
              /\ t.at <= now
              /\ t.step > 0 => fired[t.alert][t.step - 1] > 0
        /\ esc[n].pc = "next" => /\ fired[esc[n].cur.alert][esc[n].cur.step] > 0
                                 /\ esc[n].cur.step + 1 \in Steps

EngineInv ==
    \A n \in Nodes :
        /\ \A a \in engine[n].work \cup engine[n].woken \cup starting[n] \cup suppressedOpen[n] :
              alerts[a].status # "none"
        /\ engine[n].pc \in {"flip", "rearm"} =>
              \A a \in engine[n].work \cup engine[n].woken : alerts[a].openedAt <= engine[n].at

FreshInv ==
    \A a \in Alerts :
        /\ alerts[a].openedAt <= now
        /\ alerts[a].status = "none" =>
              \A s \in Steps : ~Pending(a, s) /\ fired[a][s] = 0

ChainInv == CopiesInv /\ EngineInv /\ FreshInv /\ NotEarly /\ StepsInOrder

(* A closed alert is silent: only a firing that had read the alert before it
   was closed still notifies, at most one per node (fire: resolved or
   expired alerts are marked done). *)
LateBounded == \A a \in Alerts : late[a] <= Cardinality(Nodes)

(* The chain of an open alert does not get lost: a step that has not fired as
   often as the policy says is pending, or will be armed by the first firing
   of an earlier step that is pending, as far as neither a snooze nor a failed
   write is in the way (reliability.md: restart-safe). *)
ChainAlive ==
    \A a \in Alerts, s \in Steps :
        /\ Open(a) /\ snoozes[a] = 0 /\ faults = 0
        /\ starts[a] > 0 /\ fired[a][s] < Total(s)
        => \/ Pending(a, s)
           \/ \E u \in 0..(s - 1) : Pending(a, u) /\ timers[a][u].repeats = 0

(* A step fires as often as the policy says, neither less nor more (fire). *)
FiresAsPlanned == ChainAlive /\ FiringsBounded

(* The same for failing calls, as a comment of fire has it: "leave the timer due
   and retry next tick rather than silently abandoning the escalation chain". *)
NotAbandoned ==
    \A a \in Alerts :
        Open(a) /\ snoozes[a] = 0 /\ starts[a] > 0 /\ (\E s \in Steps : fired[a][s] = 0)
        => \E s \in Steps : Pending(a, s)

(* Wakers on several nodes re-open an alert once per snooze
   (WakeSnoozedAlerts: concurrent wakers cannot double-fire a chain). *)
WakesBounded == \A a \in Alerts : wakes[a] <= snoozes[a]

(* What may happen twice when nodes race stays bounded: the firings after a
   close and the wake-ups of one snooze. *)
RacesBounded == LateBounded /\ WakesBounded

(* Every open alert has a chain, or somebody is about to start it (engine.go
   open: "refreshed existing alert; chain already running"). *)
OpenHasChain ==
    \A a \in Alerts :
        Open(a) => \/ starts[a] > 0
                   \/ \E n \in Nodes : a \in starting[n] \cup suppressedOpen[n]
                                               \cup engine[n].work \cup engine[n].woken

(* A pending timer of an open alert is fired: its step has fired once more
   than it counts repeats, unless somebody takes the alert first, also
   across a crash (escalation.go: durable timers survive restarts).  A step
   fired again after a crash postpones the next one, here perhaps beyond the
   bounded clock. *)
InHorizon(a, s) == Pending(a, s) /\ timers[a][s].at <= MaxTime
Beyond(a, s) == Pending(a, s) /\ timers[a][s].at > MaxTime

TimerFires ==
    \A a \in Alerts, s \in Steps : \A r \in 0..Policy[s].maxRepeats :
        (Open(a) /\ InHorizon(a, s) /\ timers[a][s].repeats = r) ~> (fired[a][s] > r \/ ~Open(a) \/ Beyond(a, s))

(* After an acknowledgement or a close the chain dies out for good: what a
   firing still in flight arms is marked done by its next firing. *)
ChainDiesOut ==
    \A a \in Alerts :
        (Acked(a) \/ Closed(a)) ~> [](\A s \in Steps : ~InHorizon(a, s))
=============================================================================
