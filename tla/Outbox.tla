-------------------------------- MODULE Outbox --------------------------------
(***************************************************************************)
(* The outbox: durable deliveries, leased and sent by the notify workers.   *)
(*                                                                          *)
(* A delivery is a row of the table outbox (storage/queue.go).  The notify  *)
(* worker of each node (notify/notify.go: Run, deliver) reads a batch of    *)
(* due rows, leases them by pushing their next_try into the future, and     *)
(* sends them one after another; a row is deleted when its send succeeded,  *)
(* and otherwise rescheduled with a growing delay until it is dead.  A dead *)
(* row is due again when somebody replays it.                               *)
(*                                                                          *)
(* Time passes while a worker waits or sends: at most SendMax for one send, *)
(* but for a session that hangs.  The calls to the database between two     *)
(* sends take no time.  A worker may well hold its batch longer than the    *)
(* lease; the deliveries to which that happened are named in late.          *)
(***************************************************************************)
EXTENDS Integers, FiniteSets

CONSTANTS Items,        \* deliveries, each enqueued at most once
          Nodes,        \* instances of the server on one database
          Lease,        \* outboxLease
          Batch,        \* rows a worker claims at most
          SendMax,      \* longest time a send takes whose session does not hang
          MaxAttempts,  \* retryPolicy: attempts before a row is dead
          Base, Cap,    \* retryPolicy: backoff
          NoItem,       \* nothing is being sent
          MaxTime,      \* bound on the clock
          LastInput,    \* bound: rows are enqueued, alerts closed until then
          MaxReplays, MaxCrashes, MaxFaults  \* bounds

ASSUME OutboxAssumption ==
    /\ {Lease, Batch, SendMax, MaxAttempts, Base, Cap} \subseteq Nat \ {0}
    /\ {MaxTime, LastInput, MaxReplays, MaxCrashes, MaxFaults} \subseteq Nat
    /\ NoItem \notin Items /\ IsFiniteSet(Items) /\ IsFiniteSet(Nodes)

(* Evaluated by TLC: the provers know nothing of powers. *)
ASSUME PowersOfTwo == \A k \in 0 .. 12 : 2 ^ k \in Nat \ {0}

VARIABLES
    now,       \* the clock
    outbox,    \* durable: the rows
    worker,    \* the notify worker of each node
    closed,    \* deliveries whose alert is resolved or expired
    accepted,  \* history: sends that the provider accepted, per delivery
    failures,  \* history: failed tries of a delivery since it was last due anew
    excused,   \* history: sends whose outcome the row could not record, and claims
               \* of a delivery that another worker still holds
    late,      \* history: deliveries some worker still held when its lease ended
    replays, crashes, faults  \* counters

history == <<accepted, failures, excused, late>>
counters == <<replays, crashes, faults>>
vars == <<now, outbox, worker, closed, history, counters>>
-----------------------------------------------------------------------------
Row(state, attempts, nextTry) == [state |-> state, attempts |-> attempts, nextTry |-> nextTry]
NoRow == Row("none", 0, 0)
Gone == Row("gone", 0, 0)

Copy(i) == [item |-> i, attempts |-> outbox[i].attempts, nextTry |-> outbox[i].nextTry]
Copies == [item : Items, attempts : Nat, nextTry : Nat]

Idle == [pc |-> "idle", held |-> {}, cur |-> NoItem, at |-> 0, until |-> 0]

(* at is the time of the tick, and while sending the time the send began;
   until is the end of the lease. *)
TypeOK ==
    /\ now \in Nat
    /\ outbox \in [Items -> [state : {"none", "queued", "dead", "gone"},
                             attempts : Nat, nextTry : Nat]]
    /\ worker \in [Nodes -> [pc : {"idle", "claim", "next", "sending", "stalled", "done", "failed"},
                             held : SUBSET Copies, cur : Copies \cup {NoItem},
                             at : Nat, until : Nat]]
    /\ closed \subseteq Items /\ late \subseteq Items
    /\ accepted \in [Items -> Nat]
    /\ failures \in [Items -> Nat]
    /\ excused \in [Items -> Nat]
    /\ {replays, crashes, faults} \subseteq Nat

Init ==
    /\ now = 0
    /\ outbox = [i \in Items |-> NoRow]
    /\ worker = [n \in Nodes |-> Idle]
    /\ closed = {} /\ late = {}
    /\ accepted = [i \in Items |-> 0]
    /\ failures = [i \in Items |-> 0]
    /\ excused = [i \in Items |-> 0]
    /\ replays = 0 /\ crashes = 0 /\ faults = 0

Fault == faults < MaxFaults /\ faults' = faults + 1
-----------------------------------------------------------------------------
EnqueueOutbox(i) ==
    /\ now <= LastInput
    /\ outbox[i].state = "none"
    /\ outbox' = [outbox EXCEPT ![i] = Row("queued", 0, now)]
    /\ UNCHANGED <<now, worker, closed, history, counters>>

(* The alert of a delivery is resolved or expires. *)
Close(i) ==
    /\ now <= LastInput
    /\ outbox[i].state # "none" /\ i \notin closed
    /\ closed' = closed \cup {i}
    /\ UNCHANGED <<now, outbox, worker, history, counters>>

(* ReplayDeadLetter: due now, from scratch.  The moment of a replay is later
   than that of a tick which has read its rows: the claim would leave out a
   row replayed in between. *)
ReplayDeadLetter(i) ==
    /\ replays < MaxReplays
    /\ replays' = replays + 1
    /\ outbox[i].state = "dead"
    /\ \A n \in Nodes : worker[n].pc # "claim"
    /\ outbox' = [outbox EXCEPT ![i] = Row("queued", 0, now)]
    /\ failures' = [failures EXCEPT ![i] = 0]
    /\ UNCHANGED <<now, worker, closed, accepted, excused, late, crashes, faults>>
-----------------------------------------------------------------------------
(* A tick.  The due rows are read, oldest first ... *)
DueAtOnce(i) == outbox[i].state = "queued" /\ outbox[i].nextTry = now  \* mutant: missed for ever

Due(i) == outbox[i].state = "queued" /\ outbox[i].nextTry <= now

DueOutbox ==
    LET due == {i \in Items : Due(i)}
    IN  {S \in SUBSET due :
            /\ Cardinality(S) = (IF Cardinality(due) < Batch THEN Cardinality(due) ELSE Batch)
            /\ \A i \in S, j \in due \ S : outbox[i].nextTry <= outbox[j].nextTry}

ReadDue(n) ==
    /\ worker[n].pc = "idle"
    /\ \E i \in Items : Due(i)
    /\ \E S \in DueOutbox :
         worker' = [worker EXCEPT ![n] = [pc |-> "claim", held |-> {Copy(i) : i \in S},
                                          cur |-> NoItem, at |-> now, until |-> 0]]
    /\ UNCHANGED <<now, outbox, closed, history, counters>>

(* ... and those still due are leased, in one transaction.  What another worker
   still holds when it is claimed, its lease being over, may be sent twice. *)
Held(n) ==
    IF worker[n].pc \in {"idle", "claim"} THEN {}
    ELSE {c.item : c \in worker[n].held}
         \cup (IF worker[n].pc = "next" THEN {} ELSE {worker[n].cur.item})

ClaimableAlways(c, at) == outbox[c.item].state = "queued"  \* mutant: no lease is looked at

Claimable(c, at) == outbox[c.item].state = "queued" /\ outbox[c.item].nextTry <= at

ClaimOutbox(n) ==
    LET w   == worker[n]
        won == {c \in w.held : Claimable(c, w.at)}
        mine == {c.item : c \in won} IN
    /\ w.pc = "claim"
    /\ \/ /\ outbox' = [i \in Items |-> IF i \in mine THEN [outbox[i] EXCEPT !.nextTry = w.at + Lease]
                                          ELSE outbox[i]]
          /\ worker' = [worker EXCEPT ![n] =
                           IF won = {} THEN Idle
                           ELSE [w EXCEPT !.pc = "next", !.held = won, !.until = w.at + Lease]]
          /\ excused' = [i \in Items |-> IF i \in mine /\ \E m \in Nodes \ {n} : i \in Held(m)
                                           THEN excused[i] + 1 ELSE excused[i]]
          /\ UNCHANGED faults
       \/ Fault /\ worker' = [worker EXCEPT ![n] = Idle] /\ UNCHANGED <<outbox, excused>>
    /\ UNCHANGED <<now, closed, accepted, failures, late, replays, crashes>>

(* deliver: the next row of the batch.  Its alert is closed: it is dropped as
   delivered.  A lookup fails: it is retried.  Otherwise it is sent. *)
IsNext(n, c) ==
    /\ worker[n].pc = "next"
    /\ c \in worker[n].held
    /\ \A d \in worker[n].held : c.nextTry <= d.nextTry

Take(n, c, pc) ==
    LET w == worker[n] IN
    worker' = [worker EXCEPT ![n] = [w EXCEPT !.pc = pc, !.held = w.held \ {c}, !.cur = c, !.at = now]]

Deliver(n, c) ==
    /\ IsNext(n, c)
    /\ Take(n, c, IF c.item \in closed THEN "done" ELSE "sending")
    /\ UNCHANGED <<now, outbox, closed, history, counters>>

(* Mutant: a delivery whose alert cannot be read is taken for delivered. *)
LookupDrops(n, c) ==
    /\ IsNext(n, c)
    /\ Fault
    /\ Take(n, c, "done")
    /\ UNCHANGED <<now, outbox, closed, history, replays, crashes>>

LookupFails(n, c) ==
    /\ IsNext(n, c)
    /\ Fault
    /\ Take(n, c, "failed")
    /\ failures' = [failures EXCEPT ![c.item] = @ + 1]
    /\ UNCHANGED <<now, outbox, closed, accepted, excused, late, replays, crashes>>

(* The transport answers: the message was accepted; it was not; or it was and
   the answer got lost. *)
Sent(n) ==
    LET i == worker[n].cur.item IN
    /\ worker[n].pc = "sending"
    /\ worker' = [worker EXCEPT ![n].pc = "done"]
    /\ accepted' = [accepted EXCEPT ![i] = @ + 1]
    /\ UNCHANGED <<now, outbox, closed, failures, excused, late, counters>>

SendFails(n) ==
    LET i == worker[n].cur.item IN
    /\ worker[n].pc = "sending"
    /\ worker' = [worker EXCEPT ![n].pc = "failed"]
    /\ failures' = [failures EXCEPT ![i] = @ + 1]
    /\ UNCHANGED <<now, outbox, closed, accepted, excused, late, counters>>

AnswerLost(n) ==
    LET i == worker[n].cur.item IN
    /\ worker[n].pc = "sending"
    /\ Fault
    /\ worker' = [worker EXCEPT ![n].pc = "failed"]
    /\ accepted' = [accepted EXCEPT ![i] = @ + 1]
    /\ failures' = [failures EXCEPT ![i] = @ + 1]
    /\ excused' = [excused EXCEPT ![i] = @ + 1]
    /\ UNCHANGED <<now, outbox, closed, late, replays, crashes>>

(* An SMTP session has no deadline once it is dialled: it may hang for any
   time, and the worker with it. *)
Stall(n) ==
    /\ worker[n].pc = "sending"
    /\ Fault
    /\ worker' = [worker EXCEPT ![n].pc = "stalled"]
    /\ UNCHANGED <<now, outbox, closed, history, replays, crashes>>

Resume(n) ==
    /\ worker[n].pc = "stalled"
    /\ worker' = [worker EXCEPT ![n].pc = "sending"]
    /\ UNCHANGED <<now, outbox, closed, history, counters>>

(* The outcome is written by the row's id, whatever has become of the row;
   a failing write is ignored. *)
NextItem(n) ==
    worker' = [worker EXCEPT ![n] = IF @.held = {} THEN Idle
                                    ELSE [@ EXCEPT !.pc = "next", !.cur = NoItem]]

DoneElsewhere(n) ==  \* mutant: the row stays
    worker[n].pc = "done" /\ NextItem(n) /\ UNCHANGED <<now, outbox, closed, history, counters>>

OutboxDone(n) ==
    /\ worker[n].pc = "done"
    /\ outbox' = [outbox EXCEPT ![worker[n].cur.item] = Gone]
    /\ NextItem(n)
    /\ UNCHANGED <<now, closed, history, counters>>

Shift(k) == 2 ^ (IF k < 12 THEN k ELSE 12)
Delay(k) == IF Base * Shift(k) > Cap THEN Cap ELSE Base * Shift(k)
BackoffOverflows(k) == {0 - Delay(k)}  \* mutant: the shifted duration is negative
Backoff(k) == LET d == Delay(k) IN (d - d \div 10)..(d - d \div 10 + d \div 5)


IsDead(k) == k >= MaxAttempts

OutboxRetry(n) ==
    LET i == worker[n].cur.item
        k == worker[n].cur.attempts + 1 IN
    /\ worker[n].pc = "failed"
    /\ \E d \in Backoff(k) :
         outbox' = IF outbox[i].state = "gone" THEN outbox
                   ELSE [outbox EXCEPT ![i] =
                           Row(IF IsDead(k) THEN "dead" ELSE "queued", k, now + d)]
    /\ NextItem(n)
    /\ UNCHANGED <<now, closed, history, counters>>

OutcomeLost(n) ==
    /\ worker[n].pc \in {"done", "failed"}
    /\ Fault
    /\ excused' = [excused EXCEPT ![worker[n].cur.item] = @ + 1]
    /\ NextItem(n)
    /\ UNCHANGED <<now, outbox, closed, accepted, failures, late, replays, crashes>>
-----------------------------------------------------------------------------
(* A node crashes and comes back: what it leased is due when the lease ends.
   The provider may have accepted what was being sent. *)
Crash(n) ==
    LET w == worker[n] IN
    /\ crashes < MaxCrashes
    /\ crashes' = crashes + 1
    /\ worker' = [worker EXCEPT ![n] = Idle]
    /\ \/ w.pc \in {"sending", "stalled"} /\ accepted' = [accepted EXCEPT ![w.cur.item] = @ + 1]
       \/ UNCHANGED accepted
    /\ excused' = IF w.pc \in {"sending", "stalled", "done", "failed"}
                    THEN [excused EXCEPT ![w.cur.item] = @ + 1] ELSE excused
    /\ UNCHANGED <<now, outbox, closed, failures, late, replays, faults>>

Waits(n) ==
    \/ worker[n].pc \in {"idle", "stalled"}
    \/ worker[n].pc = "sending" /\ now < worker[n].at + SendMax

Tick ==
    /\ now < MaxTime
    /\ \A n \in Nodes : Waits(n)
    /\ now' = now + 1
    /\ late' = late \cup {i \in Items : \E n \in Nodes : i \in Held(n) /\ worker[n].until <= now'}
    /\ UNCHANGED <<outbox, worker, closed, accepted, failures, excused, counters>>

Input == \E i \in Items : EnqueueOutbox(i) \/ Close(i) \/ ReplayDeadLetter(i)

Works(n) ==
    \/ ReadDue(n) \/ ClaimOutbox(n)
    \/ \E c \in worker[n].held : Deliver(n, c) \/ LookupFails(n, c)
    \/ Sent(n) \/ SendFails(n) \/ AnswerLost(n)
    \/ OutboxDone(n) \/ OutboxRetry(n) \/ OutcomeLost(n)

Next ==
    \/ Tick
    \/ Input
    \/ \E n \in Nodes : Works(n) \/ Stall(n) \/ Resume(n) \/ Crash(n)

Spec == Init /\ [][Next]_vars

(* The ticker of the worker never stops, and a send that does not hang ends: an
   HTTP provider answers or times out, a session that hangs may do so for ever. *)
FairSpec == Spec /\ WF_vars(Tick) /\ \A n \in Nodes : WF_vars(Works(n))
-----------------------------------------------------------------------------
(* A delivery that one worker has claimed and not finished is not claimed by
   another, unless the lease ran out under a worker that was still busy with its
   batch (ClaimOutbox). *)
OneHolder ==
    \A m, n \in Nodes : m # n => Held(m) \cap Held(n) \subseteq late

(* The same without the exception, as the comment of ClaimOutbox has it: a claimed
   item is one "a second HA node will not pick ... up again". *)
NoSecondHolder ==
    \A m, n \in Nodes : m # n => Held(m) \cap Held(n) = {}

(* The provider gets a delivery once, and once more only for a crash, a lost
   answer, a failed write, or a claim while another worker still held it: each of
   these accounts for one duplicate. *)
DuplicatesExcused == \A i \in Items : accepted[i] <= 1 + excused[i]

(* A row is dead only after MaxAttempts failed tries since it was enqueued or
   replayed, unless a worker came late with its outcome (deliver, OutboxRetry). *)
DeadAfterMax ==
    \A i \in Items : outbox[i].state = "dead" => failures[i] >= MaxAttempts \/ i \in late

(* The same without the exception, as reliability.md has it: "A replayed item
   starts the backoff schedule from scratch". *)
FromScratch ==
    \A i \in Items : outbox[i].state = "dead" => failures[i] >= MaxAttempts

(* The rows, leases and workers implement the promise of at-least-once delivery
   (reliability.md: a restart loses nothing): a delivery disappears only when it
   was accepted or its alert was closed, and once only, whatever node, crash or
   late outcome is involved; a delivery no worker was late with is tried only
   while it is queued and comes back only by a replay. *)
Promise == INSTANCE Delivery WITH
    state <- [i \in Items |-> outbox[i].state],
    taken <- accepted, tries <- failures, moot <- closed, overdue <- late

Implements == Promise!Spec

(* Every delivery ends up delivered or dead as long as the session of some node's
   worker does not hang for ever: one worker delivers all rows of its node, and
   what it sits on comes to the others when its lease ends. *)
Settles ==
    (\E n \in Nodes : []<>(worker[n].pc # "stalled")) =>
        \A i \in Items :
            outbox[i].state = "queued" ~> \/ outbox[i].state \in {"gone", "dead"}
                                          \/ outbox[i].nextTry > MaxTime
=============================================================================
