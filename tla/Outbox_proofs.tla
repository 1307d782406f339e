----------------------------- MODULE Outbox_proofs -----------------------------
(***************************************************************************)
(* What holds of the outbox for any number of deliveries, nodes, retries,   *)
(* crashes and failing calls, and for any lease, batch and length of sends: *)
(* the deliveries a worker held beyond its lease are named in late.         *)
(***************************************************************************)
EXTENDS Outbox, TLAPS, FiniteSetTheorems

WorkerRecords == [pc : {"idle", "claim", "next", "sending", "stalled", "done", "failed"},
                  held : SUBSET Copies, cur : Copies \cup {NoItem}, at : Nat, until : Nat]

Busy == {"sending", "stalled", "done", "failed"}

(* While a delivery is being sent or written, there is one. *)
HasCur ==
    \A n \in Nodes : worker[n].pc \in Busy => worker[n].cur \in Copies

TypeInv == TypeOK /\ HasCur

-----------------------------------------------------------------------------
(* Arithmetic.                                                             *)

LEMMA Constants ==
    /\ Lease \in Nat \ {0} /\ Batch \in Nat \ {0} /\ SendMax \in Nat \ {0}
    /\ MaxAttempts \in Nat \ {0} /\ Base \in Nat \ {0} /\ Cap \in Nat \ {0}
    /\ IsFiniteSet(Items) /\ IsFiniteSet(Nodes)
BY OutboxAssumption DEF OutboxAssumption

LEMMA Product == ASSUME NEW s \in Nat \ {0}, NEW t \in Nat \ {0} PROVE s * t \in Nat \ {0}
OBVIOUS

(* A retry is never due at once. *)
LEMMA BackoffType ==
    ASSUME NEW k \in Nat
    PROVE  \A d \in Backoff(k) : d \in Nat \ {0}
<1>1. Shift(k) \in Nat \ {0}
  <2>1. (IF k < 12 THEN k ELSE 12) \in 0 .. 12
    OBVIOUS
  <2>2. QED
    BY <2>1, PowersOfTwo DEF PowersOfTwo, Shift
<1>2. Base * Shift(k) \in Nat \ {0}
  BY <1>1, Constants, Product
<1>3. Delay(k) \in Nat \ {0}
  BY <1>2, Constants DEF Delay
<1>4. QED
  BY <1>3 DEF Backoff

-----------------------------------------------------------------------------
(* Types.                                                                  *)

LEMMA CopyType ==
    ASSUME TypeOK, NEW i \in Items
    PROVE  Copy(i) \in Copies
BY DEF TypeOK, Copy, Copies

LEMMA TypeInit == Init => TypeInv
BY DEF Init, TypeInv, TypeOK, HasCur, Busy, NoRow, Row, Idle

(* What one worker does: everything but its own record and the rows stays. *)
LEMMA WorkerTypes ==
    ASSUME TypeInv, NEW n \in Nodes, NEW w \in WorkerRecords,
           w.pc \in Busy => w.cur \in Copies,
           worker' = [worker EXCEPT ![n] = w]
    PROVE  /\ worker' \in [Nodes -> WorkerRecords]
           /\ HasCur'
BY DEF TypeInv, TypeOK, HasCur, WorkerRecords, Busy

LEMMA RowTypes ==
    ASSUME TypeOK, NEW i \in Items, NEW r \in [state : {"none", "queued", "dead", "gone"},
                                               attempts : Nat, nextTry : Nat],
           outbox' = [outbox EXCEPT ![i] = r]
    PROVE  outbox' \in [Items -> [state : {"none", "queued", "dead", "gone"},
                                  attempts : Nat, nextTry : Nat]]
BY DEF TypeOK

LEMMA Moved ==
    ASSUME NEW n \in Nodes, TypeInv
    PROVE  /\ worker[n] \in WorkerRecords
           /\ Idle \in WorkerRecords
           /\ \A c \in Copies : c.item \in Items /\ c.attempts \in Nat /\ c.nextTry \in Nat
BY DEF TypeInv, TypeOK, WorkerRecords, Idle, Copies

LEMMA CountUp ==
    ASSUME NEW f \in [Items -> Nat], NEW g, NEW i, g = [f EXCEPT ![i] = f[i] + 1]
    PROVE  g \in [Items -> Nat]
<1>1. CASE i \in Items
  BY <1>1
<1>2. CASE i \notin Items
  <2>1. \A j \in Items : g[j] = f[j]
    BY <1>2
  <2>2. g = [j \in Items |-> f[j]]
    BY <1>2
  <2>3. QED
    BY <2>2
<1>3. QED
  BY <1>1, <1>2

LEMMA NextItemTypes ==
    ASSUME TypeInv, NEW n \in Nodes, NextItem(n)
    PROVE  worker' \in [Nodes -> WorkerRecords] /\ HasCur'
<1> DEFINE w == IF worker[n].held = {} THEN Idle
                ELSE [worker[n] EXCEPT !.pc = "next", !.cur = NoItem]
<1>1. worker' = [worker EXCEPT ![n] = w]
  BY DEF NextItem, TypeInv, TypeOK
<1>2. w \in WorkerRecords /\ w.pc \in {"idle", "next"}
  BY Moved DEF WorkerRecords, Idle
<1> HIDE DEF w
<1>3. QED
  BY <1>1, <1>2, WorkerTypes DEF Busy

LEMMA TypeStep == TypeInv /\ [Next]_vars => TypeInv'
<1> SUFFICES ASSUME TypeInv, [Next]_vars PROVE TypeInv'
  OBVIOUS
<1> USE Constants DEF TypeInv
<1>1. CASE Tick
  BY <1>1 DEF Tick, TypeOK, HasCur, history, counters
<1>2. CASE Input
  <2>1. ASSUME NEW i \in Items, EnqueueOutbox(i) PROVE TypeInv'
    BY <2>1 DEF EnqueueOutbox, TypeOK, HasCur, Row, history, counters
  <2>2. ASSUME NEW i \in Items, Close(i) PROVE TypeInv'
    BY <2>2 DEF Close, TypeOK, HasCur, history, counters
  <2>3. ASSUME NEW i \in Items, ReplayDeadLetter(i) PROVE TypeInv'
    BY <2>3 DEF ReplayDeadLetter, TypeOK, HasCur, Row, history, counters
  <2>4. QED
    BY <1>2, <2>1, <2>2, <2>3 DEF Input
<1>3. ASSUME NEW n \in Nodes, Works(n) PROVE TypeInv'
  <2> USE Moved
  <2>1. CASE ReadDue(n)
    <3>1. PICK S \in DueOutbox :
            worker' = [worker EXCEPT ![n] = [pc |-> "claim", held |-> {Copy(i) : i \in S},
                                             cur |-> NoItem, at |-> now, until |-> 0]]
      BY <2>1 DEF ReadDue
    <3>2. S \subseteq Items
      BY DEF DueOutbox
    <3>3. [pc |-> "claim", held |-> {Copy(i) : i \in S}, cur |-> NoItem, at |-> now, until |-> 0] \in WorkerRecords
      BY <3>2, CopyType DEF WorkerRecords, TypeOK
    <3>4. worker' \in [Nodes -> WorkerRecords] /\ HasCur'
      BY <3>1, <3>3, WorkerTypes DEF Busy
    <3>5. QED
      BY <2>1, <3>4 DEF ReadDue, TypeOK, WorkerRecords, history, counters
  <2>2. CASE ClaimOutbox(n)
    <3> DEFINE won == {c \in worker[n].held : Claimable(c, worker[n].at)}
               mine == {c.item : c \in won}
               end == worker[n].at + Lease
    <3>1. /\ worker' = [worker EXCEPT ![n] = Idle]
             \/ worker' = [worker EXCEPT ![n] = [worker[n] EXCEPT !.pc = "next", !.held = won,
                                                                  !.until = end]]
          /\ \/ outbox' = [i \in Items |-> IF i \in mine THEN [outbox[i] EXCEPT !.nextTry = end]
                                           ELSE outbox[i]]
             \/ UNCHANGED outbox
          /\ \/ excused' = [i \in Items |-> IF i \in mine /\ \E m \in Nodes \ {n} : i \in Held(m)
                                            THEN excused[i] + 1 ELSE excused[i]]
             \/ UNCHANGED excused
          /\ faults' = faults + 1 \/ UNCHANGED faults
      BY <2>2 DEF ClaimOutbox, Fault
    <3>2. end \in Nat
      BY DEF WorkerRecords
    <3> HIDE DEF end, mine
    <3>3. [worker[n] EXCEPT !.pc = "next", !.held = won, !.until = end] \in WorkerRecords
      BY <3>2 DEF WorkerRecords
    <3>4. worker' \in [Nodes -> WorkerRecords] /\ HasCur'
      <4>1. CASE worker' = [worker EXCEPT ![n] = Idle]
        BY <4>1, WorkerTypes DEF Idle, Busy
      <4>2. CASE worker' = [worker EXCEPT ![n] = [worker[n] EXCEPT !.pc = "next", !.held = won,
                                                                   !.until = end]]
        BY <4>2, <3>3, WorkerTypes DEF WorkerRecords, Busy
      <4>3. QED
        BY <3>1, <4>1, <4>2
    <3>5. outbox' \in [Items -> [state : {"none", "queued", "dead", "gone"},
                                 attempts : Nat, nextTry : Nat]]
      BY <3>1, <3>2 DEF TypeOK
    <3>6. faults' \in Nat /\ excused' \in [Items -> Nat]
      BY <3>1 DEF TypeOK
    <3>7. UNCHANGED <<now, closed, accepted, failures, late, replays, crashes>>
      BY <2>2 DEF ClaimOutbox
    <3>8. QED
      BY <3>4, <3>5, <3>6, <3>7 DEF TypeOK, WorkerRecords
  <2>3. ASSUME NEW c \in worker[n].held, Deliver(n, c) \/ LookupFails(n, c) PROVE TypeInv'
    <3>1. PICK pc \in {"sending", "done", "failed"} : Take(n, c, pc)
      BY <2>3 DEF Deliver, LookupFails
    <3> DEFINE w == [worker[n] EXCEPT !.pc = pc, !.held = worker[n].held \ {c}, !.cur = c, !.at = now]
    <3>2. c \in Copies /\ w \in WorkerRecords
      BY DEF WorkerRecords, TypeOK
    <3>3. worker' = [worker EXCEPT ![n] = w]
      BY <3>1 DEF Take
    <3>4. worker' \in [Nodes -> WorkerRecords] /\ HasCur'
      <4>1. w.pc \in Busy => w.cur \in Copies
        BY <3>2 DEF WorkerRecords
      <4> HIDE DEF w
      <4>2. QED
        BY <3>2, <3>3, <4>1, WorkerTypes
    <3>5. /\ failures' = failures \/ failures' = [failures EXCEPT ![c.item] = @ + 1]
          /\ faults' = faults + 1 \/ UNCHANGED faults
      BY <2>3 DEF Deliver, LookupFails, history, counters, Fault
    <3>6. failures' \in [Items -> Nat] /\ faults' \in Nat
      BY <3>5 DEF TypeOK
    <3>7. UNCHANGED <<now, outbox, closed, accepted, excused, late, replays, crashes>>
      BY <2>3 DEF Deliver, LookupFails, history, counters
    <3>8. QED
      BY <3>4, <3>6, <3>7 DEF TypeOK, WorkerRecords
  <2>4. CASE Sent(n) \/ SendFails(n) \/ AnswerLost(n)
    <3>1. PICK pc \in {"done", "failed"} : worker' = [worker EXCEPT ![n].pc = pc]
      BY <2>4 DEF Sent, SendFails, AnswerLost
    <3>2. worker[n].cur \in Copies
      BY <2>4 DEF HasCur, Busy, Sent, SendFails, AnswerLost
    <3>3. worker' \in [Nodes -> WorkerRecords] /\ HasCur'
      BY <3>1, <3>2 DEF HasCur, Busy, WorkerRecords, TypeOK
    <3>4. /\ accepted' \in [Items -> Nat] /\ failures' \in [Items -> Nat]
          /\ excused' \in [Items -> Nat] /\ faults' \in Nat
      <4> DEFINE i == worker[n].cur.item
      <4>1. /\ accepted' = accepted \/ accepted' = [accepted EXCEPT ![i] = accepted[i] + 1]
            /\ failures' = failures \/ failures' = [failures EXCEPT ![i] = failures[i] + 1]
            /\ excused' = excused \/ excused' = [excused EXCEPT ![i] = excused[i] + 1]
            /\ faults' = faults \/ faults' = faults + 1
        BY <2>4 DEF Sent, SendFails, AnswerLost, counters, Fault
      <4>2. /\ accepted \in [Items -> Nat] /\ failures \in [Items -> Nat]
            /\ excused \in [Items -> Nat] /\ faults \in Nat
        BY DEF TypeOK
      <4> HIDE DEF i
      <4>3. QED
        BY <4>1, <4>2, CountUp
    <3>5. UNCHANGED <<now, outbox, closed, late, replays, crashes>>
      BY <2>4 DEF Sent, SendFails, AnswerLost, counters
    <3>6. QED
      BY <3>3, <3>4, <3>5 DEF TypeOK, WorkerRecords
  <2>5. CASE OutboxDone(n)
    <3>1. worker' \in [Nodes -> WorkerRecords] /\ HasCur'
      BY <2>5, NextItemTypes DEF OutboxDone
    <3>2. outbox' \in [Items -> [state : {"none", "queued", "dead", "gone"},
                                 attempts : Nat, nextTry : Nat]]
      BY <2>5 DEF OutboxDone, TypeOK, Gone, Row
    <3>3. QED
      BY <2>5, <3>1, <3>2 DEF OutboxDone, TypeOK, WorkerRecords, history, counters
  <2>6. CASE OutboxRetry(n)
    <3> DEFINE i == worker[n].cur.item
               k == worker[n].cur.attempts + 1
    <3>1. worker' \in [Nodes -> WorkerRecords] /\ HasCur'
      BY <2>6, NextItemTypes DEF OutboxRetry
    <3>2. worker[n].cur \in Copies
      BY <2>6 DEF HasCur, Busy, OutboxRetry
    <3>3. i \in Items /\ k \in Nat
      BY <3>2
    <3>4. PICK d \in Backoff(k) :
            outbox' = IF outbox[i].state = "gone" THEN outbox
                      ELSE [outbox EXCEPT ![i] =
                              Row(IF IsDead(k) THEN "dead" ELSE "queued", k, now + d)]
      BY <2>6 DEF OutboxRetry
    <3> HIDE DEF i, k
    <3>5. d \in Nat
      BY <3>3, BackoffType
    <3>6. Row(IF IsDead(k) THEN "dead" ELSE "queued", k, now + d)
            \in [state : {"none", "queued", "dead", "gone"}, attempts : Nat, nextTry : Nat]
      BY <3>3, <3>5 DEF Row, TypeOK
    <3>7. outbox' \in [Items -> [state : {"none", "queued", "dead", "gone"},
                                 attempts : Nat, nextTry : Nat]]
      BY <3>3, <3>4, <3>6, RowTypes DEF TypeOK
    <3>8. QED
      BY <2>6, <3>1, <3>7 DEF OutboxRetry, TypeOK, WorkerRecords, history, counters
  <2>7. CASE OutcomeLost(n)
    <3>1. worker' \in [Nodes -> WorkerRecords] /\ HasCur'
      BY <2>7, NextItemTypes DEF OutcomeLost
    <3>2. excused' \in [Items -> Nat] /\ faults' \in Nat
      <4>1. excused' = [excused EXCEPT ![worker[n].cur.item] = excused[worker[n].cur.item] + 1]
        BY <2>7 DEF OutcomeLost
      <4>2. excused' \in [Items -> Nat]
        BY <4>1, CountUp DEF TypeOK
      <4>3. QED
        BY <2>7, <4>2 DEF OutcomeLost, Fault, TypeOK
    <3>3. QED
      BY <2>7, <3>1, <3>2 DEF OutcomeLost, TypeOK, WorkerRecords
  <2>8. QED
    BY <1>3, <2>1, <2>2, <2>3, <2>4, <2>5, <2>6, <2>7 DEF Works
<1>4. ASSUME NEW n \in Nodes, Stall(n) \/ Resume(n) PROVE TypeInv'
  <2>1. PICK pc \in {"sending", "stalled"} : worker' = [worker EXCEPT ![n].pc = pc]
    BY <1>4 DEF Stall, Resume
  <2>2. worker[n].cur \in Copies /\ (faults' = faults + 1 \/ UNCHANGED faults)
    BY <1>4 DEF HasCur, Busy, Stall, Resume, Fault, counters
  <2>3. worker' \in [Nodes -> WorkerRecords] /\ HasCur'
    <3>1. worker' = [worker EXCEPT ![n] = [worker[n] EXCEPT !.pc = pc]]
      BY <2>1
    <3>2. [worker[n] EXCEPT !.pc = pc] \in WorkerRecords
      BY Moved DEF WorkerRecords
    <3>3. [worker[n] EXCEPT !.pc = pc].cur = worker[n].cur
      BY Moved DEF WorkerRecords
    <3>4. QED
      BY <2>2, <3>1, <3>2, <3>3, WorkerTypes
  <2>4. UNCHANGED <<now, outbox, closed, history, replays, crashes>>
    BY <1>4 DEF Stall, Resume, counters
  <2>5. QED
    BY <2>2, <2>3, <2>4 DEF TypeOK, WorkerRecords, history
<1>5. ASSUME NEW n \in Nodes, Crash(n) PROVE TypeInv'
  <2>1. worker' = [worker EXCEPT ![n] = Idle]
    BY <1>5 DEF Crash
  <2>2. worker' \in [Nodes -> WorkerRecords] /\ HasCur'
    BY <2>1, WorkerTypes, Moved DEF Idle, Busy
  <2> DEFINE i == worker[n].cur.item
  <2>3. /\ accepted' = accepted \/ accepted' = [accepted EXCEPT ![i] = accepted[i] + 1]
        /\ excused' = excused \/ excused' = [excused EXCEPT ![i] = excused[i] + 1]
        /\ crashes' = crashes + 1
    BY <1>5 DEF Crash
  <2>4. UNCHANGED <<now, outbox, closed, failures, late, replays, faults>>
    BY <1>5 DEF Crash
  <2>5. accepted' \in [Items -> Nat] /\ excused' \in [Items -> Nat] /\ crashes' \in Nat
    <3>1. accepted \in [Items -> Nat] /\ excused \in [Items -> Nat] /\ crashes \in Nat
      BY DEF TypeOK
    <3> HIDE DEF i
    <3>2. QED
      BY <2>3, <3>1, CountUp
  <2>6. QED
    BY <2>2, <2>4, <2>5 DEF TypeOK, WorkerRecords
<1>6. CASE UNCHANGED vars
  BY <1>6 DEF vars, history, counters, TypeOK, HasCur
<1>7. QED
  BY <1>1, <1>2, <1>3, <1>4, <1>5, <1>6 DEF Next

(* Rows, copies and counters stay of their kinds (TypeOK). *)
THEOREM TypeCorrect == Spec => []TypeOK
<1>1. TypeInv => TypeOK
  BY DEF TypeInv
<1>2. Spec => []TypeInv
  BY TypeInit, TypeStep, PTL DEF Spec
<1>3. QED
  BY <1>1, <1>2, PTL


-----------------------------------------------------------------------------
(* The lease.                                                              *)

Working(n) == worker[n].pc = "next" \/ worker[n].pc \in Busy

(* What a working node still has to finish. *)
Unfinished(n) ==
    worker[n].held \cup (IF worker[n].pc = "next" THEN {} ELSE {worker[n].cur})

(* A tick takes no time: what it has read and may still claim is as it was.   *)
Claim(n) ==
    worker[n].pc = "claim" =>
        /\ worker[n].at = now
        /\ \A c, d \in worker[n].held : c.item = d.item => c = d
        /\ \A c \in worker[n].held :
              /\ outbox[c.item].state # "none"
              /\ Claimable(c, now) => c.attempts = outbox[c.item].attempts

(* The row of a copy whose lease still runs is as it was claimed. *)
Firm(n, c) ==
    /\ outbox[c.item].state = "queued"
    /\ outbox[c.item].attempts = c.attempts
    /\ outbox[c.item].nextTry = worker[n].until
    /\ now < worker[n].until

Hold(n) ==
    Working(n) =>
        /\ \A c, d \in Unfinished(n) : c.item = d.item => c = d
        /\ worker[n].pc # "next" => worker[n].cur \notin worker[n].held
        /\ \A c \in Unfinished(n) :
              outbox[c.item].state # "none" /\ (c.item \notin late => Firm(n, c))

LeaseInv == TypeInv /\ OneHolder /\ \A n \in Nodes : Claim(n) /\ Hold(n)

LEMMA LeaseInit == Init => LeaseInv
BY TypeInit DEF Init, LeaseInv, OneHolder, Held, Claim, Hold, Working, Busy, Idle

(* What a node holds are the items of what it has not finished. *)
LEMMA HeldIs ==
    ASSUME NEW n \in Nodes, TypeOK
    PROVE  Held(n) = IF Working(n) THEN {c.item : c \in Unfinished(n)} ELSE {}
<1>1. worker[n].pc \in {"idle", "claim", "next"} \cup Busy
  BY DEF TypeOK, Busy
<1>2. CASE worker[n].pc \in {"idle", "claim"}
  BY <1>2 DEF Held, Working, Busy
<1>3. CASE worker[n].pc = "next"
  BY <1>3 DEF Held, Working, Unfinished
<1>4. CASE worker[n].pc \in Busy
  BY <1>4 DEF Held, Working, Unfinished, Busy
<1>5. QED
  BY <1>1, <1>2, <1>3, <1>4

LEMMA UnfinishedType ==
    ASSUME NEW n \in Nodes, TypeInv, Working(n)
    PROVE  Unfinished(n) \subseteq Copies
BY DEF Unfinished, TypeInv, TypeOK, HasCur, Working

(* While the lease runs nobody can claim what a node holds. *)
LEMMA NotYet ==
    ASSUME LeaseInv, NEW n \in Nodes, NEW i \in Held(n)
    PROVE  /\ i \in Items /\ outbox[i].state # "none"
           /\ i \notin late => outbox[i].state = "queued" /\ now < outbox[i].nextTry
<1>1. Working(n) /\ i \in {c.item : c \in Unfinished(n)}
  BY HeldIs DEF LeaseInv, TypeInv
<1>2. PICK c \in Unfinished(n) : i = c.item
  BY <1>1
<1>3. c \in Copies
  BY <1>1, UnfinishedType DEF LeaseInv
<1>4. QED
  BY <1>1, <1>2, <1>3 DEF LeaseInv, Hold, Firm, Copies

(* A row that a step changes is no longer to be claimed now. *)
Quiet(i) ==
    \/ outbox'[i] = outbox[i]
    \/ outbox'[i].state # "none" /\ (outbox'[i].state = "queued" => outbox'[i].nextTry > now)

(* A step of a node that takes no time, leaves alone what others hold in time    *)
(* and changes rows only as above keeps the lease of the others.               *)
LEMMA Others ==
    ASSUME LeaseInv, TypeInv', NEW m \in Nodes,
           now' = now, late' = late, worker'[m] = worker[m],
           \A i \in Held(m) \ late : outbox'[i] = outbox[i],
           \A i \in Items : Quiet(i)
    PROVE  Claim(m)' /\ Hold(m)' /\ Held(m)' = Held(m)
<1>1. Held(m)' = Held(m)
  BY DEF Held
<1>2. Claim(m)'
  <2> SUFFICES ASSUME worker[m].pc = "claim" PROVE Claim(m)'
    BY DEF Claim
  <2>1. worker[m].held \subseteq Copies
    BY DEF LeaseInv, TypeInv, TypeOK
  <2>2. Claim(m)
    BY DEF LeaseInv
  <2>3. ASSUME NEW c \in worker[m].held
        PROVE  /\ outbox'[c.item].state # "none"
               /\ (outbox'[c.item].state = "queued" /\ outbox'[c.item].nextTry <= now)
                     => c.attempts = outbox'[c.item].attempts
    <3>1. c.item \in Items
      BY <2>1 DEF Copies
    <3>2. Quiet(c.item)
      BY <3>1
    <3>3. CASE outbox'[c.item] = outbox[c.item]
      BY <3>3, <2>2 DEF Claim, Claimable
    <3>4. CASE outbox'[c.item].state # "none"
               /\ (outbox'[c.item].state = "queued" => outbox'[c.item].nextTry > now)
      <4>1. outbox'[c.item].nextTry \in Nat /\ now \in Nat
        BY <3>1 DEF TypeInv, TypeOK, LeaseInv
      <4>2. QED
        BY <3>4, <4>1
    <3>5. QED
      BY <3>2, <3>3, <3>4 DEF Quiet
  <2>4. QED
    BY <2>2, <2>3 DEF Claim, Claimable
<1>3. Hold(m)'
  <2> SUFFICES ASSUME Working(m) PROVE Hold(m)'
    BY DEF Hold, Working
  <2>1. Hold(m)
    BY DEF LeaseInv
  <2>2. Unfinished(m)' = Unfinished(m) /\ \A c \in Unfinished(m) : c.item \in Held(m) /\ c.item \in Items
    BY HeldIs, UnfinishedType DEF LeaseInv, TypeInv, Unfinished, Copies
  <2>3. ASSUME NEW c \in Unfinished(m)
        PROVE  outbox'[c.item].state # "none" /\ (c.item \notin late => Firm(m, c)')
    BY <2>1, <2>2, <2>3 DEF Hold, Firm, Quiet
  <2>4. QED
    BY <2>1, <2>2, <2>3 DEF Hold
<1>4. QED
  BY <1>1, <1>2, <1>3

(* Putting the nodes together again. *)
LEMMA Together ==
    ASSUME LeaseInv, TypeInv', NEW n \in Nodes, late' = late,
           \A m \in Nodes \ {n} : Claim(m)' /\ Hold(m)' /\ Held(m)' = Held(m),
           Claim(n)', Hold(n)',
           \A m \in Nodes \ {n} : Held(m) \cap Held(n)' \subseteq late
    PROVE  LeaseInv'
<1>1. OneHolder'
  <2> SUFFICES ASSUME NEW m1 \in Nodes, NEW m2 \in Nodes, m1 # m2
               PROVE  Held(m1)' \cap Held(m2)' \subseteq late
    BY DEF OneHolder
  <2>1. CASE m1 = n
    BY <2>1
  <2>2. CASE m2 = n
    BY <2>2
  <2>3. CASE m1 # n /\ m2 # n
    BY <2>3 DEF LeaseInv, OneHolder
  <2>4. QED
    BY <2>1, <2>2, <2>3
<1>2. QED
  BY <1>1 DEF LeaseInv

(* A step of a node that changes no row but that of what it holds. *)
LEMMA OwnRow ==
    ASSUME LeaseInv, TypeInv', NEW n \in Nodes, now' = now, late' = late,
           \A m \in Nodes \ {n} : worker'[m] = worker[m],
           \A i \in Items : outbox'[i] = outbox[i] \/ i \in Held(n),
           \A i \in Items : Quiet(i),
           Claim(n)', Hold(n)', Held(n)' \subseteq Held(n)
    PROVE  LeaseInv'
<1>1. ASSUME NEW m \in Nodes \ {n} PROVE Claim(m)' /\ Hold(m)' /\ Held(m)' = Held(m)
  <2>1. Held(m) \cap Held(n) \subseteq late
    BY DEF LeaseInv, OneHolder
  <2>2. \A i \in Held(m) \ late : outbox'[i] = outbox[i]
    BY <2>1, NotYet
  <2>3. QED
    BY <2>2, Others
<1>2. \A m \in Nodes \ {n} : Held(m) \cap Held(n)' \subseteq late
  BY DEF LeaseInv, OneHolder
<1>3. QED
  BY <1>1, <1>2, Together

(* The clock: a lease that ends makes late what is still held. *)
LEMMA LeaseTick ==
    ASSUME LeaseInv, TypeInv', Tick
    PROVE  LeaseInv'
<1>1. /\ worker' = worker /\ outbox' = outbox /\ now' = now + 1 /\ now \in Nat
      /\ late' = late \cup {i \in Items : \E n \in Nodes : i \in Held(n) /\ worker[n].until <= now'}
      /\ \A n \in Nodes : worker[n].pc # "claim" /\ worker[n].until \in Nat
  BY DEF Tick, Waits, history, LeaseInv, TypeInv, TypeOK
<1>2. \A n \in Nodes : Held(n)' = Held(n) /\ Unfinished(n)' = Unfinished(n)
  BY <1>1 DEF Held, Unfinished
<1>3. OneHolder'
  BY <1>1, <1>2 DEF LeaseInv, OneHolder
<1>4. ASSUME NEW n \in Nodes PROVE Claim(n)' /\ Hold(n)'
  <2>1. Claim(n)'
    BY <1>1 DEF Claim
  <2>2. ASSUME Working(n), NEW c \in Unfinished(n), c.item \notin late'
        PROVE  Firm(n, c)'
    <3>1. c.item \in Held(n) /\ c.item \in Items
      BY <2>2, HeldIs, UnfinishedType DEF LeaseInv, TypeInv, Copies
    <3>2. Firm(n, c)
      BY <1>1, <2>2 DEF LeaseInv, Hold
    <3>3. ~(worker[n].until <= now')
      BY <1>1, <2>2, <3>1
    <3>4. QED
      BY <1>1, <3>2, <3>3 DEF Firm
  <2>3. Hold(n)'
    BY <1>1, <1>2, <2>2 DEF LeaseInv, Hold, Working
  <2>4. QED
    BY <2>1, <2>3
<1>5. QED
  BY <1>3, <1>4 DEF LeaseInv

LEMMA LeaseInput ==
    ASSUME LeaseInv, TypeInv', NEW i \in Items,
           EnqueueOutbox(i) \/ Close(i) \/ ReplayDeadLetter(i)
    PROVE  LeaseInv'
<1> USE DEF history, counters
<1>1. now' = now /\ worker' = worker /\ late' = late
  BY DEF EnqueueOutbox, Close, ReplayDeadLetter
<1>2. \A j \in Items : j # i => outbox'[j] = outbox[j]
  BY DEF EnqueueOutbox, Close, ReplayDeadLetter, LeaseInv, TypeInv, TypeOK
<1>3. \/ outbox'[i] = outbox[i]
      \/ outbox[i].state = "none" /\ outbox'[i].state = "queued"
      \/ /\ outbox[i].state = "dead" /\ outbox'[i].state = "queued"
         /\ \A n \in Nodes : worker[n].pc # "claim"
  BY DEF EnqueueOutbox, Close, ReplayDeadLetter, LeaseInv, TypeInv, TypeOK, Row
<1>4. \A n \in Nodes : \A j \in Held(n) :
        /\ j \in Items /\ outbox'[j].state # "none"
        /\ j \notin late => outbox'[j] = outbox[j]
  BY <1>2, <1>3, NotYet
<1>5. ASSUME NEW n \in Nodes PROVE Hold(n)' /\ Held(n)' = Held(n)
  <2>1. Held(n)' = Held(n) /\ Unfinished(n)' = Unfinished(n)
    BY <1>1 DEF Held, Unfinished
  <2>2. Working(n) => \A c \in Unfinished(n) : c.item \in Held(n)
    BY HeldIs DEF LeaseInv, TypeInv
  <2>3. QED
    BY <1>1, <1>4, <2>1, <2>2 DEF LeaseInv, Hold, Firm, Working
<1>6. ASSUME NEW n \in Nodes PROVE Claim(n)'
  <2> SUFFICES ASSUME worker[n].pc = "claim" PROVE Claim(n)'
    BY <1>1 DEF Claim
  <2>1. Claim(n) /\ worker[n].held \subseteq Copies
    BY DEF LeaseInv, TypeInv, TypeOK
  <2>2. \A c \in worker[n].held : c.item \in Items /\ outbox'[c.item] = outbox[c.item]
    BY <2>1, <1>2, <1>3 DEF Claim, Copies
  <2>3. QED
    BY <2>1, <2>2, <1>1 DEF Claim, Claimable
<1>7. QED
  BY <1>1, <1>5, <1>6 DEF LeaseInv, OneHolder

(* A tick reads a batch. *)
LEMMA LeaseRead ==
    ASSUME LeaseInv, TypeInv', NEW n \in Nodes, ReadDue(n)
    PROVE  LeaseInv'
<1>1. PICK S \in DueOutbox :
        worker' = [worker EXCEPT ![n] = [pc |-> "claim", held |-> {Copy(i) : i \in S},
                                         cur |-> NoItem, at |-> now, until |-> 0]]
  BY DEF ReadDue
<1>2. S \subseteq Items /\ \A i \in S : outbox[i].state = "queued"
  BY DEF DueOutbox, Due
<1> DEFINE H == {Copy(i) : i \in S}
<1>3. /\ worker'[n].pc = "claim" /\ worker'[n].held = H /\ worker'[n].at = now
      /\ \A m \in Nodes \ {n} : worker'[m] = worker[m]
  BY <1>1 DEF LeaseInv, TypeInv, TypeOK
<1>4. now' = now /\ outbox' = outbox /\ late' = late
  BY DEF ReadDue, history
<1>5. Claim(n)'
  <2>1. \A c, d \in H : c.item = d.item => c = d
    BY DEF Copy
  <2>2. \A c \in H : outbox[c.item].state # "none" /\ c.attempts = outbox[c.item].attempts
    BY <1>2 DEF Copy
  <2> HIDE DEF H
  <2>3. QED
    BY <1>3, <1>4, <2>1, <2>2 DEF Claim
<1>6. Hold(n)' /\ Held(n)' = {}
  BY <1>3 DEF Hold, Working, Held, Busy
<1>7. QED
  BY <1>3, <1>4, <1>5, <1>6, OwnRow DEF Quiet

(* What a claim does. *)
Wins(n) == {c \in worker[n].held : Claimable(c, worker[n].at)}
WinsItems(n) == {c.item : c \in Wins(n)}

LEMMA ClaimIs ==
    ASSUME TypeInv, NEW n \in Nodes, ClaimOutbox(n)
    PROVE  /\ worker[n].pc = "claim"
           /\ UNCHANGED <<now, closed, accepted, failures, late>>
           /\ \A m \in Nodes \ {n} : worker'[m] = worker[m]
           /\ \/ /\ worker'[n] = Idle /\ outbox' = outbox /\ excused' = excused
              \/ /\ worker'[n].pc = "next" /\ worker'[n].held = Wins(n)
                 /\ worker'[n].until = worker[n].at + Lease
                 /\ \A i \in Items :
                       /\ outbox'[i].state = outbox[i].state
                       /\ outbox'[i].attempts = outbox[i].attempts
                       /\ i \in WinsItems(n) => outbox'[i].nextTry = worker[n].at + Lease
                       /\ i \notin WinsItems(n) => outbox'[i] = outbox[i]
                       /\ IF i \in WinsItems(n) /\ \E m \in Nodes \ {n} : i \in Held(m)
                            THEN excused'[i] = excused[i] + 1 ELSE excused'[i] = excused[i]
<1> DEFINE end == worker[n].at + Lease
           won == Wins(n)
           mine == WinsItems(n)
           w == [worker[n] EXCEPT !.pc = "next", !.held = won, !.until = end]
           leased == [i \in Items |-> IF i \in mine THEN [outbox[i] EXCEPT !.nextTry = end]
                                      ELSE outbox[i]]
           more == [i \in Items |-> IF i \in mine /\ \E m \in Nodes \ {n} : i \in Held(m)
                                      THEN excused[i] + 1 ELSE excused[i]]
<1>1. /\ worker[n].pc = "claim" /\ UNCHANGED <<now, closed, accepted, failures, late>>
      /\ \/ /\ outbox' = leased /\ excused' = more
            /\ worker' = [worker EXCEPT ![n] = IF won = {} THEN Idle ELSE w]
         \/ outbox' = outbox /\ excused' = excused /\ worker' = [worker EXCEPT ![n] = Idle]
  BY DEF ClaimOutbox, Wins, WinsItems
<1>2. /\ worker[n] \in WorkerRecords /\ worker = [m \in Nodes |-> worker[m]]
      /\ outbox = [i \in Items |-> outbox[i]]
      /\ excused = [i \in Items |-> excused[i]]
      /\ \A i \in Items : outbox[i] \in [state : {"none", "queued", "dead", "gone"},
                                         attempts : Nat, nextTry : Nat]
  BY Moved DEF TypeInv, TypeOK
<1> HIDE DEF end, won, mine
<1>3. w.pc = "next" /\ w.held = won /\ w.until = end
  BY <1>2 DEF WorkerRecords
<1>4. /\ \A i \in Items : /\ leased[i].state = outbox[i].state
                          /\ leased[i].attempts = outbox[i].attempts
                          /\ i \in mine => leased[i].nextTry = end
                          /\ i \notin mine => leased[i] = outbox[i]
      /\ \A i \in Items : IF i \in mine /\ \E m \in Nodes \ {n} : i \in Held(m)
                            THEN more[i] = excused[i] + 1 ELSE more[i] = excused[i]
  BY <1>2
<1>5. CASE outbox' = leased /\ excused' = more /\ won # {} /\ worker' = [worker EXCEPT ![n] = w]
  <2> HIDE DEF w, leased, more
  <2>1. worker'[n] = w /\ \A m \in Nodes \ {n} : worker'[m] = worker[m]
    BY <1>2, <1>5
  <2> QED
    BY <1>1, <1>3, <1>4, <1>5, <2>1 DEF won, mine, end
<1>6. CASE worker' = [worker EXCEPT ![n] = Idle] /\ ((outbox' = leased /\ excused' = more /\ won = {})
                                                     \/ (outbox' = outbox /\ excused' = excused))
  <2>1. worker'[n] = Idle /\ \A m \in Nodes \ {n} : worker'[m] = worker[m]
    BY <1>2, <1>6
  <2>2. won = {} => mine = {}
    BY DEF won, mine, WinsItems
  <2>3. won = {} => leased = outbox /\ more = excused
    BY <1>2, <2>2
  <2> HIDE DEF leased, more
  <2>4. QED
    BY <1>1, <1>6, <2>1, <2>3
<1>7. QED
  <2> HIDE DEF w, leased, more
  <2> QED
    BY <1>1, <1>5, <1>6

(* What a claim wins nobody holds but a worker that was late with it. *)
LEMMA LeaseClaim ==
    ASSUME LeaseInv, TypeInv', NEW n \in Nodes, ClaimOutbox(n)
    PROVE  LeaseInv'
<1>1. /\ worker[n].pc = "claim" /\ now' = now /\ late' = late /\ Held(n) = {} /\ now \in Nat
      /\ \A m \in Nodes \ {n} : worker'[m] = worker[m]
  BY ClaimIs DEF Held, LeaseInv, TypeInv, TypeOK
<1>2. /\ worker[n].at = now /\ Claim(n)
      /\ worker[n].held \subseteq Copies /\ Wins(n) \subseteq worker[n].held
  BY <1>1 DEF LeaseInv, Claim, TypeInv, TypeOK, Wins
<1>3. CASE worker'[n] = Idle /\ outbox' = outbox
  <2>1. Claim(n)' /\ Hold(n)' /\ Held(n)' = {}
    BY <1>3 DEF Claim, Hold, Working, Held, Idle, Busy
  <2>2. QED
    BY <1>1, <1>3, <2>1, OwnRow DEF Quiet
<1>4. CASE /\ worker'[n].pc = "next" /\ worker'[n].held = Wins(n)
           /\ worker'[n].until = now + Lease
           /\ \A i \in Items : /\ outbox'[i].state = outbox[i].state
                               /\ outbox'[i].attempts = outbox[i].attempts
                               /\ i \in WinsItems(n) => outbox'[i].nextTry = now + Lease
                               /\ i \notin WinsItems(n) => outbox'[i] = outbox[i]
  <2>1. \A c \in Wins(n) : /\ c.item \in Items /\ outbox[c.item].state = "queued"
                           /\ outbox[c.item].nextTry <= now
                           /\ c.attempts = outbox[c.item].attempts
                           /\ c.item \in WinsItems(n)
    BY <1>1, <1>2 DEF Claim, Claimable, Copies, Wins, WinsItems
  <2>2. \A i \in WinsItems(n) : i \in Items /\ outbox[i].state = "queued" /\ outbox[i].nextTry <= now
    BY <2>1 DEF WinsItems
  <2>3. \A i \in Items : Quiet(i)
    <3> SUFFICES ASSUME NEW i \in Items, i \in WinsItems(n) PROVE Quiet(i)
      BY <1>4 DEF Quiet
    <3>1. now + Lease > now
      BY <1>1, Constants
    <3>2. QED
      BY <1>4, <2>2, <3>1 DEF Quiet
  <2>4. ASSUME NEW m \in Nodes \ {n}, NEW i \in Held(m), i \notin late
        PROVE  i \in Items /\ i \notin WinsItems(n)
    <3>1. i \in Items /\ now < outbox[i].nextTry
      BY <2>4, NotYet
    <3>2. outbox[i].nextTry \in Nat
      BY <3>1 DEF LeaseInv, TypeInv, TypeOK
    <3>3. QED
      BY <1>1, <2>2, <3>1, <3>2
  <2>5. ASSUME NEW m \in Nodes \ {n} PROVE Claim(m)' /\ Hold(m)' /\ Held(m)' = Held(m)
    BY <1>1, <1>4, <2>3, <2>4, Others
  <2>6. Claim(n)'
    BY <1>4 DEF Claim
  <2>7. Held(n)' = WinsItems(n)
    BY <1>4 DEF Held, WinsItems
  <2>8. Hold(n)'
    <3>1. Unfinished(n)' = Wins(n)
      BY <1>4 DEF Unfinished
    <3>2. \A c, d \in Wins(n) : c.item = d.item => c = d
      BY <1>1, <1>2 DEF Claim
    <3>3. now < now + Lease
      BY <1>1, Constants
    <3>4. \A c \in Wins(n) : outbox'[c.item].state # "none" /\ Firm(n, c)'
      BY <1>1, <1>4, <2>1, <3>3 DEF Firm
    <3>5. QED
      BY <1>4, <3>1, <3>2, <3>4 DEF Hold
  <2>9. \A m \in Nodes \ {n} : Held(m) \cap Held(n)' \subseteq late
    BY <2>4, <2>7
  <2>10. QED
    BY <1>1, <2>5, <2>6, <2>8, <2>9, Together
<1>5. QED
  BY <1>2, <1>3, <1>4, ClaimIs DEF LeaseInv

(* A node goes on with the same unfinished deliveries. *)
LEMMA SameWork ==
    ASSUME LeaseInv, TypeInv', NEW n \in Nodes, Working(n), Working(n)',
           UNCHANGED <<now, late, outbox>>, Unfinished(n)' = Unfinished(n),
           worker'[n].pc # "next" => worker'[n].cur \notin worker'[n].held,
           worker'[n].until = worker[n].until,
           \A m \in Nodes \ {n} : worker'[m] = worker[m]
    PROVE  LeaseInv'
<1>1. Held(n)' = Held(n)
  <2>1. Held(n) = {c.item : c \in Unfinished(n)}
    BY HeldIs DEF LeaseInv, TypeInv
  <2>2. Held(n)' = {c.item : c \in Unfinished(n)}
    <3>1. CASE worker'[n].pc = "next"
      BY <3>1 DEF Held, Unfinished
    <3>2. CASE worker'[n].pc \in Busy
      BY <3>2 DEF Held, Unfinished, Busy
    <3>3. QED
      BY <3>1, <3>2 DEF Working
  <2>3. QED
    BY <2>1, <2>2
<1>2. Hold(n)' /\ Claim(n)'
  BY DEF LeaseInv, Hold, Firm, Claim, Working, Busy
<1>3. QED
  BY <1>1, <1>2, OwnRow DEF Quiet

(* A node takes up a delivery. *)
LEMMA Takes ==
    ASSUME TypeInv, NEW n \in Nodes, NEW c, NEW pc, Take(n, c, pc)
    PROVE  /\ worker'[n].pc = pc /\ worker'[n].cur = c /\ worker'[n].until = worker[n].until
           /\ worker'[n].held = worker[n].held \ {c}
           /\ \A m \in Nodes \ {n} : worker'[m] = worker[m]
BY DEF Take, TypeInv, TypeOK

(* A node gets an answer, or none for a while. *)
LEMMA Answered ==
    ASSUME TypeInv, NEW n \in Nodes, NEW pc, worker' = [worker EXCEPT ![n].pc = pc]
    PROVE  /\ worker'[n].pc = pc /\ worker'[n].cur = worker[n].cur
           /\ worker'[n].held = worker[n].held /\ worker'[n].until = worker[n].until
           /\ \A m \in Nodes \ {n} : worker'[m] = worker[m]
BY DEF TypeInv, TypeOK

LEMMA LeaseTake ==
    ASSUME LeaseInv, TypeInv', NEW n \in Nodes, NEW c \in worker[n].held,
           Deliver(n, c) \/ LookupFails(n, c)
    PROVE  LeaseInv'
<1>1. PICK pc \in {"sending", "done", "failed"} : Take(n, c, pc)
  BY DEF Deliver, LookupFails
<1>2. worker[n].pc = "next" /\ UNCHANGED <<now, late, outbox>>
  BY DEF Deliver, LookupFails, IsNext, history
<1>3. /\ worker'[n].pc = pc /\ worker'[n].held = worker[n].held \ {c} /\ worker'[n].cur = c
      /\ worker'[n].until = worker[n].until /\ \A m \in Nodes \ {n} : worker'[m] = worker[m]
  BY <1>1, Takes DEF LeaseInv
<1>4. Unfinished(n)' = Unfinished(n) /\ Working(n) /\ Working(n)'
  BY <1>2, <1>3 DEF Unfinished, Working, Busy
<1>5. QED
  BY <1>2, <1>3, <1>4, SameWork

LEMMA LeaseAnswer ==
    ASSUME LeaseInv, TypeInv', NEW n \in Nodes,
           Sent(n) \/ SendFails(n) \/ AnswerLost(n) \/ Stall(n) \/ Resume(n)
    PROVE  LeaseInv'
<1>1. PICK pc \in Busy : worker' = [worker EXCEPT ![n].pc = pc]
  BY DEF Sent, SendFails, AnswerLost, Stall, Resume, Busy
<1>2. worker[n].pc \in Busy /\ UNCHANGED <<now, late, outbox>>
  BY DEF Sent, SendFails, AnswerLost, Stall, Resume, Busy, history
<1>3. /\ worker'[n].pc = pc /\ worker'[n].held = worker[n].held /\ worker'[n].cur = worker[n].cur
      /\ worker'[n].until = worker[n].until /\ \A m \in Nodes \ {n} : worker'[m] = worker[m]
  BY <1>1, Answered DEF LeaseInv
<1>4. Unfinished(n)' = Unfinished(n) /\ Working(n) /\ Working(n)'
  BY <1>2, <1>3 DEF Unfinished, Working, Busy
<1>5. worker[n].cur \notin worker[n].held
  BY <1>2, <1>4 DEF LeaseInv, Hold, Busy
<1>6. QED
  BY <1>2, <1>3, <1>4, <1>5, SameWork

(* The node goes on to its next delivery, the others do nothing. *)
LEMMA GoesOn ==
    ASSUME TypeInv, NEW n \in Nodes, NextItem(n) \/ worker' = [worker EXCEPT ![n] = Idle]
    PROVE  /\ worker'[n].pc \in {"idle", "next"}
           /\ worker'[n].pc = "next" => /\ worker'[n].held = worker[n].held
                                        /\ worker'[n].until = worker[n].until
           /\ NextItem(n) /\ worker'[n].pc = "idle" => worker[n].held = {}
           /\ \A m \in Nodes \ {n} : worker'[m] = worker[m]
<1> DEFINE w == [worker[n] EXCEPT !.pc = "next", !.cur = NoItem]
<1>1. worker[n] \in WorkerRecords /\ worker = [m \in Nodes |-> worker[m]]
  BY Moved DEF TypeInv, TypeOK
<1>2. /\ w.pc = "next" /\ w.held = worker[n].held /\ w.until = worker[n].until
      /\ Idle.pc = "idle"
  BY <1>1 DEF WorkerRecords, Idle
<1>3. worker' = [worker EXCEPT ![n] = IF worker[n].held = {} THEN Idle ELSE w]
      \/ (worker' = [worker EXCEPT ![n] = Idle] /\ (NextItem(n) => worker[n].held = {}))
  BY <1>1 DEF NextItem
<1> HIDE DEF w
<1>4. QED
  BY <1>1, <1>2, <1>3

(* The outcome is written, or that fails. *)
LEMMA LeaseNext ==
    ASSUME LeaseInv, TypeInv', NEW n \in Nodes, worker[n].pc \in {"done", "failed"},
           NextItem(n), now' = now, late' = late,
           \A j \in Items : j # worker[n].cur.item => outbox'[j] = outbox[j],
           \A j \in Items : Quiet(j)
    PROVE  LeaseInv'
<1>1. \A m \in Nodes \ {n} : worker'[m] = worker[m]
  BY GoesOn DEF LeaseInv
<1>2. /\ Working(n) /\ Hold(n)
      /\ worker[n].held \subseteq Copies /\ worker[n].cur \in Copies
  BY DEF Working, Busy, LeaseInv, TypeInv, TypeOK, HasCur
<1>3. \A j \in Items : outbox'[j] = outbox[j] \/ j \in Held(n)
  BY <1>2 DEF Held
<1>4. CASE worker'[n].pc = "idle"
  <2>1. Claim(n)' /\ Hold(n)' /\ Held(n)' = {}
    BY <1>4 DEF Claim, Hold, Working, Busy, Held
  <2>2. QED
    BY <1>1, <1>3, <2>1, OwnRow
<1>5. CASE worker'[n].pc = "next"
  <2>1. worker'[n].held = worker[n].held /\ worker'[n].until = worker[n].until
    BY <1>5, GoesOn DEF LeaseInv
  <2>2. Held(n)' \subseteq Held(n)
    BY <1>5, <2>1, <1>2 DEF Held, Working
  <2>3. /\ Unfinished(n)' = worker[n].held /\ worker[n].held \subseteq Unfinished(n)
        /\ worker[n].cur \in Unfinished(n) /\ worker[n].cur \notin worker[n].held
    BY <1>2, <1>5, <2>1 DEF Unfinished, Hold
  <2>4. \A c \in worker[n].held : c.item \in Items /\ outbox'[c.item] = outbox[c.item]
    <3> TAKE c \in worker[n].held
    <3>1. c \in Copies /\ c # worker[n].cur
      BY <1>2, <2>3
    <3>2. c.item # worker[n].cur.item
      BY <3>1, <1>2, <2>3 DEF Hold
    <3>3. QED
      BY <3>1, <3>2 DEF Copies
  <2>5. Hold(n)'
    BY <1>2, <1>5, <2>1, <2>3, <2>4 DEF Hold, Firm
  <2>6. Claim(n)'
    BY <1>5 DEF Claim
  <2>7. QED
    BY <1>1, <1>3, <2>2, <2>5, <2>6, OwnRow
<1>6. QED
  BY <1>4, <1>5, GoesOn DEF LeaseInv

(* The delivery in hand. *)
LEMMA Current ==
    ASSUME LeaseInv, NEW n \in Nodes, worker[n].pc \in Busy
    PROVE  /\ worker[n].cur \in Copies /\ worker[n].cur.item \in Items
           /\ worker[n].cur.item \in Held(n)
           /\ outbox[worker[n].cur.item].state # "none"
           /\ worker[n].cur.item \notin late =>
                 /\ outbox[worker[n].cur.item].state = "queued"
                 /\ outbox[worker[n].cur.item].attempts = worker[n].cur.attempts
<1>1. worker[n].cur \in Copies /\ worker[n].cur.item \in Items
  BY DEF LeaseInv, TypeInv, HasCur, Copies
<1>2. Working(n) /\ worker[n].cur \in Unfinished(n) /\ worker[n].cur.item \in Held(n)
  BY DEF Working, Unfinished, Held, Busy
<1>3. QED
  BY <1>1, <1>2 DEF LeaseInv, Hold, Firm

(* What the outcome makes of the row. *)
LEMMA DoneIs ==
    ASSUME LeaseInv, NEW n \in Nodes, OutboxDone(n)
    PROVE  \A j \in Items : outbox'[j] = IF j = worker[n].cur.item THEN Gone ELSE outbox[j]
<1> DEFINE i == worker[n].cur.item
<1>1. worker[n].pc = "done" /\ outbox' = [outbox EXCEPT ![i] = Gone]
  BY DEF OutboxDone
<1>2. i \in Items /\ outbox = [j \in Items |-> outbox[j]]
  BY <1>1, Current DEF LeaseInv, TypeInv, TypeOK, Busy
<1> HIDE DEF i
<1>3. \A j \in Items : outbox'[j] = IF j = i THEN Gone ELSE outbox[j]
  BY <1>1, <1>2
<1>4. QED
  BY <1>3 DEF i

LEMMA RetryIs ==
    ASSUME LeaseInv, NEW n \in Nodes, OutboxRetry(n)
    PROVE  \E k \in Nat, d \in Nat \ {0} :
              /\ k = worker[n].cur.attempts + 1
              /\ \A j \in Items :
                    outbox'[j] = IF j = worker[n].cur.item /\ outbox[j].state # "gone"
                                   THEN Row(IF IsDead(k) THEN "dead" ELSE "queued", k, now + d)
                                   ELSE outbox[j]
<1> DEFINE i == worker[n].cur.item
           k == worker[n].cur.attempts + 1
<1>1. worker[n].pc = "failed"
  BY DEF OutboxRetry
<1>2. i \in Items /\ k \in Nat /\ outbox = [j \in Items |-> outbox[j]]
  BY <1>1, Current DEF LeaseInv, TypeInv, TypeOK, Busy, Copies
<1>3. PICK d \in Backoff(k) :
        outbox' = IF outbox[i].state = "gone" THEN outbox
                  ELSE [outbox EXCEPT ![i] = Row(IF IsDead(k) THEN "dead" ELSE "queued", k, now + d)]
  BY DEF OutboxRetry
<1>4. d \in Nat \ {0}
  BY <1>2, BackoffType
<1>5. k = worker[n].cur.attempts + 1
  OBVIOUS
<1> HIDE DEF i, k
<1>6. \A j \in Items : outbox'[j] = IF j = i /\ outbox[j].state # "gone"
                                      THEN Row(IF IsDead(k) THEN "dead" ELSE "queued", k, now + d)
                                      ELSE outbox[j]
  BY <1>2, <1>3
<1>7. QED
  BY <1>2, <1>4, <1>5, <1>6 DEF i

LEMMA LeaseDone ==
    ASSUME LeaseInv, TypeInv', NEW n \in Nodes, OutboxDone(n)
    PROVE  LeaseInv'
<1>1. worker[n].pc = "done" /\ NextItem(n) /\ now' = now /\ late' = late
  BY DEF OutboxDone, history
<1>2. \A j \in Items : (j # worker[n].cur.item => outbox'[j] = outbox[j]) /\ Quiet(j)
  BY DoneIs DEF Gone, Row, Quiet
<1>3. QED
  BY <1>1, <1>2, LeaseNext

LEMMA LeaseRetry ==
    ASSUME LeaseInv, TypeInv', NEW n \in Nodes, OutboxRetry(n)
    PROVE  LeaseInv'
<1>1. worker[n].pc = "failed" /\ NextItem(n) /\ now' = now /\ late' = late /\ now \in Nat
  BY DEF OutboxRetry, history, LeaseInv, TypeInv, TypeOK
<1>2. PICK k \in Nat, d \in Nat \ {0} :
        \A j \in Items : outbox'[j] = IF j = worker[n].cur.item /\ outbox[j].state # "gone"
                                        THEN Row(IF IsDead(k) THEN "dead" ELSE "queued", k, now + d)
                                        ELSE outbox[j]
  BY RetryIs
<1>3. now + d > now
  BY <1>1
<1>4. \A j \in Items : (j # worker[n].cur.item => outbox'[j] = outbox[j]) /\ Quiet(j)
  BY <1>2, <1>3 DEF Row, Quiet
<1>5. QED
  BY <1>1, <1>4, LeaseNext

LEMMA LeaseCrash ==
    ASSUME LeaseInv, TypeInv', NEW n \in Nodes, Crash(n)
    PROVE  LeaseInv'
<1>1. worker' = [worker EXCEPT ![n] = Idle] /\ outbox' = outbox /\ now' = now /\ late' = late
  BY DEF Crash
<1>2. worker'[n].pc = "idle" /\ \A m \in Nodes \ {n} : worker'[m] = worker[m]
  BY <1>1 DEF LeaseInv, TypeInv, TypeOK, Idle
<1>3. Claim(n)' /\ Hold(n)' /\ Held(n)' = {}
  BY <1>2 DEF Claim, Hold, Working, Busy, Held
<1>4. QED
  BY <1>1, <1>2, <1>3, OwnRow DEF Quiet

LEMMA LeaseStep == LeaseInv /\ [Next]_vars => LeaseInv'
<1> SUFFICES ASSUME LeaseInv, [Next]_vars PROVE LeaseInv'
  OBVIOUS
<1>1. TypeInv'
  BY TypeStep DEF LeaseInv
<1>2. CASE Tick
  BY <1>1, <1>2, LeaseTick
<1>3. CASE Input
  BY <1>1, <1>3, LeaseInput DEF Input
<1>4. ASSUME NEW n \in Nodes, Works(n) PROVE LeaseInv'
  <2>1. CASE ReadDue(n)
    BY <1>1, <2>1, LeaseRead
  <2>2. CASE ClaimOutbox(n)
    BY <1>1, <2>2, LeaseClaim
  <2>3. ASSUME NEW c \in worker[n].held, Deliver(n, c) \/ LookupFails(n, c) PROVE LeaseInv'
    BY <1>1, <2>3, LeaseTake
  <2>4. CASE Sent(n) \/ SendFails(n) \/ AnswerLost(n)
    BY <1>1, <2>4, LeaseAnswer
  <2>5. CASE OutboxDone(n)
    BY <1>1, <2>5, LeaseDone
  <2>6. CASE OutboxRetry(n)
    BY <1>1, <2>6, LeaseRetry
  <2>7. CASE OutcomeLost(n)
    <3>1. /\ worker[n].pc \in {"done", "failed"} /\ NextItem(n)
          /\ now' = now /\ outbox' = outbox /\ late' = late
      BY <2>7 DEF OutcomeLost
    <3>2. QED
      BY <1>1, <3>1, LeaseNext DEF Quiet
  <2>8. QED
    BY <1>4, <2>1, <2>2, <2>3, <2>4, <2>5, <2>6, <2>7 DEF Works
<1>5. ASSUME NEW n \in Nodes, Stall(n) \/ Resume(n) PROVE LeaseInv'
  BY <1>1, <1>5, LeaseAnswer
<1>6. ASSUME NEW n \in Nodes, Crash(n) PROVE LeaseInv'
  BY <1>1, <1>6, LeaseCrash
<1>7. CASE UNCHANGED vars
  <2>1. now' = now /\ outbox' = outbox /\ worker' = worker /\ late' = late
    BY <1>7 DEF vars, history
  <2>2. ASSUME NEW n \in Nodes PROVE Held(n)' = Held(n) /\ Claim(n)' /\ Hold(n)'
    BY <2>1 DEF LeaseInv, Held, Claim, Claimable, Hold, Firm, Working, Unfinished
  <2>3. QED
    BY <1>1, <2>1, <2>2 DEF LeaseInv, OneHolder
<1>8. QED
  BY <1>2, <1>3, <1>4, <1>5, <1>6, <1>7 DEF Next

LEMMA LeaseHolds == Spec => []LeaseInv
BY LeaseInit, LeaseStep, PTL DEF Spec

(* No two nodes have the same delivery in hand unless one of them held it beyond *)
(* its lease, for any lease, batch and length of sends (ClaimOutbox).         *)
THEOREM NobodyElseHolds == Spec => []OneHolder
<1>1. LeaseInv => OneHolder
  BY DEF LeaseInv
<1>2. QED
  BY <1>1, LeaseHolds, PTL

-----------------------------------------------------------------------------
(* Attempts and outcomes.                                                  *)

(* A row knows no more tries than there were, and was not given up too early,    *)
(* unless somebody was late with it.                                          *)
Queued(i) ==
    \/ i \in late
    \/ /\ outbox[i].state = "queued" => outbox[i].attempts <= failures[i]
       /\ outbox[i].state = "dead" => failures[i] >= MaxAttempts

(* An outcome about to be written has its cause. *)
Failed(n) ==
    worker[n].pc = "failed" =>
        \/ worker[n].cur.item \in late
        \/ worker[n].cur.attempts + 1 <= failures[worker[n].cur.item]

Done(n) ==
    worker[n].pc = "done" =>
        accepted[worker[n].cur.item] > 0 \/ worker[n].cur.item \in closed

CountInv == (\A i \in Items : Queued(i)) /\ \A n \in Nodes : Failed(n) /\ Done(n)

LEMMA CountMore ==
    ASSUME NEW f \in [Items -> Nat], NEW i \in Items, NEW g, g = [f EXCEPT ![i] = f[i] + 1]
    PROVE  g[i] = f[i] + 1 /\ \A j \in Items : f[j] <= g[j] /\ (j # i => g[j] = f[j])
OBVIOUS

(* The counts only grow, and what a step writes has its cause. *)
LEMMA CountFrom ==
    ASSUME TypeInv, TypeInv', CountInv,
           \A i \in Items : failures[i] <= failures'[i] /\ accepted[i] <= accepted'[i],
           closed \subseteq closed', late \subseteq late',
           \A n \in Nodes : worker'[n] = worker[n] \/ (Failed(n)' /\ Done(n)'),
           \A i \in Items : \/ outbox'[i].state = outbox[i].state
                               /\ outbox'[i].attempts = outbox[i].attempts
                            \/ Queued(i)'
    PROVE  CountInv'
<1>1. ASSUME NEW i \in Items PROVE Queued(i)'
  <2>1. /\ failures[i] \in Nat /\ failures'[i] \in Nat /\ outbox[i].attempts \in Nat
        /\ failures[i] <= failures'[i] /\ Queued(i)
    BY DEF TypeInv, TypeOK, CountInv
  <2>2. CASE outbox'[i].state = outbox[i].state /\ outbox'[i].attempts = outbox[i].attempts
    BY <2>1, <2>2, Constants DEF Queued
  <2>3. QED
    BY <2>2
<1>2. ASSUME NEW n \in Nodes PROVE Failed(n)' /\ Done(n)'
  <2>1. CASE worker'[n] = worker[n] /\ worker[n].pc \in {"failed", "done"}
    <3> DEFINE i == worker[n].cur.item
    <3>1. i \in Items /\ worker[n].cur.attempts \in Nat
      BY <2>1 DEF TypeInv, HasCur, Busy, Copies
    <3>2. /\ failures[i] \in Nat /\ failures'[i] \in Nat /\ accepted[i] \in Nat /\ accepted'[i] \in Nat
          /\ failures[i] <= failures'[i] /\ accepted[i] <= accepted'[i]
      BY <3>1 DEF TypeInv, TypeOK
    <3>3. QED
      BY <2>1, <3>1, <3>2 DEF CountInv, Failed, Done
  <2>2. CASE worker'[n] = worker[n] /\ worker[n].pc \notin {"failed", "done"}
    BY <2>2 DEF Failed, Done
  <2>3. QED
    BY <2>1, <2>2
<1>3. QED
  BY <1>1, <1>2 DEF CountInv

LEMMA CountInit == Init => CountInv
BY DEF Init, CountInv, Queued, Failed, Done, NoRow, Row, Idle

LEMMA CountInput ==
    ASSUME LeaseInv, TypeInv', CountInv, NEW i \in Items,
           EnqueueOutbox(i) \/ Close(i) \/ ReplayDeadLetter(i)
    PROVE  CountInv'
<1> USE DEF history, counters
<1>1. CASE EnqueueOutbox(i)
  <2>1. /\ UNCHANGED <<worker, failures, accepted, closed, late>>
        /\ \A j \in Items : failures[j] \in Nat /\ accepted[j] \in Nat
    BY <1>1 DEF EnqueueOutbox, LeaseInv, TypeInv, TypeOK
  <2>2. \A j \in Items : outbox'[j] = outbox[j] \/ (outbox'[j].state = "queued" /\ outbox'[j].attempts = 0)
    BY <1>1 DEF EnqueueOutbox, Row, LeaseInv, TypeInv, TypeOK
  <2>3. QED
    BY <2>1, <2>2, CountFrom DEF LeaseInv, Queued
<1>2. CASE Close(i)
  <2>1. /\ UNCHANGED <<worker, failures, accepted, outbox, late>> /\ closed \subseteq closed'
        /\ \A j \in Items : failures[j] \in Nat /\ accepted[j] \in Nat
    BY <1>2 DEF Close, LeaseInv, TypeInv, TypeOK
  <2>2. QED
    BY <2>1, CountFrom DEF LeaseInv
<1>3. CASE ReplayDeadLetter(i)
  <2>1. /\ UNCHANGED <<worker, accepted, closed, late>>
        /\ outbox[i].state = "dead"
        /\ failures' = [failures EXCEPT ![i] = 0]
        /\ outbox' = [outbox EXCEPT ![i] = Row("queued", 0, now)]
    BY <1>3 DEF ReplayDeadLetter
  <2>2. /\ outbox'[i].state = "queued" /\ outbox'[i].attempts = 0 /\ failures'[i] = 0
        /\ \A j \in Items : j # i => outbox'[j] = outbox[j] /\ failures'[j] = failures[j]
    BY <2>1 DEF Row, LeaseInv, TypeInv, TypeOK
  <2>3. \A j \in Items : Queued(j)'
    BY <2>1, <2>2 DEF Queued, CountInv
  <2>4. \A n \in Nodes : Failed(n)' /\ Done(n)'
    <3> TAKE n \in Nodes
    <3>1. worker[n].pc = "failed" => /\ worker[n].cur.item \in Items
                                     /\ worker[n].cur.item # i \/ i \in late
      BY <2>1, Current DEF Busy
    <3>2. QED
      BY <2>1, <2>2, <3>1 DEF CountInv, Failed, Done
  <2>5. QED
    BY <2>3, <2>4 DEF CountInv
<1>4. QED
  BY <1>1, <1>2, <1>3

(* A node reads or claims a batch. *)
LEMMA Claims ==
    ASSUME TypeInv, NEW n \in Nodes, ReadDue(n) \/ ClaimOutbox(n)
    PROVE  /\ worker'[n].pc \notin Busy
           /\ \A m \in Nodes \ {n} : worker'[m] = worker[m]
           /\ \A i \in Items : /\ outbox'[i].state = outbox[i].state
                               /\ outbox'[i].attempts = outbox[i].attempts
           /\ UNCHANGED <<closed, accepted, failures, late>>
<1>1. CASE ReadDue(n)
  <2>1. PICK S \in DueOutbox :
          worker' = [worker EXCEPT ![n] = [pc |-> "claim", held |-> {Copy(i) : i \in S},
                                           cur |-> NoItem, at |-> now, until |-> 0]]
    BY <1>1 DEF ReadDue
  <2>2. worker'[n].pc = "claim" /\ \A m \in Nodes \ {n} : worker'[m] = worker[m]
    BY <2>1 DEF TypeInv, TypeOK
  <2>3. outbox' = outbox /\ UNCHANGED <<closed, accepted, failures, late>>
    BY <1>1 DEF ReadDue, history
  <2>4. QED
    BY <2>2, <2>3 DEF Busy
<1>2. CASE ClaimOutbox(n)
  BY <1>2, ClaimIs DEF Idle, Busy
<1>3. QED
  BY <1>1, <1>2

LEMMA CountWorks ==
    ASSUME LeaseInv, TypeInv', CountInv, NEW n \in Nodes, Works(n)
    PROVE  CountInv'
<1> USE DEF history, counters
<1> DEFINE i == worker[n].cur.item
<1>0. /\ TypeInv
      /\ \A j \in Items : failures[j] \in Nat /\ accepted[j] \in Nat
      /\ accepted \in [Items -> Nat] /\ failures \in [Items -> Nat]
  BY DEF LeaseInv, TypeInv, TypeOK
<1>1. CASE ReadDue(n) \/ ClaimOutbox(n)
  <2>1. Failed(n)' /\ Done(n)' /\ \A m \in Nodes \ {n} : worker'[m] = worker[m]
    BY <1>0, <1>1, Claims DEF Failed, Done, Busy
  <2>2. UNCHANGED <<closed, accepted, failures, late>>
    BY <1>0, <1>1, Claims
  <2>3. QED
    BY <1>0, <1>1, <2>1, <2>2, Claims, CountFrom
<1>2. ASSUME NEW c \in worker[n].held, Deliver(n, c) PROVE CountInv'
  <2>1. Take(n, c, IF c.item \in closed THEN "done" ELSE "sending")
    BY <1>2 DEF Deliver
  <2>2. UNCHANGED <<closed, accepted, failures, outbox, late>>
    BY <1>2 DEF Deliver
  <2>3. Failed(n)' /\ Done(n)' /\ \A m \in Nodes \ {n} : worker'[m] = worker[m]
    BY <1>0, <2>1, <2>2, Takes DEF Failed, Done
  <2>4. QED
    BY <1>0, <2>2, <2>3, CountFrom
<1>3. ASSUME NEW c \in worker[n].held, LookupFails(n, c) PROVE CountInv'
  <2>1. Take(n, c, "failed") /\ worker[n].pc = "next"
    BY <1>3 DEF LookupFails, IsNext
  <2>2. UNCHANGED <<closed, accepted, outbox, late>>
    BY <1>3 DEF LookupFails
  <2>3. Hold(n) /\ Working(n) /\ c \in Unfinished(n) /\ c \in Copies
    BY <2>1 DEF LeaseInv, Working, Unfinished, TypeInv, TypeOK
  <2>4. c.item \in Items /\ c.attempts \in Nat
    BY <2>3 DEF Copies
  <2>5. c.item \in late \/ c.attempts <= failures[c.item]
    BY <2>3, <2>4 DEF Hold, Firm, CountInv, Queued
  <2>6. /\ failures'[c.item] = failures[c.item] + 1
        /\ \A j \in Items : failures[j] <= failures'[j]
    BY <1>0, <1>3, <2>4, CountMore DEF LookupFails
  <2>7. Failed(n)' /\ Done(n)' /\ \A m \in Nodes \ {n} : worker'[m] = worker[m]
    BY <1>0, <2>1, <2>2, <2>4, <2>5, <2>6, Takes DEF Failed, Done
  <2>8. QED
    BY <1>0, <2>2, <2>6, <2>7, CountFrom
<1>4. CASE Sent(n)
  <2>1. /\ worker[n].pc = "sending" /\ worker' = [worker EXCEPT ![n].pc = "done"]
        /\ UNCHANGED <<closed, failures, outbox, late>>
    BY <1>4 DEF Sent
  <2>2. i \in Items
    BY <2>1, Current DEF Busy
  <2>3. accepted'[i] = accepted[i] + 1 /\ \A j \in Items : accepted[j] <= accepted'[j]
    <3>1. accepted' = [accepted EXCEPT ![i] = accepted[i] + 1]
      BY <1>4 DEF Sent
    <3> HIDE DEF i
    <3>2. QED
      BY <1>0, <2>2, <3>1, CountMore
  <2>4. accepted'[i] > 0
    BY <1>0, <2>2, <2>3
  <2>5. Failed(n)' /\ Done(n)' /\ \A m \in Nodes \ {n} : worker'[m] = worker[m]
    BY <1>0, <2>1, <2>4, Answered DEF Failed, Done
  <2>6. QED
    BY <1>0, <2>1, <2>3, <2>5, CountFrom
<1>5. CASE SendFails(n) \/ AnswerLost(n)
  <2>1. /\ worker[n].pc = "sending" /\ worker' = [worker EXCEPT ![n].pc = "failed"]
        /\ UNCHANGED <<closed, outbox, late>>
    BY <1>5 DEF SendFails, AnswerLost
  <2>2. /\ i \in Items /\ worker[n].cur.attempts \in Nat
        /\ i \in late \/ (outbox[i].state = "queued" /\ outbox[i].attempts = worker[n].cur.attempts)
    BY <2>1, Current DEF Copies, Busy
  <2>3. /\ failures'[i] = failures[i] + 1
        /\ \A j \in Items : failures[j] <= failures'[j] /\ accepted[j] <= accepted'[j]
    <3>1. /\ failures' = [failures EXCEPT ![i] = failures[i] + 1]
          /\ accepted' = accepted \/ accepted' = [accepted EXCEPT ![i] = accepted[i] + 1]
      BY <1>5 DEF SendFails, AnswerLost
    <3> HIDE DEF i
    <3>2. QED
      BY <1>0, <2>2, <3>1, CountMore
  <2>4. i \in late \/ worker[n].cur.attempts <= failures[i]
    BY <2>2 DEF CountInv, Queued
  <2>5. Failed(n)' /\ Done(n)' /\ \A m \in Nodes \ {n} : worker'[m] = worker[m]
    BY <1>0, <2>1, <2>2, <2>3, <2>4, Answered DEF Failed, Done
  <2>6. QED
    BY <1>0, <2>1, <2>3, <2>5, CountFrom
<1>6. CASE OutboxDone(n)
  <2>1. NextItem(n) /\ UNCHANGED <<closed, accepted, failures, late>>
    BY <1>6 DEF OutboxDone
  <2>2. \A j \in Items : outbox'[j] = outbox[j] \/ outbox'[j].state = "gone"
    BY <1>6, DoneIs DEF Gone, Row
  <2>3. QED
    BY <1>0, <2>1, <2>2, GoesOn, CountFrom DEF Failed, Done, Queued
<1>7. CASE OutboxRetry(n)
  <2>1. worker[n].pc = "failed" /\ NextItem(n) /\ UNCHANGED <<closed, accepted, failures, late>>
    BY <1>7 DEF OutboxRetry
  <2>2. PICK k \in Nat, d \in Nat \ {0} :
          /\ k = worker[n].cur.attempts + 1
          /\ \A j \in Items : outbox'[j] = IF j = i /\ outbox[j].state # "gone"
                                             THEN Row(IF IsDead(k) THEN "dead" ELSE "queued", k, now + d)
                                             ELSE outbox[j]
    BY <1>7, RetryIs
  <2>3. i \in Items /\ failures[i] \in Nat /\ (i \in late \/ k <= failures[i])
    BY <1>0, <2>1, <2>2, Current DEF CountInv, Failed, Busy
  <2> HIDE DEF i
  <2>4. \A j \in Items : outbox'[j] = outbox[j] \/ Queued(j)'
    BY <2>1, <2>2, <2>3, Constants DEF Queued, Row, IsDead
  <2>5. QED
    BY <1>0, <2>1, <2>4, GoesOn, CountFrom DEF Failed, Done
<1>8. CASE OutcomeLost(n)
  <2>1. NextItem(n) /\ UNCHANGED <<closed, accepted, failures, outbox, late>>
    BY <1>8 DEF OutcomeLost
  <2>2. QED
    BY <1>0, <2>1, GoesOn, CountFrom DEF Failed, Done
<1>9. QED
  BY <1>1, <1>2, <1>3, <1>4, <1>5, <1>6, <1>7, <1>8 DEF Works

LEMMA CountStep == LeaseInv /\ TypeInv' /\ CountInv /\ [Next]_vars => CountInv'
<1> SUFFICES ASSUME LeaseInv, TypeInv', CountInv, [Next]_vars PROVE CountInv'
  OBVIOUS
<1> USE DEF history, counters
<1>0. /\ TypeInv
      /\ accepted \in [Items -> Nat]
      /\ \A j \in Items : failures[j] \in Nat /\ accepted[j] \in Nat
  BY DEF LeaseInv, TypeInv, TypeOK
<1>1. CASE Tick
  BY <1>0, <1>1, CountFrom DEF Tick
<1>2. ASSUME NEW i \in Items, EnqueueOutbox(i) \/ Close(i) \/ ReplayDeadLetter(i)
      PROVE  CountInv'
  BY <1>2, CountInput
<1>3. ASSUME NEW n \in Nodes, Works(n) PROVE CountInv'
  BY <1>3, CountWorks
<1>4. ASSUME NEW n \in Nodes, Stall(n) \/ Resume(n) PROVE CountInv'
  <2>1. /\ UNCHANGED <<closed, accepted, failures, outbox, late>>
        /\ \E pc \in {"sending", "stalled"} : worker' = [worker EXCEPT ![n].pc = pc]
    BY <1>4 DEF Stall, Resume
  <2>2. Failed(n)' /\ Done(n)' /\ \A m \in Nodes \ {n} : worker'[m] = worker[m]
    BY <1>0, <2>1, Answered DEF Failed, Done
  <2>3. QED
    BY <1>0, <2>1, <2>2, CountFrom
<1>5. ASSUME NEW n \in Nodes, Crash(n) PROVE CountInv'
  <2> DEFINE i == worker[n].cur.item
  <2>1. /\ worker' = [worker EXCEPT ![n] = Idle]
        /\ UNCHANGED <<closed, failures, outbox, late>>
        /\ accepted' = accepted
           \/ (worker[n].pc \in Busy /\ accepted' = [accepted EXCEPT ![i] = accepted[i] + 1])
    BY <1>5 DEF Crash, Busy
  <2>2. worker[n].pc \in Busy => i \in Items
    BY Current
  <2>3. \A j \in Items : accepted[j] <= accepted'[j]
    <3> HIDE DEF i
    <3> QED
      BY <1>0, <2>1, <2>2, CountMore
  <2>4. \A m \in Nodes : worker'[m] = worker[m] \/ (Failed(m)' /\ Done(m)')
    BY <1>0, <2>1, GoesOn DEF Failed, Done
  <2> HIDE DEF i
  <2>5. QED
    BY <1>0, <2>1, <2>3, <2>4, CountFrom
<1>6. CASE UNCHANGED vars
  BY <1>0, <1>6, CountFrom DEF vars
<1>7. QED
  BY <1>1, <1>2, <1>3, <1>4, <1>5, <1>6 DEF Next, Input

LEMMA CountHolds == Spec => [](LeaseInv /\ CountInv)
<1>1. LeaseInv /\ CountInv /\ [Next]_vars => CountInv'
  BY TypeStep, CountStep DEF LeaseInv
<1>2. QED
  BY <1>1, LeaseInit, LeaseStep, CountInit, PTL DEF Spec

(* A delivery is given up only after MaxAttempts failed tries since it was       *)
(* enqueued or replayed, whatever node wrote the last of them, unless a worker *)
(* that held it beyond its lease came late with an outcome.                    *)
THEOREM DeadAfterAllAttempts == Spec => []DeadAfterMax
<1>1. CountInv => DeadAfterMax
  BY DEF CountInv, Queued, DeadAfterMax
<1>2. QED
  BY <1>1, CountHolds, PTL

-----------------------------------------------------------------------------
(* Duplicates.                                                             *)

(* A worker that holds a delivery may have it accepted once more, unless it has  *)
(* done so.                                                                   *)
MaySend(n, i) == i \in Held(n) /\ ~(worker[n].pc = "done" /\ worker[n].cur.item = i)
Pending(i) == {n \in Nodes : MaySend(n, i)}

(* Nobody will claim the delivery without that being excused. *)
Kept(i) == outbox[i].state = "gone" \/ \E n \in Nodes : i \in Held(n)

One(b) == IF b THEN 1 ELSE 0

(* What was accepted and may still be is one, or excused. *)
Once(i) == accepted[i] + Cardinality(Pending(i)) <= excused[i] + One(Kept(i))

SendInv == \A i \in Items : Once(i)

LEMMA SendInit == Init => SendInv
<1> SUFFICES ASSUME Init, NEW i \in Items PROVE Once(i)
  BY DEF SendInv
<1>1. Pending(i) = {}
  BY DEF Init, Pending, MaySend, Held, Idle
<1>2. QED
  BY <1>1, FS_EmptySet DEF Init, Once, One

LEMMA CountOne ==
    ASSUME NEW S, IsFiniteSet(S), NEW n
    PROVE  Cardinality(S) \in Nat /\ Cardinality(S \ {n}) \in Nat
           /\ Cardinality(S) = Cardinality(S \ {n}) + One(n \in S)
<1>1. Cardinality(S) \in Nat /\ IsFiniteSet(S \ {n})
      /\ Cardinality(S \ {n}) = IF n \in S THEN Cardinality(S) - 1 ELSE Cardinality(S)
  BY FS_RemoveElement, FS_CardinalityType
<1>2. Cardinality(S \ {n}) \in Nat
  BY <1>1, FS_CardinalityType
<1>3. QED
  BY <1>1, <1>2 DEF One

(* A step of one node moves the account by what that node does. *)
LEMMA Moved1 ==
    ASSUME NEW n \in Nodes, NEW i, \A m \in Nodes \ {n} : worker'[m] = worker[m]
    PROVE  /\ Cardinality(Pending(i)) \in Nat /\ Cardinality(Pending(i)') \in Nat
           /\ Cardinality(Pending(i)') + One(MaySend(n, i))
                = Cardinality(Pending(i)) + One(MaySend(n, i)')
<1>1. IsFiniteSet(Pending(i)) /\ IsFiniteSet(Pending(i)')
  BY Constants, FS_Subset DEF Pending
<1>2. Pending(i)' \ {n} = Pending(i) \ {n}
  <2>1. \A m \in Nodes \ {n} : MaySend(m, i)' <=> MaySend(m, i)
    BY DEF MaySend, Held
  <2>2. QED
    BY <2>1 DEF Pending
<1>3. (n \in Pending(i) <=> MaySend(n, i)) /\ (n \in Pending(i)' <=> MaySend(n, i)')
  BY DEF Pending
<1>4. /\ Cardinality(Pending(i)) \in Nat
      /\ Cardinality(Pending(i)) = Cardinality(Pending(i) \ {n}) + One(n \in Pending(i))
      /\ Cardinality(Pending(i) \ {n}) \in Nat
  BY <1>1, CountOne
<1>5. /\ Cardinality(Pending(i)') \in Nat
      /\ Cardinality(Pending(i)') = Cardinality(Pending(i)' \ {n}) + One(n \in Pending(i)')
  BY <1>1, CountOne
<1>6. QED
  BY <1>2, <1>3, <1>4, <1>5 DEF One

(* The account of a delivery in a step of one node that keeps it, or takes one   *)
(* from what is accepted and pending.                                          *)
LEMMA Account ==
    ASSUME TypeInv, TypeInv', NEW i \in Items, Once(i),
           NEW n \in Nodes, \A m \in Nodes \ {n} : worker'[m] = worker[m],
           outbox[i].state = "gone" => outbox'[i].state = "gone",
           \/ /\ i \in Held(n) => i \in Held(n)' \/ outbox'[i].state = "gone"
              /\ accepted'[i] + One(MaySend(n, i)') + excused[i]
                    <= accepted[i] + One(MaySend(n, i)) + excused'[i]
           \/ accepted'[i] + One(MaySend(n, i)') + excused[i] + 1
                    <= accepted[i] + One(MaySend(n, i)) + excused'[i]
    PROVE  Once(i)'
<1>1. /\ accepted[i] \in Nat /\ accepted'[i] \in Nat /\ excused[i] \in Nat /\ excused'[i] \in Nat
  BY DEF TypeInv, TypeOK
<1>2. \A m \in Nodes \ {n} : Held(m)' = Held(m)
  BY DEF Held
<1>3. (i \in Held(n) => i \in Held(n)' \/ outbox'[i].state = "gone") => (Kept(i) => Kept(i)')
  BY <1>2 DEF Kept
<1>4. Kept(i) \in BOOLEAN /\ Kept(i)' \in BOOLEAN /\ MaySend(n, i) \in BOOLEAN /\ MaySend(n, i)' \in BOOLEAN
  BY DEF Kept, MaySend
<1>5. QED
  BY <1>1, <1>3, <1>4, Moved1 DEF Once, One

(* A delivery that the step does not touch. *)
LEMMA Untouched ==
    ASSUME TypeInv, TypeInv', NEW i \in Items, Once(i),
           NEW n \in Nodes, \A m \in Nodes \ {n} : worker'[m] = worker[m],
           outbox[i].state = "gone" => outbox'[i].state = "gone",
           i \in Held(n)' <=> i \in Held(n), MaySend(n, i)' <=> MaySend(n, i),
           accepted'[i] = accepted[i], excused'[i] = excused[i]
    PROVE  Once(i)'
<1>1. accepted[i] \in Nat /\ excused[i] \in Nat
  BY DEF TypeInv, TypeOK
<1>2. accepted'[i] + One(MaySend(n, i)') + excused[i] <= accepted[i] + One(MaySend(n, i)) + excused'[i]
  BY <1>1 DEF One
<1>3. QED
  BY <1>2, Account

LEMMA SendClaim ==
    ASSUME LeaseInv, TypeInv', SendInv, NEW n \in Nodes, ReadDue(n) \/ ClaimOutbox(n)
    PROVE  SendInv'
<1> SUFFICES ASSUME NEW i \in Items PROVE Once(i)'
  BY DEF SendInv
<1>1. /\ TypeInv /\ Once(i) /\ accepted'[i] = accepted[i] /\ outbox'[i].state = outbox[i].state
      /\ worker'[n].pc \notin Busy /\ \A m \in Nodes \ {n} : worker'[m] = worker[m]
  BY Claims DEF LeaseInv, SendInv
<1>2. Held(n) = {} /\ ~MaySend(n, i)
  BY ClaimIs DEF ReadDue, Held, MaySend, LeaseInv
<1>3. MaySend(n, i)' <=> i \in Held(n)'
  BY <1>1 DEF MaySend, Busy
<1>4. CASE i \notin Held(n)'
  <2>1. excused'[i] = excused[i] \/ excused'[i] = excused[i] + 1
    BY ClaimIs DEF LeaseInv, ReadDue, history
  <2>2. accepted[i] \in Nat /\ excused[i] \in Nat
    BY DEF LeaseInv, TypeInv, TypeOK
  <2>3. accepted'[i] + One(MaySend(n, i)') + excused[i] <= accepted[i] + One(MaySend(n, i)) + excused'[i]
    BY <1>1, <1>2, <1>3, <1>4, <2>1, <2>2 DEF One
  <2>4. QED
    BY <1>1, <1>2, <2>3, Account
<1>5. CASE i \in Held(n)'
  <2>1. ClaimOutbox(n) /\ worker'[n].pc = "next" /\ worker'[n].held = Wins(n)
    <3>1. ~ReadDue(n)
      <4>1. ASSUME ReadDue(n) PROVE worker'[n].pc = "claim"
        BY <4>1 DEF ReadDue, LeaseInv, TypeInv, TypeOK
      <4>2. QED
        BY <4>1, <1>5 DEF Held
    <3>2. worker'[n] # Idle
      BY <1>5 DEF Held, Idle
    <3>3. QED
      BY <3>1, <3>2, ClaimIs DEF LeaseInv
  <2>2. i \in WinsItems(n)
    BY <1>5, <2>1 DEF Held, WinsItems
  <2>3. worker'[n] # Idle
    BY <2>1 DEF Idle
  <2>4. IF \E m \in Nodes \ {n} : i \in Held(m) THEN excused'[i] = excused[i] + 1
                                                ELSE excused'[i] = excused[i]
    BY <2>1, <2>2, <2>3, ClaimIs DEF LeaseInv
  <2>5. /\ accepted[i] \in Nat /\ excused[i] \in Nat
        /\ Cardinality(Pending(i)) \in Nat /\ Cardinality(Pending(i)') \in Nat
        /\ Cardinality(Pending(i)') = Cardinality(Pending(i)) + 1
    BY <1>1, <1>2, <1>3, <1>5, Moved1 DEF LeaseInv, TypeInv, TypeOK, One
  <2>6. Kept(i)'
    BY <1>5 DEF Kept
  <2>7. CASE \E m \in Nodes \ {n} : i \in Held(m)
    BY <1>1, <2>4, <2>5, <2>6, <2>7 DEF Once, One
  <2>8. CASE ~\E m \in Nodes \ {n} : i \in Held(m)
    <3>1. outbox[i].state = "queued"
      BY <2>2 DEF WinsItems, Wins, Claimable
    <3>2. ~Kept(i)
      BY <1>2, <2>8, <3>1 DEF Kept
    <3>3. QED
      BY <1>1, <2>4, <2>5, <2>6, <2>8, <3>2 DEF Once, One
  <2>9. QED
    BY <2>7, <2>8
<1>6. QED
  BY <1>4, <1>5

(* What a node holds after it took up a delivery or got an answer, and after it  *)
(* wrote an outcome.                                                          *)
LEMMA HeldTake ==
    ASSUME LeaseInv, NEW n \in Nodes, NEW c \in worker[n].held, NEW pc \in Busy, Take(n, c, pc),
           worker[n].pc = "next"
    PROVE  Held(n)' = Held(n) /\ c.item \in Held(n)
BY Takes DEF LeaseInv, Held, Busy

LEMMA HeldAnswer ==
    ASSUME LeaseInv, NEW n \in Nodes, worker[n].pc \in Busy, NEW pc \in Busy,
           worker' = [worker EXCEPT ![n].pc = pc]
    PROVE  Held(n)' = Held(n)
BY Answered DEF LeaseInv, Held, Busy

LEMMA HeldNext ==
    ASSUME LeaseInv, NEW n \in Nodes, worker[n].pc \in {"done", "failed"}, NextItem(n)
    PROVE  /\ Held(n)' = Held(n) \ {worker[n].cur.item}
           /\ \A i \in Items : i # worker[n].cur.item => (MaySend(n, i)' <=> MaySend(n, i))
<1>1. /\ Working(n) /\ Hold(n) /\ worker[n].cur \in Unfinished(n) /\ worker[n].held \subseteq Unfinished(n)
      /\ worker[n].cur \notin worker[n].held
  BY DEF Working, Busy, LeaseInv, Hold, Unfinished
<1>2. \A c \in worker[n].held : c.item # worker[n].cur.item
  BY <1>1 DEF Hold
<1>3. Held(n) = {c.item : c \in worker[n].held} \cup {worker[n].cur.item}
  BY DEF Held
<1>4. Held(n)' = {c.item : c \in worker[n].held}
  <2>1. CASE worker'[n].pc = "idle"
    BY <2>1, GoesOn DEF LeaseInv, Held
  <2>2. CASE worker'[n].pc = "next"
    BY <2>2, GoesOn DEF LeaseInv, Held
  <2>3. QED
    BY <2>1, <2>2, GoesOn DEF LeaseInv
<1>5. Held(n)' = Held(n) \ {worker[n].cur.item}
  BY <1>2, <1>3, <1>4
<1>6. worker'[n].pc # "done"
  BY GoesOn DEF LeaseInv
<1>7. QED
  BY <1>5, <1>6 DEF MaySend

LEMMA SendTake ==
    ASSUME LeaseInv, TypeInv', SendInv, NEW n \in Nodes, NEW c \in worker[n].held,
           Deliver(n, c) \/ LookupFails(n, c)
    PROVE  SendInv'
<1> SUFFICES ASSUME NEW i \in Items PROVE Once(i)'
  BY DEF SendInv
<1>1. PICK pc \in {"sending", "done", "failed"} : Take(n, c, pc)
  BY DEF Deliver, LookupFails
<1>2. worker[n].pc = "next" /\ UNCHANGED <<accepted, excused, outbox>> /\ TypeInv /\ Once(i)
  BY DEF Deliver, LookupFails, IsNext, history, LeaseInv, SendInv
<1>3. /\ worker'[n].pc = pc /\ worker'[n].cur = c /\ \A m \in Nodes \ {n} : worker'[m] = worker[m]
      /\ Held(n)' = Held(n)
  BY <1>1, <1>2, Takes, HeldTake DEF Busy
<1>4. MaySend(n, i)' => MaySend(n, i)
  BY <1>2, <1>3 DEF MaySend
<1>5. accepted[i] \in Nat /\ excused[i] \in Nat
  BY <1>2 DEF TypeInv, TypeOK
<1>6. accepted'[i] + One(MaySend(n, i)') + excused[i] <= accepted[i] + One(MaySend(n, i)) + excused'[i]
  BY <1>2, <1>4, <1>5 DEF One
<1>7. QED
  BY <1>2, <1>3, <1>6, Account

LEMMA SendAnswer ==
    ASSUME LeaseInv, TypeInv', SendInv, NEW n \in Nodes,
           Sent(n) \/ SendFails(n) \/ AnswerLost(n) \/ Stall(n) \/ Resume(n)
    PROVE  SendInv'
<1> USE DEF history, counters
<1>1. PICK pc \in Busy : worker' = [worker EXCEPT ![n].pc = pc] /\ (pc = "done" <=> Sent(n))
  BY DEF Sent, SendFails, AnswerLost, Stall, Resume, Busy
<1>2. worker[n].pc \in Busy /\ worker[n].pc # "done" /\ outbox' = outbox
      /\ TypeInv /\ accepted \in [Items -> Nat] /\ excused \in [Items -> Nat]
  BY DEF Sent, SendFails, AnswerLost, Stall, Resume, Busy, LeaseInv, TypeInv, TypeOK
<1>3. /\ worker'[n].pc = pc /\ worker'[n].cur = worker[n].cur /\ Held(n)' = Held(n)
      /\ \A m \in Nodes \ {n} : worker'[m] = worker[m]
  BY <1>1, <1>2, Answered, HeldAnswer
<1>4. PICK j \in Items : j = worker[n].cur.item /\ j \in Held(n)
  BY <1>2, Current
<1>5. /\ accepted' = accepted \/ accepted' = [accepted EXCEPT ![j] = accepted[j] + 1]
      /\ excused' = excused \/ excused' = [excused EXCEPT ![j] = excused[j] + 1]
      /\ (accepted' = accepted /\ excused' = excused) \/ Sent(n) \/ AnswerLost(n)
      /\ Sent(n) => excused' = excused
      /\ AnswerLost(n) => excused' = [excused EXCEPT ![j] = excused[j] + 1]
  BY <1>4 DEF Sent, SendFails, AnswerLost, Stall, Resume
<1>6. ASSUME NEW i \in Items, i # j PROVE Once(i)'
  <2>1. accepted'[i] = accepted[i] /\ excused'[i] = excused[i]
    BY <1>2, <1>5, <1>6, CountMore
  <2>2. MaySend(n, i)' <=> MaySend(n, i)
    BY <1>3, <1>4, <1>6 DEF MaySend
  <2>3. QED
    BY <1>2, <1>3, <2>1, <2>2, Untouched DEF SendInv
<1>7. Once(j)'
  <2>1. MaySend(n, j) /\ (MaySend(n, j)' <=> ~Sent(n))
    BY <1>1, <1>2, <1>3, <1>4 DEF MaySend
  <2>2. /\ accepted[j] \in Nat /\ excused[j] \in Nat
        /\ accepted'[j] \in {accepted[j], accepted[j] + 1}
        /\ excused'[j] \in {excused[j], excused[j] + 1}
        /\ accepted'[j] # accepted[j] => Sent(n) \/ excused'[j] = excused[j] + 1
    BY <1>2, <1>5, CountMore
  <2>3. accepted'[j] + One(MaySend(n, j)') + excused[j] <= accepted[j] + One(MaySend(n, j)) + excused'[j]
    BY <2>1, <2>2 DEF One
  <2>4. QED
    BY <1>2, <1>3, <1>4, <2>3, Account DEF SendInv
<1>8. QED
  BY <1>6, <1>7 DEF SendInv

LEMMA SendNext ==
    ASSUME LeaseInv, TypeInv', SendInv, NEW n \in Nodes,
           OutboxDone(n) \/ OutboxRetry(n) \/ OutcomeLost(n)
    PROVE  SendInv'
<1> USE DEF history, counters
<1>1. /\ worker[n].pc \in {"done", "failed"} /\ NextItem(n) /\ accepted' = accepted
      /\ TypeInv /\ accepted \in [Items -> Nat] /\ excused \in [Items -> Nat]
  BY DEF OutboxDone, OutboxRetry, OutcomeLost, LeaseInv, TypeInv, TypeOK
<1>2. PICK j \in Items : j = worker[n].cur.item /\ j \in Held(n)
  BY <1>1, Current DEF Busy
<1>3. /\ \A m \in Nodes \ {n} : worker'[m] = worker[m]
      /\ Held(n)' = Held(n) \ {j}
      /\ \A i \in Items : i # j => (MaySend(n, i)' <=> MaySend(n, i))
  BY <1>1, <1>2, GoesOn, HeldNext
<1>4. /\ \A i \in Items : outbox[i].state = "gone" => outbox'[i].state = "gone"
      /\ OutboxDone(n) => outbox'[j].state = "gone"
  <2>1. CASE OutboxDone(n)
    BY <2>1, <1>2, DoneIs DEF Gone, Row
  <2>2. CASE OutboxRetry(n)
    BY <2>2, RetryIs DEF OutboxDone, OutboxRetry
  <2>3. CASE OutcomeLost(n)
    BY <2>3, DoneIs, <1>2 DEF OutcomeLost, Gone, Row
  <2>4. QED
    BY <2>1, <2>2, <2>3
<1>5. excused' = excused \/ (OutcomeLost(n) /\ excused' = [excused EXCEPT ![j] = excused[j] + 1])
  BY <1>2 DEF OutboxDone, OutboxRetry, OutcomeLost
<1>6. ASSUME NEW i \in Items, i # j PROVE Once(i)'
  <2>1. accepted'[i] = accepted[i] /\ excused'[i] = excused[i]
    BY <1>1, <1>5, <1>6, CountMore
  <2>2. QED
    BY <1>1, <1>3, <1>4, <1>6, <2>1, Untouched DEF SendInv
<1>7. Once(j)'
  <2>1. ~MaySend(n, j)' /\ (MaySend(n, j) <=> worker[n].pc = "failed")
    BY <1>1, <1>2, <1>3 DEF MaySend
  <2>2. accepted[j] \in Nat /\ excused[j] \in Nat /\ accepted'[j] = accepted[j]
    BY <1>1
  <2>3. CASE OutboxDone(n)
    <3>1. worker[n].pc = "done" /\ excused'[j] = excused[j]
      BY <2>3 DEF OutboxDone
    <3>2. accepted'[j] + One(MaySend(n, j)') + excused[j]
             <= accepted[j] + One(MaySend(n, j)) + excused'[j]
      BY <2>1, <2>2, <3>1 DEF One
    <3>3. QED
      BY <1>1, <1>3, <1>4, <2>3, <3>2, Account DEF SendInv
  <2>4. CASE OutboxRetry(n)
    <3>1. worker[n].pc = "failed" /\ excused'[j] = excused[j]
      BY <2>4 DEF OutboxRetry
    <3>2. accepted'[j] + One(MaySend(n, j)') + excused[j] + 1
             <= accepted[j] + One(MaySend(n, j)) + excused'[j]
      BY <2>1, <2>2, <3>1 DEF One
    <3>3. QED
      BY <1>1, <1>3, <1>4, <3>2, Account DEF SendInv
  <2>5. CASE OutcomeLost(n)
    <3>1. excused'[j] = excused[j] + 1
      BY <1>1, <1>2, <2>5, CountMore DEF OutcomeLost
    <3>2. accepted'[j] + One(MaySend(n, j)') + excused[j] + 1
             <= accepted[j] + One(MaySend(n, j)) + excused'[j]
      BY <2>1, <2>2, <3>1 DEF One
    <3>3. QED
      BY <1>1, <1>3, <1>4, <3>2, Account DEF SendInv
  <2>6. QED
    BY <2>3, <2>4, <2>5
<1>8. QED
  BY <1>6, <1>7 DEF SendInv

LEMMA SendCrash ==
    ASSUME LeaseInv, TypeInv', SendInv, NEW n \in Nodes, Crash(n)
    PROVE  SendInv'
<1> SUFFICES ASSUME NEW i \in Items PROVE Once(i)'
  BY DEF SendInv
<1>1. /\ worker' = [worker EXCEPT ![n] = Idle] /\ outbox' = outbox
      /\ TypeInv /\ Once(i) /\ accepted \in [Items -> Nat] /\ excused \in [Items -> Nat]
  BY DEF Crash, LeaseInv, SendInv, TypeInv, TypeOK
<1>2. worker'[n] = Idle /\ \A m \in Nodes \ {n} : worker'[m] = worker[m]
  BY <1>1 DEF TypeInv, TypeOK
<1>3. Held(n)' = {} /\ ~MaySend(n, i)'
  BY <1>2 DEF Held, MaySend, Idle
<1>4. CASE worker[n].pc \in Busy
  <2>1. PICK j \in Items : j = worker[n].cur.item
    BY <1>4, Current
  <2>2. /\ accepted' = accepted \/ (worker[n].pc \in {"sending", "stalled"}
                                     /\ accepted' = [accepted EXCEPT ![j] = accepted[j] + 1])
        /\ excused' = [excused EXCEPT ![j] = excused[j] + 1]
    BY <1>4, <2>1 DEF Crash, Busy
  <2>3. CASE i = j
    <3>1. i \in Held(n)
      BY <1>4, <2>1, <2>3, Current
    <3>2. worker[n].pc # "done" => MaySend(n, i)
      BY <3>1 DEF MaySend
    <3>3. /\ accepted[i] \in Nat /\ excused[i] \in Nat /\ excused'[i] = excused[i] + 1
          /\ accepted'[i] = accepted[i] \/ (accepted'[i] = accepted[i] + 1 /\ MaySend(n, i))
      BY <1>1, <2>2, <2>3, <3>2, CountMore
    <3>4. accepted'[i] + One(MaySend(n, i)') + excused[i] + 1
             <= accepted[i] + One(MaySend(n, i)) + excused'[i]
      BY <1>3, <3>3 DEF One
    <3>5. QED
      BY <1>1, <1>2, <3>4, Account
  <2>4. CASE i # j
    <3>1. accepted[i] \in Nat /\ excused[i] \in Nat /\ accepted'[i] = accepted[i] /\ excused'[i] = excused[i]
      BY <1>1, <2>2, <2>4, CountMore
    <3>2. i \in Held(n) <=> MaySend(n, i)
      BY <2>1, <2>4 DEF MaySend
    <3>3. CASE i \in Held(n)
      <4>1. accepted'[i] + One(MaySend(n, i)') + excused[i] + 1
               <= accepted[i] + One(MaySend(n, i)) + excused'[i]
        BY <1>3, <3>1, <3>2, <3>3 DEF One
      <4>2. QED
        BY <1>1, <1>2, <4>1, Account
    <3>4. CASE i \notin Held(n)
      BY <1>1, <1>2, <1>3, <3>1, <3>2, <3>4, Untouched
    <3>5. QED
      BY <3>3, <3>4
  <2>5. QED
    BY <2>3, <2>4
<1>5. CASE worker[n].pc \notin Busy
  <2>1. accepted' = accepted /\ excused' = excused /\ accepted[i] \in Nat /\ excused[i] \in Nat
    BY <1>1, <1>5 DEF Crash, Busy
  <2>2. i \in Held(n) <=> MaySend(n, i)
    BY <1>5 DEF MaySend, Busy
  <2>3. CASE i \in Held(n)
    <3>1. accepted'[i] + One(MaySend(n, i)') + excused[i] + 1
             <= accepted[i] + One(MaySend(n, i)) + excused'[i]
      BY <1>3, <2>1, <2>2, <2>3 DEF One
    <3>2. QED
      BY <1>1, <1>2, <3>1, Account
  <2>4. CASE i \notin Held(n)
    BY <1>1, <1>2, <1>3, <2>1, <2>2, <2>4, Untouched
  <2>5. QED
    BY <2>3, <2>4
<1>6. QED
  BY <1>4, <1>5

LEMMA SendStep == LeaseInv /\ TypeInv' /\ SendInv /\ [Next]_vars => SendInv'
<1> SUFFICES ASSUME LeaseInv, TypeInv', SendInv, [Next]_vars PROVE SendInv'
  OBVIOUS
<1> USE DEF history, counters
<1>1. CASE Tick \/ (\E i \in Items : EnqueueOutbox(i) \/ Close(i) \/ ReplayDeadLetter(i))
           \/ UNCHANGED vars
  <2> SUFFICES ASSUME NEW i \in Items PROVE Once(i)'
    BY DEF SendInv
  <2>1. UNCHANGED <<worker, accepted, excused>>
    BY <1>1 DEF Tick, EnqueueOutbox, Close, ReplayDeadLetter, vars
  <2>2. outbox'[i].state = "gone" <=> outbox[i].state = "gone"
    BY <1>1 DEF Tick, EnqueueOutbox, Close, ReplayDeadLetter, vars, LeaseInv, TypeInv, TypeOK, Row
  <2>3. \A n \in Nodes : Held(n)' = Held(n) /\ (MaySend(n, i)' <=> MaySend(n, i))
    BY <2>1 DEF Held, MaySend
  <2>4. Pending(i)' = Pending(i) /\ (Kept(i)' <=> Kept(i))
    BY <2>2, <2>3 DEF Pending, Kept
  <2>5. Once(i)
    BY DEF SendInv
  <2>6. QED
    BY <2>1, <2>4, <2>5 DEF Once, One
<1>2. ASSUME NEW n \in Nodes, Works(n) \/ Stall(n) \/ Resume(n) \/ Crash(n) PROVE SendInv'
  BY <1>2, SendClaim, SendTake, SendAnswer, SendNext, SendCrash DEF Works
<1>3. QED
  BY <1>1, <1>2 DEF Next, Input

(* The provider gets a delivery once, and once more for each crash, lost answer, *)
(* failed write or claim from under a worker that still held it: nothing else   *)
(* makes a duplicate, for any lease, batch and length of sends.                *)
THEOREM NoOtherDuplicates == Spec => []DuplicatesExcused
<1>1. LeaseInv /\ SendInv /\ [Next]_vars => SendInv'
  BY TypeStep, SendStep DEF LeaseInv
<1>2. LeaseInv /\ SendInv => DuplicatesExcused
  <2> SUFFICES ASSUME LeaseInv, SendInv, NEW i \in Items PROVE accepted[i] <= 1 + excused[i]
    BY DEF DuplicatesExcused
  <2>1. Once(i) /\ accepted[i] \in Nat /\ excused[i] \in Nat
    BY DEF SendInv, LeaseInv, TypeInv, TypeOK
  <2>2. Cardinality(Pending(i)) \in Nat
    BY Constants, FS_Subset, FS_CardinalityType DEF Pending
  <2>3. QED
    BY <2>1, <2>2 DEF Once, One
<1>3. QED
  BY <1>1, <1>2, LeaseInit, LeaseStep, SendInit, PTL DEF Spec

-----------------------------------------------------------------------------
(* The promise of the module Delivery.                                     *)

States == [i \in Items |-> outbox[i].state]

(* A step the promise does not see. *)
Unseen == States' = States /\ UNCHANGED <<accepted, failures, closed, late>>

LEMMA UnseenStutters == ASSUME Unseen PROVE UNCHANGED Promise!dvars
BY DEF Unseen, States, Promise!dvars

LEMMA SameStates ==
    ASSUME \A i \in Items : outbox'[i].state = outbox[i].state
    PROVE  States' = States
BY DEF States

LEMMA PromiseInit == Init => Promise!Init
BY DEF Init, Promise!Init, NoRow, Row

(* One delivery changes its state. *)
LEMMA Moves ==
    ASSUME NEW i \in Items, NEW st,
           \A j \in Items : outbox'[j].state = IF j = i THEN st ELSE outbox[j].state
    PROVE  States' = [States EXCEPT ![i] = st]
BY DEF States

(* A try: the row is queued or late, and one more is accepted or failed or both. *)
LEMMA Tries ==
    ASSUME NEW i \in Items, outbox[i].state = "queued" \/ i \in late,
           accepted' \in {accepted, [accepted EXCEPT ![i] = @ + 1]},
           failures' \in {failures, [failures EXCEPT ![i] = @ + 1]},
           UNCHANGED <<outbox, closed, late>>
    PROVE  Promise!Next
<1>1. Promise!Try(i)
  BY DEF Promise!Try
<1>2. QED
  BY <1>1 DEF Promise!Next

LEMMA PromiseInput ==
    ASSUME TypeInv, NEW i \in Items, EnqueueOutbox(i) \/ Close(i) \/ ReplayDeadLetter(i)
    PROVE  Promise!Next
<1> USE DEF history, counters
<1>1. CASE EnqueueOutbox(i)
  <2>1. /\ outbox' = [outbox EXCEPT ![i] = Row("queued", 0, now)]
        /\ outbox[i].state = "none"
        /\ UNCHANGED <<accepted, failures, closed, late>>
    BY <1>1 DEF EnqueueOutbox
  <2>2. States' = [States EXCEPT ![i] = "queued"]
    BY <2>1 DEF States, Row, TypeInv, TypeOK
  <2>3. Promise!Enqueue(i)
    BY <2>1, <2>2 DEF States, Promise!Enqueue, Promise!Moves
  <2>4. QED
    BY <2>3 DEF Promise!Next
<1>2. CASE Close(i)
  <2>1. Promise!Expire(i)
    BY <1>2 DEF Close, Promise!Expire
  <2>2. QED
    BY <2>1 DEF Promise!Next
<1>3. CASE ReplayDeadLetter(i)
  <2>1. /\ outbox' = [outbox EXCEPT ![i] = Row("queued", 0, now)]
        /\ outbox[i].state = "dead"
        /\ failures' = [failures EXCEPT ![i] = 0]
        /\ UNCHANGED <<accepted, closed, late>>
    BY <1>3 DEF ReplayDeadLetter
  <2>2. States' = [States EXCEPT ![i] = "queued"]
    BY <2>1 DEF States, Row, TypeInv, TypeOK
  <2>3. Promise!Revive(i)
    BY <2>1, <2>2 DEF States, Promise!Revive, Promise!Moves
  <2>4. QED
    BY <2>3 DEF Promise!Next
<1>4. QED
  BY <1>1, <1>2, <1>3

(* The clock makes late what a worker has held beyond its lease. *)
LEMMA PromiseTick ==
    ASSUME LeaseInv, Tick
    PROVE  Promise!Next
<1> DEFINE S == {i \in Items : \E n \in Nodes : i \in Held(n) /\ worker[n].until <= now'}
<1>1. UNCHANGED <<outbox, closed, accepted, failures>> /\ late' = late \cup S
  BY DEF Tick
<1>2. \A i \in S : i \in Items /\ outbox[i].state # "none"
  BY NotYet
<1>3. Promise!Delay(S)
  BY <1>1, <1>2 DEF Promise!Delay
<1>4. QED
  BY <1>2, <1>3 DEF Promise!Next

LEMMA PromiseWorks ==
    ASSUME LeaseInv, CountInv, NEW n \in Nodes, Works(n)
    PROVE  Promise!Next \/ Unseen
<1> USE DEF history, counters
<1>0. TypeInv
  BY DEF LeaseInv
<1>1. CASE ReadDue(n) \/ ClaimOutbox(n)
  BY <1>0, <1>1, Claims, SameStates DEF Unseen
<1>2. ASSUME NEW c \in worker[n].held, Deliver(n, c) PROVE Unseen
  BY <1>2 DEF Deliver, Unseen, States
<1>3. ASSUME NEW c \in worker[n].held, LookupFails(n, c) PROVE Promise!Next
  <2>1. Hold(n) /\ Working(n) /\ c \in Unfinished(n) /\ c \in Copies
    BY <1>3 DEF LookupFails, IsNext, LeaseInv, Working, Unfinished, TypeInv, TypeOK
  <2>2. c.item \in Items /\ (outbox[c.item].state = "queued" \/ c.item \in late)
    BY <2>1 DEF Hold, Firm, Copies
  <2>3. QED
    BY <1>3, <2>2, Tries DEF LookupFails
<1>4. CASE Sent(n) \/ SendFails(n) \/ AnswerLost(n)
  <2>1. worker[n].pc = "sending"
    BY <1>4 DEF Sent, SendFails, AnswerLost
  <2>2. PICK i \in Items : i = worker[n].cur.item /\ (outbox[i].state = "queued" \/ i \in late)
    BY <2>1, Current DEF Busy
  <2>3. /\ accepted' \in {accepted, [accepted EXCEPT ![i] = @ + 1]}
        /\ failures' \in {failures, [failures EXCEPT ![i] = @ + 1]}
        /\ UNCHANGED <<outbox, closed, late>>
    BY <1>4, <2>2 DEF Sent, SendFails, AnswerLost
  <2>4. QED
    BY <2>2, <2>3, Tries
<1>5. CASE OutboxDone(n)
  <2>1. worker[n].pc = "done" /\ UNCHANGED <<accepted, failures, closed, late>>
    BY <1>5 DEF OutboxDone
  <2>2. PICK i \in Items : /\ i = worker[n].cur.item /\ outbox[i].state # "none"
                           /\ outbox[i].state = "queued" \/ i \in late
                           /\ outbox[i].state \in {"none", "queued", "dead", "gone"}
    BY <1>0, <2>1, Current DEF Busy, TypeInv, TypeOK
  <2>3. accepted[i] > 0 \/ i \in closed
    BY <2>1, <2>2 DEF CountInv, Done
  <2>4. States' = [States EXCEPT ![i] = "gone"]
    BY <1>5, <2>2, DoneIs, Moves DEF Gone, Row
  <2>5. CASE outbox[i].state = "gone"
    <3>1. States' = States
      BY <2>4, <2>5 DEF States
    <3>2. QED
      BY <2>1, <3>1 DEF Unseen
  <2>6. CASE outbox[i].state # "gone"
    <3>1. Promise!Finish(i)
      BY <2>1, <2>2, <2>3, <2>4, <2>6 DEF States, Promise!Finish, Promise!Moves
    <3>2. QED
      BY <3>1 DEF Promise!Next
  <2>7. QED
    BY <2>5, <2>6
<1>6. CASE OutboxRetry(n)
  <2>1. worker[n].pc = "failed" /\ UNCHANGED <<accepted, failures, closed, late>>
    BY <1>6 DEF OutboxRetry
  <2>2. PICK i \in Items : /\ i = worker[n].cur.item /\ outbox[i].state # "none"
                           /\ outbox[i].state = "queued" \/ i \in late
                           /\ outbox[i].state \in {"none", "queued", "dead", "gone"}
    BY <1>0, <2>1, Current DEF Busy, TypeInv, TypeOK
  <2>3. PICK k \in Nat, d \in Nat \ {0} :
          /\ k = worker[n].cur.attempts + 1
          /\ \A j \in Items : outbox'[j] = IF j = i /\ outbox[j].state # "gone"
                                             THEN Row(IF IsDead(k) THEN "dead" ELSE "queued", k, now + d)
                                             ELSE outbox[j]
    BY <1>6, <2>2, RetryIs
  <2>4. CASE outbox[i].state = "gone"
    <3>1. States' = States
      BY <2>3, <2>4 DEF States
    <3>2. QED
      BY <2>1, <3>1 DEF Unseen
  <2>5. CASE outbox[i].state # "gone"
    <3>1. States' = [States EXCEPT ![i] = IF IsDead(k) THEN "dead" ELSE "queued"]
      <4>1. \A j \in Items : outbox'[j].state = IF j = i THEN (IF IsDead(k) THEN "dead" ELSE "queued")
                                                ELSE outbox[j].state
        BY <2>3, <2>5 DEF Row
      <4>2. QED
        BY <4>1, Moves
    <3>2. CASE IsDead(k) /\ outbox[i].state = "queued"
      <4>1. i \in late \/ k <= failures[i]
        BY <2>1, <2>2, <2>3 DEF CountInv, Failed
      <4>2. failures[i] >= MaxAttempts \/ i \in late
        BY <1>0, <2>2, <2>3, <3>2, <4>1, Constants DEF IsDead, TypeInv, TypeOK
      <4>3. Promise!GiveUp(i)
        BY <2>1, <2>2, <3>1, <3>2, <4>2 DEF States, Promise!GiveUp, Promise!Moves
      <4>4. QED
        BY <4>3 DEF Promise!Next
    <3>3. CASE ~IsDead(k) /\ outbox[i].state = "dead"
      <4>1. Promise!Resurface(i)
        BY <2>1, <2>2, <3>1, <3>3 DEF States, Promise!Resurface, Promise!Moves
      <4>2. QED
        BY <4>1 DEF Promise!Next
    <3>4. CASE (IF IsDead(k) THEN "dead" ELSE "queued") = outbox[i].state
      <4>1. States' = States
        BY <3>1, <3>4 DEF States
      <4>2. QED
        BY <2>1, <4>1 DEF Unseen
    <3>5. QED
      BY <2>2, <2>5, <3>2, <3>3, <3>4
  <2>6. QED
    BY <2>4, <2>5
<1>7. CASE OutcomeLost(n)
  BY <1>7 DEF OutcomeLost, Unseen, States
<1>8. QED
  BY <1>1, <1>2, <1>3, <1>4, <1>5, <1>6, <1>7 DEF Works

LEMMA PromiseCrash ==
    ASSUME LeaseInv, NEW n \in Nodes, Crash(n)
    PROVE  Promise!Next \/ Unseen
<1>1. UNCHANGED <<outbox, closed, failures, late>>
  BY DEF Crash
<1>2. CASE accepted' = accepted
  BY <1>1, <1>2 DEF Unseen, States
<1>3. CASE accepted' # accepted
  <2>1. worker[n].pc \in Busy
    BY <1>3 DEF Crash, Busy
  <2>2. PICK i \in Items : i = worker[n].cur.item /\ (outbox[i].state = "queued" \/ i \in late)
    BY <2>1, Current
  <2>3. accepted' = [accepted EXCEPT ![i] = @ + 1]
    BY <1>3, <2>2 DEF Crash
  <2>4. QED
    BY <1>1, <2>2, <2>3, Tries
<1>4. QED
  BY <1>2, <1>3

LEMMA PromiseStep == LeaseInv /\ CountInv /\ [Next]_vars => [Promise!Next]_(Promise!dvars)
<1> SUFFICES ASSUME LeaseInv, CountInv, [Next]_vars PROVE Promise!Next \/ UNCHANGED Promise!dvars
  OBVIOUS
<1>1. CASE UNCHANGED vars
  <2>1. Unseen
    BY <1>1 DEF vars, history, Unseen, States
  <2>2. QED
    BY <2>1, UnseenStutters
<1>2. CASE Tick
  BY <1>2, PromiseTick
<1>3. ASSUME NEW i \in Items, EnqueueOutbox(i) \/ Close(i) \/ ReplayDeadLetter(i)
      PROVE  Promise!Next
  BY <1>3, PromiseInput DEF LeaseInv
<1>4. ASSUME NEW n \in Nodes, Works(n) \/ Stall(n) \/ Resume(n) \/ Crash(n)
      PROVE  Promise!Next \/ UNCHANGED Promise!dvars
  <2>1. CASE Stall(n) \/ Resume(n)
    <3>1. Unseen
      BY <2>1 DEF Stall, Resume, history, Unseen, States
    <3>2. QED
      BY <3>1, UnseenStutters
  <2>2. QED
    BY <1>4, <2>1, PromiseWorks, PromiseCrash, UnseenStutters
<1>5. QED
  BY <1>1, <1>2, <1>3, <1>4 DEF Next, Input

(* The outbox implements the promise of the module Delivery: a delivery goes     *)
(* away, once and for all, only accepted or moot, for any number of nodes,      *)
(* crashes, lost outcomes and leases that run out; one that no worker was late  *)
(* with is tried only while it is queued, is given up only after all its       *)
(* attempts and comes back only by a replay.                                   *)
THEOREM KeepsThePromise == Spec => Implements
<1>1. [](LeaseInv /\ CountInv) /\ [][Next]_vars => [][Promise!Next]_(Promise!dvars)
  BY PromiseStep, PTL
<1>2. QED
  BY <1>1, PromiseInit, CountHolds, PTL DEF Spec, Implements, Promise!Spec
=============================================================================
