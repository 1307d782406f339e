-------------------------- MODULE Incidents_proofs --------------------------
(***************************************************************************)
(* What Incidents promises, for every number of alerts, incidents, tickets *)
(* and requests.                                                           *)
(***************************************************************************)
EXTENDS Incidents, FiniteSetTheorems, TLAPS

-----------------------------------------------------------------------------
(* The inductive invariant.                                                 *)

AlertRow == [status : {"none", "active", "resolved", "expired"},
             incident : Ids \cup {0}, ticket : TicketIds \cup {0}]

JobType == [at : Places, alert : Alerts \cup {NoAlert}, todo : SUBSET Alerts,
            fresh : SUBSET Alerts, inc : Ids \cup {0}, copy : Rows,
            held : SUBSET TicketIds, etag : Nat]

Ticket == [of : Alerts \cup {NoAlert}, closed : BOOLEAN]

Known(a) == alerts[a].status # "none"

(* The places where a job works on an incident, and where it holds its row. *)
OnIncident == {"assign", "incident", "count", "close", "bundle", "put", "resolve", "list", "flip",
               "flipped", "collect", "move", "summary", "mirror", "link"}
WithCopy == {"count", "close", "put", "resolve", "collect", "move", "summary", "link"}

(* A job names only rows that are there, and who reads an alert again has        *)
(* closed it.                                                                *)
Sound(job) ==
    /\ job.inc # 0 => Exists(job.inc)
    /\ job.at \in OnIncident => job.inc # 0
    /\ job.at \in {"collect", "move"} => Exists(job.etag)
    /\ job.alert \in Alerts => Known(job.alert)
    /\ job.at \in {"create", "assign", "reread", "flipped", "ask", "attach"} => job.alert \in Alerts
    /\ job.at \in {"reread", "flipped"} => Closed(job.alert)
    /\ \A a \in job.fresh : Known(a)
    /\ job.at = "move" => \A a \in job.todo : Known(a)
    /\ job.at = "attach" => \A t, u \in job.held : t = u /\ tickets[t].of = job.alert
    /\ job.at = "enqueue" =>
          \A t \in job.held : tickets[t].of \in Alerts /\ Closed(tickets[t].of)

(* A copy is of a version the row had, and a closed copy of an open row is an    *)
(* old one: writing it back is what the properties excuse.                   *)
FaithfulTo(job, row) ==
    /\ job.copy.status \in {"open", "resolved"} /\ job.copy.by = row.by
    /\ job.copy.version <= row.version
    /\ job.copy.version = row.version => job.copy = row
    /\ job.copy.status = "resolved" /\ row.status = "open" => job.inc \in excused

Faithful(job) == job.at \in WithCopy => FaithfulTo(job, incidents[job.inc])

(* A person has seen no later version than the handler read. *)
Requested(job) == job.at = "put" => job.etag \in 1 .. job.copy.version

RowsSound ==
    \A a \in Alerts : /\ ~Known(a) => alerts[a].incident = 0
                      /\ alerts[a].incident # 0 => Exists(alerts[a].incident)

JobsSound == \A p \in Procs : Sound(jobs[p]) /\ Faithful(jobs[p]) /\ Requested(jobs[p])

(* A ticket is stored at the alert it was made for, and closed after it. *)
TicketsSound ==
    /\ \A a \in Alerts : \A t \in TicketOf(a) : tickets[t].of = a
    /\ \A t \in TicketIds : tickets[t].of # NoAlert => Known(tickets[t].of)
    /\ \A t \in TicketIds : t \in closes \/ tickets[t].closed =>
            tickets[t].of # NoAlert /\ Closed(tickets[t].of)

(* A ticket is on its way to its alert, or its closing on the way to the outbox. *)
InHand(t) == \E p \in Procs : jobs[p].at \in {"attach", "enqueue"} /\ t \in jobs[p].held

(* A ticket that is not missed is closed, in somebody's hand, or stored at its    *)
(* alert; if the alert is closed, somebody looks at it again.                 *)
TicketsCared ==
    \A a \in Alerts : \A t \in TicketIds \ missed : tickets[t].of = a =>
        \/ Handled(t) \/ InHand(t)
        \/ t \in TicketOf(a) /\ (Closed(a) => LooksAgain(a))

(* Who has closed an incident still has to close the alerts that were in it. *)
Clears(job, i, a) ==
    job.inc = i /\ (job.at = "list" \/ (job.at \in {"flip", "flipped"} /\ a \in job.todo))

Cleared ==
    \A i \in Ids \ excused : incidents[i].status = "resolved" =>
        \A a \in ActiveIn(i) \ spared : \E p \in Procs : Clears(jobs[p], i, a)

(* Who is about to close an incident has seen all its alerts, but the spared ones. *)
Seen(job) ==
    job.inc \notin excused =>
        /\ job.at = "close" => ActiveIn(job.inc) \subseteq spared
        /\ job.at = "move" => ActiveIn(job.inc) \subseteq spared \cup job.todo
        /\ job.at \in {"list", "flip", "flipped"} => incidents[job.inc].status = "resolved"

AllSeen == \A p \in Procs : Seen(jobs[p])

(* Somebody looks after an incident whose last alert has recovered. *)
Looks(job, i) ==
    \/ job.at = "reread" /\ alerts[job.alert].incident = i
    \/ job.at \in {"incident", "count", "close"} /\ job.inc = i

LookedAfter ==
    \A i \in Ids \ excused :
        MayClose(i) /\ Members(i) # {} /\ ActiveIn(i) = {} => \E p \in Procs : Looks(jobs[p], i)

IncInv ==
    /\ TypeOK /\ RowsSound /\ JobsSound /\ TicketsSound /\ TicketsCared
    /\ Cleared /\ AllSeen /\ LookedAfter

-----------------------------------------------------------------------------
(* What every step has in common.                                           *)

LEMMA Typed ==
    ASSUME IncInv
    PROVE  /\ alerts \in [Alerts -> AlertRow] /\ incidents \in [Ids -> Rows]
           /\ jobs \in [Procs -> JobType] /\ tickets \in [TicketIds -> Ticket]
           /\ feed \subseteq Alerts /\ window \subseteq Alerts /\ closes \subseteq TicketIds
           /\ spared \subseteq Alerts /\ excused \subseteq Ids /\ missed \subseteq TicketIds
           /\ Ids \subseteq Nat \ {0} /\ TicketIds \subseteq Nat \ {0}
BY IncidentsAssumption DEF IncInv, TypeOK, AlertRow, JobType, Ticket, Ids, TicketIds

LEMMA IsTyped ==
    ASSUME alerts \in [Alerts -> AlertRow], incidents \in [Ids -> Rows],
           jobs \in [Procs -> JobType], tickets \in [TicketIds -> Ticket],
           feed \subseteq Alerts, window \subseteq Alerts, closes \subseteq TicketIds,
           spared \subseteq Alerts, excused \subseteq Ids, missed \subseteq TicketIds
    PROVE  TypeOK
BY DEF TypeOK, AlertRow, JobType, Ticket

LEMMA RowIs ==
    ASSUME NEW row \in Rows
    PROVE  /\ row.status \in {"none", "open", "resolved"} /\ row.version \in Nat
           /\ row.by \in {"nobody", "rule", "correlation", "user"} /\ row.url \in TicketIds \cup {0}
BY DEF Rows

LEMMA AlertIs ==
    ASSUME NEW row \in AlertRow
    PROVE  /\ row.status \in {"none", "active", "resolved", "expired"}
           /\ row.incident \in Ids \cup {0} /\ row.ticket \in TicketIds \cup {0}
BY DEF AlertRow

LEMMA FieldsOf ==
    ASSUME NEW job \in JobType
    PROVE  /\ job.inc \in Ids \cup {0} /\ job.alert \in Alerts \cup {NoAlert}
           /\ job.todo \subseteq Alerts /\ job.fresh \subseteq Alerts
           /\ job.copy \in Rows /\ job.held \subseteq TicketIds /\ job.etag \in Nat
BY DEF JobType

(* What the invariant says of one job. *)
Fine(job) == Sound(job) /\ Faithful(job) /\ Requested(job) /\ Seen(job)

LEMMA JobIs ==
    ASSUME IncInv, NEW p \in Procs
    PROVE  jobs[p] \in JobType /\ Fine(jobs[p])
BY Typed DEF IncInv, JobsSound, AllSeen, Fine

LEMMA IdleIs ==
    /\ Idle \in JobType /\ Idle.at = "idle" /\ Idle.inc = 0 /\ Idle.alert = NoAlert
    /\ Idle.fresh = {} /\ Idle.todo = {} /\ Idle.held = {} /\ NoAlert \notin Alerts
    /\ Idle.etag = 0 /\ Fine(Idle) /\ Fine(Idle)'
<1>1. /\ Idle \in JobType /\ Idle.at = "idle" /\ Idle.inc = 0 /\ Idle.alert = NoAlert
      /\ Idle.fresh = {} /\ Idle.todo = {} /\ Idle.held = {} /\ NoAlert \notin Alerts
      /\ Idle.etag = 0
  <2>1. NoRow \in Rows
    BY DEF NoRow, Rows
  <2>2. Idle \in JobType
    BY <2>1 DEF Idle, JobType, Places
  <2> QED
    BY <2>2, IncidentsAssumption DEF Idle
<1>2. Sound(Idle) /\ Faithful(Idle) /\ Requested(Idle) /\ Seen(Idle)
  BY <1>1 DEF Sound, OnIncident, Faithful, WithCopy, Requested, Seen
<1>3. Sound(Idle)' /\ Faithful(Idle)' /\ Requested(Idle)' /\ Seen(Idle)'
  BY <1>1 DEF Sound, OnIncident, Faithful, WithCopy, Requested, Seen
<1> QED
  BY <1>1, <1>2, <1>3 DEF Fine

LEMMA OneJob ==
    ASSUME jobs \in [Procs -> JobType], NEW p \in Procs, NEW job \in JobType, Becomes(p, job)
    PROVE  /\ jobs' \in [Procs -> JobType] /\ jobs'[p] = job
           /\ \A q \in Procs : q # p => jobs'[q] = jobs[q]
BY DEF Becomes

(* Nothing that a job relies on is ever taken back. *)
Onward ==
    /\ \A i \in Ids : Exists(i) => Exists(i)'
    /\ \A a \in Alerts : /\ Known(a) => Known(a)'
                         /\ Closed(a) => Closed(a)'
    /\ \A t \in TicketIds : tickets[t].of # NoAlert => tickets'[t].of = tickets[t].of
    /\ excused \subseteq excused'

LEMMA SoundKept ==
    ASSUME NEW job \in JobType, Sound(job), Onward
    PROVE  Sound(job)'
<1>1. /\ job.fresh \subseteq Alerts /\ job.todo \subseteq Alerts /\ job.held \subseteq TicketIds
      /\ job.inc \in Ids \cup {0}
  BY DEF JobType
<1>2. \A i : Exists(i) => i \in Ids
  BY DEF Exists
<1>3. ASSUME job.at = "attach", NEW t \in job.held PROVE tickets'[t].of = job.alert
  <2>1. tickets[t].of = job.alert /\ job.alert \in Alerts
    BY <1>3 DEF Sound
  <2>2. tickets[t].of # NoAlert /\ t \in TicketIds
    BY <1>1, <2>1, IncidentsAssumption
  <2> QED
    BY <2>1, <2>2 DEF Onward
<1>4. ASSUME job.at = "enqueue", NEW t \in job.held
      PROVE  (tickets[t].of \in Alerts /\ Closed(tickets[t].of))'
  <2>1. tickets[t].of \in Alerts /\ Closed(tickets[t].of)
    BY <1>4 DEF Sound
  <2>2. tickets[t].of # NoAlert /\ t \in TicketIds
    BY <1>1, <2>1, IncidentsAssumption
  <2>3. tickets'[t].of = tickets[t].of
    BY <2>2 DEF Onward
  <2> QED
    BY <2>1, <2>3 DEF Onward, Closed
<1> QED
  BY <1>1, <1>2, <1>3, <1>4 DEF Sound, Onward, Closed

LEMMA FaithfulKept ==
    ASSUME NEW job \in JobType, Faithful(job), excused \subseteq excused',
           job.at \in WithCopy => incidents'[job.inc] = incidents[job.inc]
    PROVE  Faithful(job)'
BY DEF Faithful, FaithfulTo

(* The other variables only grow, and what is to be closed belongs to a closed   *)
(* alert.                                                                    *)
Grows ==
    /\ feed' \subseteq Alerts /\ window' \subseteq Alerts
    /\ closes \subseteq closes' /\ closes' \subseteq TicketIds
    /\ excused \subseteq excused' /\ excused' \subseteq Ids
    /\ missed \subseteq missed' /\ missed' \subseteq TicketIds
    /\ spared \subseteq spared' /\ spared' \subseteq Alerts
    /\ \A t \in closes' \ closes : tickets[t].of # NoAlert /\ Closed(tickets[t].of)

-----------------------------------------------------------------------------
(* Steps that leave the rows alone.                                         *)

(* What a job still had to do is done, or its next stage does it. *)
HandsOver(job, next) ==
    /\ job.at \in {"reread", "flipped"} =>
          \/ next.alert = job.alert /\ next.at \in {"reread", "flipped"}
          \/ TicketOf(job.alert) \ missed' \subseteq closes'
    /\ job.at \in {"attach", "enqueue"} => \A t \in job.held \ missed' :
          \/ next.at \in {"attach", "enqueue"} /\ t \in next.held
          \/ t \in closes'
    /\ \A i \in Ids \ excused' : \A a \in ActiveIn(i) \ spared' : Clears(job, i, a) => Clears(next, i, a)
    /\ \A i \in Ids \ excused' : Looks(job, i) /\ MayClose(i) /\ ActiveIn(i) = {} => Looks(next, i)

LEMMA FineKept ==
    ASSUME NEW job \in JobType, Fine(job), UNCHANGED <<rows, tickets>>, spared \subseteq spared',
           excused \subseteq excused'
    PROVE  Fine(job)'
<1>1. Onward
  BY DEF Onward, rows, Exists, Known, Closed
<1>2. Sound(job)'
  BY <1>1, SoundKept DEF Fine
<1>3. Faithful(job)'
  BY FaithfulKept DEF Fine, rows
<1>4. Requested(job)'
  BY DEF Fine, Requested
<1>5. Seen(job)'
  BY DEF Fine, Seen, rows, ActiveIn, Members, Active
<1> QED
  BY <1>2, <1>3, <1>4, <1>5 DEF Fine

LEMMA FineThen ==
    ASSUME UNCHANGED <<rows, tickets>>, Grows, NEW q \in Procs, NEW job \in JobType,
           jobs'[q] = job, Fine(job) \/ Fine(job)'
    PROVE  Fine(jobs[q])'
<1>1. Fine(job)'
  BY FineKept DEF Grows
<1> QED
  BY <1>1 DEF Fine, Sound, Faithful, FaithfulTo, Requested, Seen

LEMMA JobsStep ==
    ASSUME IncInv, UNCHANGED <<rows, tickets>>, Grows, jobs' \in [Procs -> JobType],
           \A q \in Procs : Fine(jobs[q])' /\ HandsOver(jobs[q], jobs'[q])
    PROVE  IncInv'
<1> USE DEF rows
<1>1. TypeOK'
  BY Typed, IsTyped DEF Grows, TypeOK, AlertRow, JobType, Ticket
<1>2. RowsSound'
  BY DEF IncInv, RowsSound, Known, Exists
<1>4. JobsSound' /\ AllSeen'
  BY DEF JobsSound, AllSeen, Fine
<1>5. TicketsSound'
  BY DEF IncInv, TicketsSound, Grows, Known, Closed, TicketOf
<1>6. TicketsCared'
  <2> SUFFICES ASSUME NEW a \in Alerts, NEW t \in TicketIds \ missed', tickets[t].of = a,
                      t \notin closes', ~tickets[t].closed
               PROVE  InHand(t)' \/ (t \in TicketOf(a) /\ (Closed(a) => LooksAgain(a)'))
    BY DEF TicketsCared, Handled, Closed, TicketOf
  <2>1. t \notin missed /\ ~Handled(t)
    BY DEF Grows, Handled
  <2>2. CASE InHand(t)
    <3>1. PICK q \in Procs : jobs[q].at \in {"attach", "enqueue"} /\ t \in jobs[q].held
      BY <2>2 DEF InHand
    <3>2. jobs'[q].at \in {"attach", "enqueue"} /\ t \in jobs'[q].held
      BY <3>1 DEF HandsOver
    <3> QED
      BY <3>2 DEF InHand
  <2>3. CASE t \in TicketOf(a) /\ (Closed(a) => LooksAgain(a))
    <3> SUFFICES ASSUME Closed(a) PROVE LooksAgain(a)'
      BY <2>3
    <3>1. PICK q \in Procs : jobs[q].alert = a /\ jobs[q].at \in {"reread", "flipped"}
      BY <2>3 DEF LooksAgain
    <3>2. jobs'[q].alert = a /\ jobs'[q].at \in {"reread", "flipped"}
      BY <2>3, <3>1 DEF HandsOver
    <3> QED
      BY <3>2 DEF LooksAgain
  <2> QED
    BY <2>1, <2>2, <2>3 DEF IncInv, TicketsCared
<1>7. Cleared'
  <2> SUFFICES ASSUME NEW i \in Ids \ excused', incidents[i].status = "resolved",
                      NEW a \in ActiveIn(i) \ spared'
               PROVE  \E q \in Procs : Clears(jobs'[q], i, a)
    BY DEF Cleared, Clears, ActiveIn, Members, Active
  <2>1. PICK q \in Procs : Clears(jobs[q], i, a)
    BY DEF IncInv, Cleared, Grows
  <2> QED
    BY <2>1 DEF HandsOver
<1>8. LookedAfter'
  <2> SUFFICES ASSUME NEW i \in Ids \ excused', MayClose(i), Members(i) # {}, ActiveIn(i) = {}
               PROVE  \E q \in Procs : Looks(jobs'[q], i)
    BY DEF LookedAfter, Looks, ActiveIn, Members, Active, MayClose
  <2>1. PICK q \in Procs : Looks(jobs[q], i)
    BY DEF IncInv, LookedAfter, Grows
  <2> QED
    BY <2>1 DEF HandsOver
<1> QED
  BY <1>1, <1>2, <1>4, <1>5, <1>6, <1>7, <1>8 DEF IncInv

LEMMA JobStep ==
    ASSUME IncInv, UNCHANGED <<rows, tickets>>, Grows,
           NEW p \in Procs, NEW job \in JobType, Becomes(p, job), Fine(job) \/ Fine(job)',
           HandsOver(jobs[p], job)
    PROVE  IncInv'
<1>1. /\ jobs' \in [Procs -> JobType] /\ jobs'[p] = job
      /\ \A q \in Procs : q # p => jobs'[q] = jobs[q]
  BY Typed, OneJob
<1>2. ASSUME NEW q \in Procs PROVE Fine(jobs[q])'
  <2>1. PICK one \in JobType : one = jobs'[q]
    BY <1>1
  <2>2. Fine(one) \/ Fine(one)'
    <3>1. CASE q = p
      BY <1>1, <2>1, <3>1
    <3>2. CASE q # p
      BY <1>1, <2>1, <3>2, JobIs
    <3> QED
      BY <3>1, <3>2
  <2> QED
    BY <2>1, <2>2, FineThen
<1>3. \A q \in Procs : HandsOver(jobs[q], jobs[q])
  BY DEF HandsOver
<1> QED
  BY <1>1, <1>2, <1>3, JobsStep

(* Nobody relies on a job at any other place. *)
Free(job) == job.at \notin {"reread", "flipped", "list", "flip", "incident", "count", "close",
                           "attach", "enqueue"}

LEMMA FreeHandsOver ==
    ASSUME NEW job, NEW next, Free(job)
    PROVE  HandsOver(job, next)
BY DEF Free, HandsOver, Clears, Looks

LEMMA SameGrows ==
    ASSUME IncInv, feed' \subseteq Alerts, window' \subseteq Alerts,
           closes' = closes, excused' = excused, missed' = missed, spared' = spared
    PROVE  Grows
BY Typed DEF Grows

LEMMA QuietStep ==
    ASSUME IncInv, UNCHANGED <<rows, external, history>>,
           feed' \subseteq Alerts, window' \subseteq Alerts,
           NEW p \in Procs, NEW job \in JobType, Becomes(p, job), Fine(job),
           HandsOver(jobs[p], job)
    PROVE  IncInv'
BY SameGrows, JobStep DEF external, history

LEMMA NoJobStep ==
    ASSUME IncInv, UNCHANGED <<rows, jobs, external, history>>,
           feed' \subseteq Alerts, window' \subseteq Alerts
    PROVE  IncInv'
<1>1. Grows
  BY SameGrows DEF external, history
<1>2. ASSUME NEW q \in Procs PROVE Fine(jobs[q])'
  <2>1. PICK one \in JobType : one = jobs[q] /\ Fine(one)
    BY JobIs
  <2> QED
    BY <1>1, <2>1, FineThen DEF external
<1>3. \A q \in Procs : HandsOver(jobs[q], jobs[q])
  BY DEF HandsOver
<1> QED
  BY <1>1, <1>2, <1>3, Typed, JobsStep DEF external

LEMMA Hearing ==
    ASSUME IncInv, NEW a \in Alerts, Hear(a)
    PROVE  IncInv'
BY Typed, NoJobStep DEF Hear

LEMMA Sweeping ==
    ASSUME IncInv, NEW keep \in SUBSET Alerts, Sweep(keep)
    PROVE  IncInv'
<1> DEFINE job == [Idle EXCEPT !.at = "look", !.todo = keep]
<1>1. job \in JobType
  BY IdleIs DEF JobType, Places
<1>2. /\ job.at = "look" /\ job.inc = 0 /\ job.alert = NoAlert /\ job.fresh = {}
  BY IdleIs DEF JobType
<1>3. Becomes("correlator", job) /\ "correlator" \in Procs /\ jobs["correlator"].at = "idle"
  BY DEF Sweep, Procs, Workers, IsAt
<1> HIDE DEF job
<1>4. Fine(job)
  BY <1>2, IdleIs DEF Fine, Sound, OnIncident, Faithful, WithCopy, Requested, Seen
<1>5. HandsOver(jobs["correlator"], job)
  BY <1>3, FreeHandsOver DEF Free
<1> QED
  BY <1>1, <1>3, <1>4, <1>5, Typed, QuietStep DEF Sweep

LEMMA LookingAtAlert ==
    ASSUME IncInv, NEW a \in Alerts, LookAtAlert(a)
    PROVE  IncInv'
<1> DEFINE old == jobs["correlator"]
           in == alerts[a].incident
           inc == IF in # 0 THEN in ELSE old.inc
           fresh == IF in = 0 /\ Active(a) THEN old.fresh \cup {a} ELSE old.fresh
           job == [old EXCEPT !.todo = old.todo \ {a}, !.inc = inc, !.fresh = fresh]
<1>1. "correlator" \in Procs /\ old.at = "look" /\ Becomes("correlator", job)
  BY DEF LookAtAlert, Procs, Workers, IsAt
<1>2. old \in JobType /\ Fine(old)
  BY <1>1, JobIs
<1>3. alerts[a] \in AlertRow /\ (in # 0 => Exists(in))
  BY Typed DEF IncInv, RowsSound
<1>4. /\ inc \in Ids \cup {0} /\ fresh \subseteq Alerts /\ (inc # 0 => Exists(inc))
      /\ \A b \in fresh : Known(b)
  BY <1>2, <1>3, FieldsOf, AlertIs DEF Fine, Sound, Active, Known
<1> HIDE DEF inc, fresh, old
<1>5. job \in JobType
  BY <1>2, <1>4 DEF JobType
<1>6. job.at = "look" /\ job.alert = old.alert /\ job.inc = inc /\ job.fresh = fresh
  BY <1>1, <1>2 DEF JobType
<1> HIDE DEF job
<1>7. Fine(job)
  BY <1>1, <1>2, <1>4, <1>6 DEF Fine, Sound, OnIncident, Faithful, WithCopy, Requested, Seen
<1>8. HandsOver(old, job)
  BY <1>1, FreeHandsOver DEF Free
<1> QED
  BY <1>1, <1>5, <1>7, <1>8, Typed, QuietStep DEF LookAtAlert, old, correlator

LEMMA Looking ==
    ASSUME IncInv, Looked
    PROVE  IncInv'
<1> DEFINE old == jobs["correlator"]
<1>1. "correlator" \in Procs /\ old.at = "look" /\ old \in JobType /\ Fine(old)
  BY JobIs DEF Looked, Procs, Workers, IsAt
<1>2. UNCHANGED <<rows, external, history>> /\ feed' \subseteq Alerts /\ window' \subseteq Alerts
  BY Typed DEF Looked, correlator
<1>3. \A job \in JobType : HandsOver(old, job)
  BY <1>1, FreeHandsOver DEF Free
<1>4. CASE Ends("correlator")
  BY <1>1, <1>2, <1>3, <1>4, IdleIs, QuietStep DEF Ends
<1>5. CASE Goes("correlator", "bundle") /\ old.inc # 0
  <2> DEFINE job == [old EXCEPT !.at = "bundle"]
  <2>1. /\ job \in JobType /\ job.at = "bundle" /\ job.alert = old.alert /\ job.inc = old.inc
        /\ job.fresh = old.fresh
    BY <1>1 DEF JobType, Places
  <2>2. Becomes("correlator", job)
    BY <1>5 DEF Goes
  <2> HIDE DEF job
  <2>3. Fine(job)
    BY <1>1, <1>5, <2>1 DEF Fine, Sound, OnIncident, Faithful, WithCopy, Requested, Seen
  <2> QED
    BY <1>1, <1>2, <1>3, <2>1, <2>2, <2>3, QuietStep
<1>6. CASE Goes("correlator", "storm")
  <2> DEFINE job == [old EXCEPT !.at = "storm"]
  <2>1. /\ job \in JobType /\ job.at = "storm" /\ job.alert = old.alert /\ job.inc = old.inc
        /\ job.fresh = old.fresh
    BY <1>1 DEF JobType, Places
  <2>2. Becomes("correlator", job)
    BY <1>6 DEF Goes
  <2> HIDE DEF job
  <2>3. Fine(job)
    BY <1>1, <2>1 DEF Fine, Sound, OnIncident, Faithful, WithCopy, Requested, Seen
  <2> QED
    BY <1>1, <1>2, <1>3, <2>1, <2>2, <2>3, QuietStep
<1> QED
  BY <1>4, <1>5, <1>6 DEF Looked

LEMMA CountIs ==
    ASSUME NEW i
    PROVE  CountActiveAlerts(i) > 0 <=> ActiveIn(i) # {}
<1>1. ActiveIn(i) \subseteq Alerts
  BY DEF ActiveIn, Members
<1>2. IsFiniteSet(ActiveIn(i))
  BY <1>1, FS_Subset, IncidentsAssumption
<1>3. Cardinality(ActiveIn(i)) \in Nat /\ (Cardinality(ActiveIn(i)) = 0 <=> ActiveIn(i) = {})
  BY <1>2, FS_CardinalityType, FS_EmptySet
<1> QED
  BY <1>3 DEF CountActiveAlerts

(* Reading a closed alert again, for its ticket. *)
LEMMA ClosesItsTicket ==
    ASSUME IncInv, NEW p \in Procs, jobs[p].at \in {"reread", "flipped"},
           enqueueTicketClose(TicketOf(jobs[p].alert)),
           UNCHANGED <<rows, correlator, tickets, spared, excused>>
    PROVE  /\ Grows /\ jobs[p].alert \in Alerts
           /\ TicketOf(jobs[p].alert) \ missed' \subseteq closes'
<1> DEFINE a == jobs[p].alert
<1>1. a \in Alerts /\ Closed(a)
  BY JobIs DEF Fine, Sound
<1>2. alerts[a] \in AlertRow
  BY <1>1, Typed
<1>3. TicketOf(a) \subseteq TicketIds
  BY <1>2, AlertIs DEF TicketOf
<1>4. \A t \in TicketOf(a) : tickets[t].of = a
  BY <1>1 DEF IncInv, TicketsSound
<1> HIDE DEF a
<1>5. a # NoAlert
  BY <1>1, IncidentsAssumption
<1>6. \/ closes' = closes \cup TicketOf(a) /\ missed' = missed
      \/ closes' = closes /\ missed' = missed \cup TicketOf(a)
  BY DEF enqueueTicketClose, a
<1> QED
  BY <1>1, <1>3, <1>4, <1>5, <1>6, Typed DEF Grows, correlator, a

LEMMA Rereading ==
    ASSUME IncInv, NEW p \in Procs, Reread(p)
    PROVE  IncInv'
<1> DEFINE old == jobs[p]
           inc == alerts[old.alert].incident
           job == [old EXCEPT !.at = "incident", !.inc = inc]
<1>1. old.at = "reread" /\ old \in JobType /\ Fine(old)
  BY JobIs DEF Reread, IsAt
<1>2. Grows /\ old.alert \in Alerts /\ TicketOf(old.alert) \ missed' \subseteq closes'
  BY <1>1, ClosesItsTicket DEF Reread
<1>3. UNCHANGED <<rows, tickets>>
  BY DEF Reread
<1>4. alerts[old.alert] \in AlertRow /\ (inc # 0 => Exists(inc))
  BY <1>2, Typed DEF IncInv, RowsSound
<1>5. inc \in Ids \cup {0} /\ 0 \notin Ids
  BY <1>4, AlertIs, Typed
<1>6. CASE inc = 0
  <2>1. Becomes(p, Idle)
    BY <1>2, <1>6 DEF Reread, Members, Ends
  <2>2. HandsOver(old, Idle)
    BY <1>1, <1>2, <1>5, <1>6 DEF HandsOver, Clears, Looks
  <2> QED
    BY <1>2, <1>3, <2>1, <2>2, IdleIs, JobStep
<1>7. CASE inc # 0
  <2>1. Becomes(p, job)
    BY <1>2, <1>7 DEF Reread, Members
  <2> HIDE DEF inc
  <2>2. /\ job \in JobType /\ job.at = "incident" /\ job.alert = old.alert /\ job.inc = inc
        /\ job.fresh = old.fresh
    BY <1>1, <1>5 DEF JobType, Places
  <2> HIDE DEF job
  <2>3. Fine(job)
    BY <1>1, <1>4, <1>7, <2>2 DEF Fine, Sound, OnIncident, Faithful, WithCopy, Requested, Seen
  <2>4. HandsOver(old, job)
    BY <1>1, <1>2, <2>2 DEF HandsOver, Clears, Looks, inc
  <2> QED
    BY <1>2, <1>3, <2>1, <2>2, <2>3, <2>4, JobStep
<1> QED
  BY <1>6, <1>7

LEMMA RereadingListed ==
    ASSUME IncInv, NEW p \in Procs, RereadListed(p)
    PROVE  IncInv'
<1> DEFINE old == jobs[p]
           job == [old EXCEPT !.at = "flip"]
<1>1. old.at = "flipped" /\ old \in JobType /\ Fine(old)
  BY JobIs DEF RereadListed, IsAt
<1>2. Grows /\ TicketOf(old.alert) \ missed' \subseteq closes'
  BY <1>1, ClosesItsTicket DEF RereadListed
<1>3. UNCHANGED <<rows, tickets>>
  BY DEF RereadListed
<1>4. CASE old.todo = {}
  <2>1. Becomes(p, Idle)
    BY <1>4 DEF RereadListed, Ends
  <2>2. HandsOver(old, Idle)
    BY <1>1, <1>2, <1>4 DEF HandsOver, Clears, Looks
  <2> QED
    BY <1>2, <1>3, <2>1, <2>2, IdleIs, JobStep
<1>5. CASE old.todo # {}
  <2>1. Becomes(p, job)
    BY <1>5 DEF RereadListed, Goes
  <2>2. /\ job \in JobType /\ job.at = "flip" /\ job.alert = old.alert /\ job.inc = old.inc
        /\ job.fresh = old.fresh /\ job.todo = old.todo
    BY <1>1 DEF JobType, Places
  <2> HIDE DEF job
  <2>3. Fine(job)
    BY <1>1, <2>2 DEF Fine, Sound, OnIncident, Faithful, WithCopy, Requested, Seen
  <2>4. HandsOver(old, job)
    BY <1>1, <1>2, <2>2 DEF HandsOver, Clears, Looks
  <2> QED
    BY <1>2, <1>3, <2>1, <2>2, <2>3, <2>4, JobStep
<1> QED
  BY <1>4, <1>5

LEMMA LookingAtIncident ==
    ASSUME IncInv, NEW p \in Procs, LookAtIncident(p)
    PROVE  IncInv'
<1> DEFINE old == jobs[p]
           row == incidents[old.inc]
           job == [old EXCEPT !.at = "count", !.copy = row]
<1>1. old.at = "incident" /\ old \in JobType /\ Fine(old)
  BY JobIs DEF LookAtIncident, IsAt
<1>2. UNCHANGED <<rows, external, history>> /\ feed' \subseteq Alerts /\ window' \subseteq Alerts
  BY Typed DEF LookAtIncident, correlator
<1>3. old.inc \in Ids
  BY <1>1, FieldsOf DEF Fine, Sound, OnIncident
<1>4. row \in Rows
  BY <1>3, Typed
<1>5. CASE MayClose(old.inc)
  <2>1. Becomes(p, job) /\ row.status = "open"
    BY <1>5 DEF LookAtIncident, MayClose
  <2>2. /\ job \in JobType /\ job.at = "count" /\ job.alert = old.alert /\ job.inc = old.inc
        /\ job.fresh = old.fresh /\ job.copy = row
    BY <1>1, <1>4 DEF JobType, Places
  <2>3. row.version <= row.version
    BY <1>4, RowIs
  <2> HIDE DEF job
  <2>4. Faithful(job)
    BY <2>1, <2>2, <2>3 DEF Faithful, FaithfulTo
  <2>5. Fine(job)
    BY <1>1, <2>2, <2>4 DEF Fine, Sound, OnIncident, Requested, Seen
  <2>6. HandsOver(old, job)
    BY <1>1, <1>2, <2>2 DEF HandsOver, Clears, Looks
  <2> QED
    BY <1>2, <2>1, <2>2, <2>5, <2>6, QuietStep
<1>6. CASE ~MayClose(old.inc)
  <2>1. Becomes(p, Idle)
    BY <1>6 DEF LookAtIncident, Ends
  <2>2. HandsOver(old, Idle)
    BY <1>1, <1>6 DEF HandsOver, Clears, Looks
  <2> QED
    BY <1>2, <2>1, <2>2, IdleIs, QuietStep
<1> QED
  BY <1>5, <1>6

LEMMA Counting ==
    ASSUME IncInv, NEW p \in Procs, Count(p)
    PROVE  IncInv'
<1> DEFINE old == jobs[p]
           job == [old EXCEPT !.at = "close"]
<1>1. old.at = "count" /\ old \in JobType /\ Fine(old)
  BY JobIs DEF Count, IsAt
<1>2. UNCHANGED <<rows, external, history>> /\ feed' \subseteq Alerts /\ window' \subseteq Alerts
  BY Typed DEF Count, correlator
<1>3. CASE ActiveIn(old.inc) # {}
  <2>1. Becomes(p, Idle)
    BY <1>3, CountIs DEF Count, Ends
  <2>2. HandsOver(old, Idle)
    BY <1>1, <1>3 DEF HandsOver, Clears, Looks
  <2> QED
    BY <1>2, <2>1, <2>2, IdleIs, QuietStep
<1>4. CASE ActiveIn(old.inc) = {}
  <2>1. Becomes(p, job)
    BY <1>4, CountIs DEF Count, Goes
  <2>2. /\ job \in JobType /\ job.at = "close" /\ job.alert = old.alert /\ job.inc = old.inc
        /\ job.fresh = old.fresh /\ job.copy = old.copy
    BY <1>1 DEF JobType, Places
  <2> HIDE DEF job
  <2>3. Faithful(job)
    BY <1>1, <2>2 DEF Fine, Faithful, FaithfulTo, WithCopy
  <2>4. Fine(job)
    BY <1>1, <1>4, <2>2, <2>3 DEF Fine, Sound, OnIncident, Requested, Seen
  <2>5. HandsOver(old, job)
    BY <1>1, <2>2 DEF HandsOver, Clears, Looks
  <2> QED
    BY <1>2, <2>1, <2>2, <2>4, <2>5, QuietStep
<1> QED
  BY <1>3, <1>4

LEMMA ListingStale ==
    ASSUME IncInv, NEW as \in SUBSET Alerts, NEW page \in SUBSET Alerts, ListStale(as, page)
    PROVE  IncInv'
<1> DEFINE held == UNION {TicketOf(a) : a \in page}
           job == [Idle EXCEPT !.at = "expire", !.todo = as, !.held = held]
<1>1. jobs["engine"].at = "idle" /\ Becomes("engine", job) /\ "engine" \in Procs
  BY DEF ListStale, IsAt, Procs, Workers
<1>2. UNCHANGED <<rows, external, history>> /\ feed' \subseteq Alerts /\ window' \subseteq Alerts
  BY Typed DEF ListStale, correlator
<1>3. \A a \in Alerts : TicketOf(a) \subseteq TicketIds
  <2> TAKE a \in Alerts
  <2>1. alerts[a] \in AlertRow
    BY Typed
  <2> QED
    BY <2>1, AlertIs DEF TicketOf
<1>4. held \subseteq TicketIds
  BY <1>3
<1> HIDE DEF held
<1>5. /\ job \in JobType /\ job.at = "expire" /\ job.alert = NoAlert /\ job.inc = 0 /\ job.fresh = {}
  BY <1>4, IdleIs DEF JobType, Places
<1> HIDE DEF job
<1>6. Fine(job)
  BY <1>5, IdleIs DEF Fine, Sound, OnIncident, Faithful, WithCopy, Requested, Seen
<1>7. HandsOver(jobs["engine"], job)
  BY <1>1, FreeHandsOver DEF Free
<1> QED
  BY <1>1, <1>2, <1>5, <1>6, <1>7, QuietStep

(* A request, or a summary, starts with the row as it is. *)
Starts(job, i) ==
    /\ job \in JobType /\ job.at \in {"put", "resolve", "collect", "summary"}
    /\ job.alert = NoAlert /\ job.fresh = {} /\ job.inc = i /\ job.copy = incidents[i]
    /\ job.at = "put" => job.etag \in 1 .. incidents[i].version
    /\ job.at = "collect" => Exists(job.etag)

LEMMA Starting ==
    ASSUME IncInv, UNCHANGED <<rows, correlator, external, history>>,
           NEW p \in Procs, IsAt(p, "idle"), NEW i \in Ids, Exists(i),
           NEW job, Becomes(p, job), Starts(job, i)
    PROVE  IncInv'
<1> DEFINE row == incidents[i]
<1>1. row \in Rows
  BY Typed
<1>2. /\ row.status \in {"open", "resolved"} /\ row.version <= row.version
  BY <1>1, RowIs DEF Exists
<1>3. i # 0
  BY Typed
<1>4. Sound(job)
  BY <1>3, IdleIs DEF Starts, Sound, OnIncident
<1>5. Faithful(job)
  BY <1>2 DEF Starts, Faithful, FaithfulTo
<1>6. Requested(job) /\ Seen(job)
  BY DEF Starts, Requested, Seen
<1>7. HandsOver(jobs[p], job)
  BY FreeHandsOver DEF Free, IsAt
<1> QED
  BY <1>4, <1>5, <1>6, <1>7, Typed, QuietStep DEF Starts, Fine, correlator

LEMMA Requesting ==
    ASSUME IncInv, NEW r \in Requests, NEW i \in Ids, NEW j \in Ids,
           \/ \E seen \in 1 .. incidents[i].version : PutRequest(r, i, seen)
           \/ ResolveIncidentRequest(r, i)
           \/ MergeRequest(r, j, i)
    PROVE  IncInv'
<1>1. r \in Procs /\ j \in Nat /\ incidents[i] \in Rows
  BY Typed DEF Procs
<1>2. ASSUME NEW seen \in 1 .. incidents[i].version, PutRequest(r, i, seen)
      PROVE  IncInv'
  <2> DEFINE job == [Idle EXCEPT !.at = "put", !.inc = i, !.copy = incidents[i], !.etag = seen]
  <2>1. seen \in Nat
    BY <1>1, RowIs
  <2>2. /\ job \in JobType /\ job.at = "put" /\ job.alert = NoAlert /\ job.fresh = {}
        /\ job.inc = i /\ job.copy = incidents[i] /\ job.etag = seen
    BY <1>1, <2>1, IdleIs DEF JobType, Places
  <2>3. Starts(job, i)
    BY <2>2 DEF Starts
  <2> QED
    BY <1>1, <1>2, <2>3, Starting DEF PutRequest, Request
<1>3. CASE ResolveIncidentRequest(r, i)
  <2> DEFINE job == [Idle EXCEPT !.at = "resolve", !.inc = i, !.copy = incidents[i]]
  <2>1. Starts(job, i)
    BY <1>1, IdleIs DEF JobType, Places, Starts
  <2> QED
    BY <1>1, <1>3, <2>1, Starting DEF ResolveIncidentRequest, Request
<1>4. CASE MergeRequest(r, j, i)
  <2> DEFINE job == [Idle EXCEPT !.at = "collect", !.inc = i, !.copy = incidents[i], !.etag = j]
  <2>1. Starts(job, i)
    BY <1>1, <1>4, IdleIs DEF JobType, Places, Starts, MergeRequest
  <2> QED
    BY <1>1, <1>4, <2>1, Starting DEF MergeRequest, Request
<1> QED
  BY <1>2, <1>3, <1>4

LEMMA ReadingForSummary ==
    ASSUME IncInv, NEW p \in Procs, NEW i \in Ids, SummaryRead(p, i)
    PROVE  IncInv'
<1> DEFINE job == [Idle EXCEPT !.at = "summary", !.inc = i, !.copy = incidents[i]]
<1>1. incidents[i] \in Rows
  BY Typed
<1>2. Starts(job, i)
  BY <1>1, IdleIs DEF JobType, Places, Starts
<1> QED
  BY <1>2, Starting DEF SummaryRead

LEMMA Listing ==
    ASSUME IncInv, NEW p \in Procs, NEW page \in SUBSET Alerts, ListAlerts(p, page)
    PROVE  IncInv'
<1> DEFINE old == jobs[p]
           job == [old EXCEPT !.at = "flip", !.todo = page]
<1>1. old.at = "list" /\ old \in JobType /\ Fine(old)
  BY JobIs DEF ListAlerts, IsAt
<1>2. /\ UNCHANGED <<rows, correlator, external, excused, missed>>
      /\ spared' = spared \cup (ActiveIn(old.inc) \ page)
  BY DEF ListAlerts
<1>3. Grows
  BY <1>2, Typed DEF Grows, correlator, external, ActiveIn, Members
<1>4. CASE page = {}
  <2>1. Becomes(p, Idle)
    BY <1>4 DEF ListAlerts, Ends
  <2>2. HandsOver(old, Idle)
    BY <1>1, <1>2, <1>4 DEF HandsOver, Clears, Looks
  <2> QED
    BY <1>2, <1>3, <2>1, <2>2, IdleIs, JobStep DEF external
<1>5. CASE page # {}
  <2>1. Becomes(p, job)
    BY <1>5 DEF ListAlerts
  <2>2. /\ job \in JobType /\ job.at = "flip" /\ job.alert = old.alert /\ job.inc = old.inc
        /\ job.fresh = old.fresh /\ job.todo = page
    BY <1>1 DEF JobType, Places
  <2> HIDE DEF job
  <2>3. Fine(job)
    BY <1>1, <2>2 DEF Fine, Sound, OnIncident, Faithful, WithCopy, Requested, Seen
  <2>4. HandsOver(old, job)
    BY <1>1, <1>2, <2>2 DEF HandsOver, Clears, Looks
  <2> QED
    BY <1>2, <1>3, <2>1, <2>2, <2>3, <2>4, JobStep DEF external
<1> QED
  BY <1>4, <1>5

LEMMA Collecting ==
    ASSUME IncInv, NEW p \in Procs, NEW page \in SUBSET Alerts, Collect(p, page)
    PROVE  IncInv'
<1> DEFINE old == jobs[p]
           new == [old EXCEPT !.at = "move", !.todo = page]
<1>1. old.at = "collect" /\ old \in JobType /\ Fine(old)
  BY JobIs DEF Collect, IsAt
<1>2. /\ UNCHANGED <<rows, correlator, external, excused, missed>>
      /\ spared' = spared \cup (ActiveIn(old.inc) \ page)
      /\ Becomes(p, new) /\ page \subseteq Members(old.inc)
  BY DEF Collect, Lists
<1>3. Grows
  BY <1>2, Typed DEF Grows, correlator, external, ActiveIn, Members
<1>4. old.inc # 0
  BY <1>1 DEF Fine, Sound, OnIncident
<1>5. \A a \in page : Known(a)
  BY <1>2, <1>4 DEF IncInv, RowsSound, Members
<1>6. /\ new \in JobType /\ new.at = "move" /\ new.alert = old.alert /\ new.inc = old.inc
      /\ new.fresh = old.fresh /\ new.todo = page /\ new.copy = old.copy /\ new.etag = old.etag
  BY <1>1 DEF JobType, Places
<1> HIDE DEF new
<1>7. PICK job \in JobType : job = new
  BY <1>6
<1>8. Sound(job) /\ Faithful(job) /\ Requested(job)
  BY <1>1, <1>5, <1>6, <1>7
     DEF Fine, Sound, OnIncident, Faithful, FaithfulTo, WithCopy, Requested
<1>9. Sound(job)' /\ Faithful(job)' /\ Requested(job)'
  <2>1. Onward
    BY <1>2 DEF Onward, rows, external, Exists, Known, Closed
  <2> QED
    BY <1>2, <1>8, <2>1, SoundKept, FaithfulKept DEF rows, Requested
<1>10. Seen(job)'
  BY <1>2, <1>6, <1>7 DEF Seen, rows, ActiveIn, Members, Active
<1>11. Fine(job)'
  BY <1>9, <1>10 DEF Fine
<1>12. HandsOver(old, job) /\ Becomes(p, job)
  BY <1>1, <1>2, <1>7, FreeHandsOver DEF Free
<1> QED
  BY <1>2, <1>3, <1>11, <1>12, JobStep DEF external

LEMMA SkippingListed ==
    ASSUME IncInv, NEW p \in Procs, NEW a \in Alerts, SkipListed(p, a)
    PROVE  IncInv'
<1> DEFINE old == jobs[p]
           job == [old EXCEPT !.todo = old.todo \ {a}]
<1>1. old.at = "flip" /\ old \in JobType /\ Fine(old)
  BY JobIs DEF SkipListed, IsAt
<1>2. /\ UNCHANGED <<rows, correlator, external, excused, missed>>
      /\ spared' = spared \cup ({a} \cap ActiveIn(old.inc))
  BY DEF SkipListed
<1>3. Grows
  BY <1>2, Typed DEF Grows, correlator, external
<1>4. a \notin ActiveIn(old.inc) \ spared'
  BY <1>2
<1>5. CASE old.todo = {a}
  <2>1. Becomes(p, Idle)
    BY <1>5 DEF SkipListed, Ends
  <2>2. HandsOver(old, Idle)
    BY <1>1, <1>4, <1>5 DEF HandsOver, Clears, Looks
  <2> QED
    BY <1>2, <1>3, <2>1, <2>2, IdleIs, JobStep DEF external
<1>6. CASE old.todo # {a}
  <2>1. Becomes(p, job)
    BY <1>6 DEF SkipListed
  <2>2. /\ job \in JobType /\ job.at = "flip" /\ job.alert = old.alert /\ job.inc = old.inc
        /\ job.fresh = old.fresh /\ job.todo = old.todo \ {a}
    BY <1>1 DEF JobType
  <2> HIDE DEF job
  <2>3. Fine(job)
    BY <1>1, <2>2 DEF Fine, Sound, OnIncident, Faithful, WithCopy, Requested, Seen
  <2>4. HandsOver(old, job)
    BY <1>1, <1>4, <2>2 DEF HandsOver, Clears, Looks
  <2> QED
    BY <1>2, <1>3, <2>1, <2>2, <2>3, <2>4, JobStep DEF external
<1> QED
  BY <1>5, <1>6

LEMMA Refusing ==
    ASSUME IncInv, NEW p \in Procs, NEW url, Put(p, url), ~VersionMatches(jobs[p].inc, jobs[p].etag)
    PROVE  IncInv'
<1>1. UNCHANGED <<rows, external, history>> /\ feed' \subseteq Alerts /\ window' \subseteq Alerts
  BY Typed DEF Put, correlator, rows, external, history
<1>2. HandsOver(jobs[p], Idle) /\ Becomes(p, Idle)
  BY FreeHandsOver DEF Free, Put, IsAt, Ends
<1> QED
  BY <1>1, <1>2, IdleIs, QuietStep

LEMMA Delivering ==
    ASSUME IncInv, NEW a \in Alerts, DeliverNotification(a) \/ DeliverAction(a)
    PROVE  IncInv'
<1> DEFINE inc == alerts[a].incident
           job == [Idle EXCEPT !.at = "ask", !.alert = a, !.inc = inc]
<1>1. jobs["notify"].at = "idle" /\ Becomes("notify", job) /\ "notify" \in Procs /\ Known(a)
  BY DEF DeliverNotification, DeliverAction, AsksFor, IsAt, Procs, Workers, Active, Known
<1>2. UNCHANGED <<rows, external, history>> /\ feed' \subseteq Alerts /\ window' \subseteq Alerts
  BY Typed DEF DeliverNotification, DeliverAction, AsksFor, correlator
<1>3. alerts[a] \in AlertRow /\ (inc # 0 => Exists(inc))
  BY Typed DEF IncInv, RowsSound
<1>4. inc \in Ids \cup {0}
  BY <1>3, AlertIs
<1> HIDE DEF inc
<1>5. /\ job \in JobType /\ job.at = "ask" /\ job.alert = a /\ job.inc = inc /\ job.fresh = {}
  BY <1>4, IdleIs DEF JobType, Places
<1> HIDE DEF job
<1>6. Fine(job)
  BY <1>1, <1>3, <1>5, IdleIs DEF Fine, Sound, OnIncident, Faithful, WithCopy, Requested, Seen
<1>7. HandsOver(jobs["notify"], job)
  BY <1>1, FreeHandsOver DEF Free
<1> QED
  BY <1>1, <1>2, <1>5, <1>6, <1>7, QuietStep

LEMMA ReadingForLink ==
    ASSUME IncInv, ReadForLink
    PROVE  IncInv'
<1> DEFINE old == jobs["notify"]
           row == incidents[old.inc]
           job == [old EXCEPT !.at = "link", !.copy = row]
<1>1. "notify" \in Procs /\ old.at = "mirror" /\ old \in JobType /\ Fine(old)
  BY JobIs DEF ReadForLink, IsAt, Procs, Workers
<1>2. UNCHANGED <<rows, external, history>> /\ feed' \subseteq Alerts /\ window' \subseteq Alerts
  BY Typed DEF ReadForLink, correlator
<1>3. old.inc \in Ids /\ Exists(old.inc)
  BY <1>1, FieldsOf DEF Fine, Sound, OnIncident
<1>4. row \in Rows
  BY <1>3, Typed
<1>5. row.status \in {"open", "resolved"} /\ row.version <= row.version
  BY <1>3, <1>4, RowIs DEF Exists
<1>6. \A next \in JobType : HandsOver(old, next)
  BY <1>1, FreeHandsOver DEF Free
<1>7. CASE Becomes("notify", Idle)
  BY <1>1, <1>2, <1>6, <1>7, IdleIs, QuietStep
<1>8. CASE Becomes("notify", job)
  <2>1. Becomes("notify", job)
    BY <1>8
  <2> HIDE DEF row
  <2>2. /\ job \in JobType /\ job.at = "link" /\ job.alert = old.alert /\ job.inc = old.inc
        /\ job.fresh = old.fresh /\ job.copy = row
    BY <1>1, <1>4 DEF JobType, Places
  <2> HIDE DEF job
  <2>3. Faithful(job)
    BY <1>5, <2>2 DEF Faithful, FaithfulTo, row
  <2>4. Fine(job)
    BY <1>1, <2>2, <2>3 DEF Fine, Sound, OnIncident, Requested, Seen
  <2> QED
    BY <1>1, <1>2, <1>6, <2>1, <2>2, <2>4, QuietStep
<1> QED
  BY <1>7, <1>8 DEF ReadForLink, Ends

(* A job that is cut short: what it was about is excused. *)
LEMMA CutShort ==
    ASSUME IncInv, NEW p \in Procs
    PROVE  /\ Touched(p) \subseteq Ids /\ TicketsLost(p) \subseteq TicketIds
           /\ Touched(p) \subseteq excused' /\ TicketsLost(p) \subseteq missed'
                => HandsOver(jobs[p], Idle)
<1>1. jobs[p] \in JobType /\ Fine(jobs[p])
  BY JobIs
<1>2. \A a \in Alerts : /\ alerts[a].incident \in Ids \cup {0}
                        /\ TicketOf(a) \subseteq TicketIds
  <2> TAKE a \in Alerts
  <2>1. alerts[a] \in AlertRow
    BY Typed
  <2> QED
    BY <2>1, AlertIs DEF TicketOf
<1>3. jobs[p].inc \in Ids \cup {0} /\ 0 \notin Ids
  BY <1>1, FieldsOf, Typed
<1>4. Touched(p) \subseteq Ids
  BY <1>2, <1>3 DEF Touched, AlertOf
<1>5. TicketsLost(p) \subseteq TicketIds
  <2>1. jobs[p].held \subseteq TicketIds
    BY <1>1, FieldsOf
  <2>2. AlertOf(p) \subseteq Alerts
    BY DEF AlertOf
  <2>3. UNION {TicketOf(a) : a \in AlertOf(p)} \subseteq TicketIds
    BY <1>2, <2>2
  <2> QED
    BY <2>1, <2>3 DEF TicketsLost
<1>6. ASSUME Touched(p) \subseteq excused', TicketsLost(p) \subseteq missed'
      PROVE  HandsOver(jobs[p], Idle)
  <2>1. jobs[p].at \in {"reread", "flipped"} => jobs[p].alert \in Alerts
    BY <1>1 DEF Fine, Sound
  <2>2. jobs[p].at \in {"reread", "flipped"} => TicketOf(jobs[p].alert) \subseteq missed'
    BY <1>6, <2>1 DEF TicketsLost, AlertOf
  <2>3. \A i \in Ids : jobs[p].inc = i => i \in excused'
    BY <1>3, <1>6 DEF Touched
  <2>4. \A i \in Ids : jobs[p].at = "reread" /\ alerts[jobs[p].alert].incident = i => i \in excused'
    BY <1>3, <1>6, <2>1 DEF Touched, AlertOf
  <2>5. jobs[p].at \in {"attach", "enqueue"} => jobs[p].held \subseteq missed'
    <3> SUFFICES ASSUME jobs[p].at \in {"attach", "enqueue"} PROVE jobs[p].held \subseteq missed'
      OBVIOUS
    <3>1. jobs[p].held \subseteq TicketsLost(p)
      BY DEF TicketsLost
    <3> QED
      BY <1>6, <3>1
  <2> QED
    BY <2>2, <2>3, <2>4, <2>5 DEF HandsOver, Clears, Looks
<1> QED
  BY <1>4, <1>5, <1>6

LEMMA GivingUp ==
    ASSUME IncInv, NEW p \in Procs, GiveUp(p)
    PROVE  IncInv'
<1>1. HandsOver(jobs[p], Idle) /\ Becomes(p, Idle)
  BY CutShort DEF GiveUp, Ends
<1>2. Grows
  BY CutShort, Typed DEF GiveUp, Grows, correlator, external
<1> QED
  BY <1>1, <1>2, IdleIs, JobStep DEF GiveUp, external

LEMMA Restarting ==
    ASSUME IncInv, Restart
    PROVE  IncInv'
<1>1. \A p \in Procs : /\ Touched(p) \subseteq excused' /\ excused' \subseteq Ids
                       /\ TicketsLost(p) \subseteq missed' /\ missed' \subseteq TicketIds
  BY CutShort, Typed DEF Restart
<1>2. Grows
  <2>1. UNION {Touched(p) : p \in Procs} \subseteq Ids
    BY CutShort
  <2>2. UNION {TicketsLost(p) : p \in Procs} \subseteq TicketIds
    BY CutShort
  <2> QED
    BY <2>1, <2>2, Typed DEF Restart, Grows, external
<1>3. /\ \A p \in Procs : jobs'[p] = Idle /\ HandsOver(jobs[p], Idle)
      /\ jobs' \in [Procs -> JobType]
  BY <1>1, CutShort, IdleIs DEF Restart
<1>4. \A p \in Procs : Fine(jobs[p])'
  BY <1>2, <1>3, IdleIs, FineThen DEF Restart, external
<1> QED
  BY <1>2, <1>3, <1>4, JobsStep DEF Restart, external

-----------------------------------------------------------------------------
(* Steps that change the row of an incident.                                *)

(* Alerts and tickets are as they were, and so are those who look after them. *)
LEMMA TicketsFrame ==
    ASSUME IncInv, \A a \in Alerts : /\ Known(a) => Known(a)'
                                     /\ Closed(a) <=> Closed(a)'
                                     /\ alerts'[a].ticket = alerts[a].ticket,
           UNCHANGED external, missed' = missed,
           \A a \in Alerts : LooksAgain(a) => LooksAgain(a)',
           \A t \in TicketIds : InHand(t) => InHand(t)'
    PROVE  TicketsSound' /\ TicketsCared'
<1>1. TicketsSound'
  <2>1. \A t \in TicketIds : tickets[t].of \in Alerts \cup {NoAlert}
    BY Typed DEF Ticket
  <2> QED
    BY <2>1 DEF IncInv, TicketsSound, TicketOf, external
<1>2. TicketsCared'
  BY DEF IncInv, TicketsCared, TicketOf, Handled, external
<1> QED
  BY <1>1, <1>2

LEMMA StillLooks ==
    ASSUME IncInv, NEW p \in Procs, NEW job \in JobType, Becomes(p, job),
           jobs[p].at \notin {"reread", "flipped", "attach", "enqueue"}
    PROVE  /\ \A a \in Alerts : LooksAgain(a) => LooksAgain(a)'
           /\ \A t \in TicketIds : InHand(t) => InHand(t)'
BY Typed, OneJob DEF LooksAgain, InHand

LEMMA CreateStep ==
    ASSUME IncInv, NEW i, NewId(i), NEW by \in {"rule", "correlation", "user"},
           CreateIncident(i, by), UNCHANGED <<alerts, correlator, external, history>>,
           NEW p \in Procs, NEW job \in JobType, Becomes(p, job), Free(jobs[p]),
           job.at \in {"assign", "bundle"}, job.inc = i, job.at = "assign" => job.alert \in Alerts,
           job.alert \in Alerts => Known(job.alert), \A a \in job.fresh : Known(a)
    PROVE  IncInv'
<1> DEFINE new == [status |-> "open", by |-> by, url |-> 0, version |-> 1]
<1>1. new \in Rows /\ new.status = "open"
  BY DEF Rows
<1>2. i \in Ids /\ ~Exists(i) /\ i # 0
  BY Typed DEF NewId
<1>3. incidents' = [incidents EXCEPT ![i] = new]
  BY DEF CreateIncident
<1> HIDE DEF new
<1>4. /\ incidents'[i] = new /\ incidents' \in [Ids -> Rows]
      /\ \A j \in Ids : j # i => incidents'[j] = incidents[j]
  BY <1>1, <1>2, <1>3, Typed
<1>5. /\ jobs' \in [Procs -> JobType] /\ jobs'[p] = job
      /\ \A q \in Procs : q # p => jobs'[q] = jobs[q]
  BY Typed, OneJob
<1>6. TypeOK'
  BY <1>4, <1>5, Typed, IsTyped
     DEF TypeOK, AlertRow, JobType, Ticket, correlator, external, history
<1>7. Onward
  BY <1>1, <1>4, Typed DEF Onward, Exists, Known, Closed, external, history
<1>8. /\ \A a \in Alerts : alerts[a].incident # i
      /\ \A q \in Procs : jobs[q].inc # i
  BY <1>2, JobIs DEF IncInv, RowsSound, Fine, Sound
<1>9. RowsSound'
  <2> SUFFICES ASSUME NEW a \in Alerts
               PROVE  /\ ~Known(a) => alerts[a].incident = 0
                      /\ alerts[a].incident # 0 => Exists(alerts[a].incident)'
    BY DEF RowsSound, Known, Exists
  <2>1. \A j : Exists(j) => j \in Ids
    BY DEF Exists
  <2> QED
    BY <1>7, <2>1 DEF IncInv, RowsSound, Onward
<1>10. ASSUME NEW q \in Procs, q # p PROVE Fine(jobs[q])'
  <2>1. PICK other \in JobType : other = jobs[q] /\ Fine(other)
    BY JobIs
  <2>2. other.inc # i /\ other.inc \in Ids \cup {0}
    BY <1>8, <2>1, FieldsOf
  <2>3. other.at \in OnIncident => other.inc \in Ids
    BY <2>1, <2>2 DEF Fine, Sound
  <2>4. other.at \in WithCopy => other.at \in OnIncident
    BY DEF WithCopy, OnIncident
  <2>5. Sound(other)' /\ Requested(other)'
    BY <1>7, <2>1, SoundKept DEF Fine, Requested
  <2>6. Faithful(other)'
    BY <1>4, <2>1, <2>2, <2>3, <2>4, FaithfulKept DEF Fine, history
  <2>7. Seen(other)'
    BY <1>4, <2>1, <2>2, <2>3 DEF Fine, Seen, ActiveIn, Members, Active, OnIncident, history
  <2> QED
    BY <1>5, <1>10, <2>1, <2>5, <2>6, <2>7 DEF Fine, Sound, Faithful, FaithfulTo, Requested, Seen
<1>11. Fine(jobs[p])'
  <2>1. Exists(i)'
    BY <1>1, <1>2, <1>4 DEF Exists
  <2>2. Sound(job)' /\ Faithful(job)' /\ Requested(job)' /\ Seen(job)'
    BY <1>2, <2>1 DEF Sound, OnIncident, Faithful, WithCopy, Requested, Seen, Known
  <2> QED
    BY <1>5, <2>2 DEF Fine, Sound, Faithful, FaithfulTo, Requested, Seen
<1>12. JobsSound' /\ AllSeen'
  BY <1>10, <1>11 DEF JobsSound, AllSeen, Fine
<1>13. TicketsSound' /\ TicketsCared'
  BY StillLooks, TicketsFrame DEF Free, history, Known, Closed
<1>14. Cleared'
  <2> SUFFICES ASSUME NEW j \in Ids \ excused, incidents'[j].status = "resolved",
                      NEW a \in ActiveIn(j) \ spared
               PROVE  \E q \in Procs : Clears(jobs'[q], j, a)
    BY DEF Cleared, Clears, ActiveIn, Members, Active, history
  <2>1. incidents[j].status = "resolved"
    BY <1>1, <1>4
  <2>2. PICK q \in Procs : Clears(jobs[q], j, a)
    BY <2>1 DEF IncInv, Cleared
  <2> QED
    BY <1>5, <2>2 DEF Clears, Free
<1>15. LookedAfter'
  <2> SUFFICES ASSUME NEW j \in Ids \ excused, MayClose(j)', Members(j) # {}, ActiveIn(j) = {}
               PROVE  \E q \in Procs : Looks(jobs'[q], j)
    BY DEF LookedAfter, Looks, ActiveIn, Members, Active, history
  <2>1. j # i
    BY <1>8 DEF Members
  <2>2. MayClose(j)
    BY <1>4, <2>1 DEF MayClose
  <2>3. PICK q \in Procs : Looks(jobs[q], j)
    BY <2>2 DEF IncInv, LookedAfter
  <2> QED
    BY <1>5, <2>3 DEF Looks, Free
<1> QED
  BY <1>6, <1>9, <1>12, <1>13, <1>14, <1>15 DEF IncInv

LEMMA UpdateStep ==
    ASSUME IncInv, NEW p \in Procs, NEW row \in Rows, NEW job \in JobType,
           jobs[p].at \in {"close", "put", "resolve", "move", "summary", "link"},
           UpdateIncident(jobs[p].inc, row), Becomes(p, job),
           UNCHANGED <<alerts, correlator, external, spared, missed>>,
           row.by = jobs[p].copy.by,
           jobs[p].at = "close" => row.status = "resolved",
           \/ row.status = jobs[p].copy.status
           \/ /\ row.status = "resolved"
              /\ \/ jobs[p].at = "close"
                 \/ jobs[p].at = "move" /\ jobs[p].todo = {}
                 \/ jobs[p].at = "resolve" /\ job.at = "list",
           \/ job = Idle
           \/ /\ row.status = "resolved" /\ job.at = "list" /\ job.inc = jobs[p].inc
              /\ job.alert = jobs[p].alert /\ job.fresh = jobs[p].fresh
    PROVE  IncInv'
<1> DEFINE old == jobs[p]
           i == old.inc
           was == incidents[i]
           new == [row EXCEPT !.version = was.version + 1]
<1>1. old \in JobType /\ Fine(old)
  BY JobIs
<1>2. i \in Ids /\ Exists(i) /\ i # 0
  BY <1>1, FieldsOf DEF Fine, Sound, OnIncident
<1>3. was \in Rows /\ was.version \in Nat /\ was.status \in {"open", "resolved"}
  BY <1>2, Typed, RowIs DEF Exists
<1>4. FaithfulTo(old, was)
  BY <1>1 DEF Fine, Faithful, WithCopy
<1>5. row.status \in {"open", "resolved"} /\ row.by = was.by
  BY <1>4 DEF FaithfulTo
<1>6. /\ incidents' = [incidents EXCEPT ![i] = new]
      /\ excused' = IF row.status = "open" /\ was.status = "resolved"
                    THEN excused \cup {i} ELSE excused
  BY DEF UpdateIncident
<1> HIDE DEF was
<1>7. /\ new \in Rows /\ new.version = was.version + 1 /\ new.status = row.status
      /\ new.by = row.by
  BY <1>3 DEF Rows
<1> HIDE DEF new, i
<1>8. /\ incidents'[i] = new /\ incidents' \in [Ids -> Rows]
      /\ \A j \in Ids : j # i => incidents'[j] = incidents[j]
  BY <1>2, <1>6, <1>7, Typed
<1>9. /\ jobs' \in [Procs -> JobType] /\ jobs'[p] = job
      /\ \A q \in Procs : q # p => jobs'[q] = jobs[q]
  BY Typed, OneJob
<1>10. excused \subseteq excused' /\ excused' \subseteq Ids
  BY <1>2, <1>6, Typed
<1>11. new.status = "open" /\ was.status = "resolved" => i \in excused'
  BY <1>6, <1>7
<1>12. TypeOK'
  BY <1>8, <1>9, <1>10, Typed, IsTyped DEF TypeOK, AlertRow, JobType, Ticket, correlator, external
<1>13. Onward
  BY <1>5, <1>7, <1>8, <1>10, Typed DEF Onward, Exists, Known, Closed, external
<1>14. RowsSound'
  <2>1. \A j : Exists(j) => j \in Ids
    BY DEF Exists
  <2> SUFFICES ASSUME NEW a \in Alerts
               PROVE  /\ ~Known(a) => alerts[a].incident = 0
                      /\ alerts[a].incident # 0 => Exists(alerts[a].incident)'
    BY DEF RowsSound, Known, Exists
  <2> QED
    BY <1>13, <2>1 DEF IncInv, RowsSound, Onward
<1>15. ASSUME NEW q \in Procs, q # p PROVE Fine(jobs[q])'
  <2>1. PICK other \in JobType : other = jobs[q] /\ Fine(other)
    BY JobIs
  <2>2. other.inc \in Ids \cup {0} /\ other.copy \in Rows
    BY FieldsOf
  <2>3. other.at \in OnIncident => other.inc \in Ids
    BY <2>1, <2>2 DEF Fine, Sound
  <2>4. other.at \in WithCopy => other.at \in OnIncident
    BY DEF WithCopy, OnIncident
  <2>5. Sound(other)' /\ Requested(other)'
    BY <1>13, <2>1, SoundKept DEF Fine, Requested
  <2>6. CASE other.inc # i
    <3>1. Faithful(other)'
      BY <1>8, <1>10, <2>1, <2>3, <2>4, <2>6, FaithfulKept DEF Fine
    <3>2. Seen(other)'
      BY <1>8, <1>10, <2>1, <2>3, <2>6 DEF Fine, Seen, ActiveIn, Members, Active, OnIncident
    <3> QED
      BY <1>9, <1>15, <2>1, <2>5, <3>1, <3>2
         DEF Fine, Sound, Faithful, FaithfulTo, Requested, Seen
  <2>7. CASE other.inc = i
    <3>1. Faithful(other)'
      <4> SUFFICES ASSUME other.at \in WithCopy
                   PROVE  /\ other.copy.status \in {"open", "resolved"} /\ other.copy.by = new.by
                          /\ other.copy.version <= new.version
                          /\ other.copy.version # new.version
                          /\ other.copy.status = "resolved" /\ new.status = "open"
                                => other.inc \in excused'
        BY <1>8, <2>7 DEF Faithful, FaithfulTo
      <4>1. FaithfulTo(other, was)
        BY <2>1, <2>7 DEF Fine, Faithful, was
      <4>2. other.copy.version \in Nat
        BY <2>2, RowIs
      <4> QED
        BY <1>3, <1>5, <1>7, <1>10, <1>11, <2>7, <4>1, <4>2 DEF FaithfulTo
    <3>2. Seen(other)'
      <4>1. i \notin excused' /\ was.status = "resolved" => new.status = "resolved"
        BY <1>5, <1>7, <1>11
      <4>2. /\ i \notin excused' /\ other.at \in {"list", "flip", "flipped"}
                => was.status = "resolved"
            /\ i \notin excused' /\ other.at = "close" => ActiveIn(i) \subseteq spared
            /\ i \notin excused' /\ other.at = "move" => ActiveIn(i) \subseteq spared \cup other.todo
        BY <1>10, <2>1, <2>7 DEF Fine, Seen, was
      <4> QED
        BY <1>8, <2>7, <4>1, <4>2 DEF Seen, ActiveIn, Members, Active
    <3> QED
      BY <1>9, <1>15, <2>1, <2>5, <3>1, <3>2
         DEF Fine, Sound, Faithful, FaithfulTo, Requested, Seen
  <2> QED
    BY <2>6, <2>7
<1>16. Fine(jobs[p])'
  <2>1. CASE job = Idle
    BY <1>9, <2>1, IdleIs DEF Fine, Sound, Faithful, FaithfulTo, Requested, Seen
  <2>2. CASE /\ row.status = "resolved" /\ job.at = "list" /\ job.inc = old.inc
             /\ job.alert = old.alert /\ job.fresh = old.fresh
    <3>1. PICK one \in JobType : one = old /\ Sound(one)
      BY <1>1 DEF Fine
    <3>2. Sound(one)'
      BY <1>13, <3>1, SoundKept
    <3>3. Sound(job)'
      BY <1>2, <2>2, <3>1, <3>2 DEF Sound, OnIncident, i
    <3>4. Faithful(job)' /\ Requested(job)' /\ Seen(job)'
      BY <1>7, <1>8, <2>2 DEF Faithful, WithCopy, Requested, Seen, i
    <3> QED
      BY <1>9, <3>3, <3>4 DEF Fine, Sound, Faithful, FaithfulTo, Requested, Seen
  <2> QED
    BY <2>1, <2>2
<1>17. JobsSound' /\ AllSeen'
  BY <1>15, <1>16 DEF JobsSound, AllSeen, Fine
<1>18. TicketsSound' /\ TicketsCared'
  BY StillLooks, TicketsFrame DEF Known, Closed
<1>19. Cleared'
  <2> SUFFICES ASSUME NEW j \in Ids \ excused', incidents'[j].status = "resolved",
                      NEW a \in ActiveIn(j) \ spared
               PROVE  \E q \in Procs : Clears(jobs'[q], j, a)
    BY DEF Cleared, Clears, ActiveIn, Members, Active
  <2>1. CASE incidents[j].status = "resolved"
    <3>1. PICK q \in Procs : Clears(jobs[q], j, a)
      BY <1>10, <2>1 DEF IncInv, Cleared
    <3>2. q # p
      BY <3>1 DEF Clears
    <3> QED
      BY <1>9, <3>1, <3>2
  <2>2. CASE incidents[j].status # "resolved"
    <3>1. j = i /\ was.status = "open" /\ row.status = "resolved"
      BY <1>3, <1>7, <1>8, <2>2 DEF was
    <3>2. old.copy.status # "resolved"
      BY <1>4, <1>10, <3>1 DEF FaithfulTo, i
    <3>3. CASE old.at = "close"
      BY <1>1, <1>10, <3>1, <3>3 DEF Fine, Seen, i
    <3>4. CASE old.at = "move" /\ old.todo = {}
      BY <1>1, <1>10, <3>1, <3>4 DEF Fine, Seen, i
    <3>5. CASE old.at = "resolve" /\ job.at = "list"
      BY <1>9, <3>1, <3>5, IdleIs DEF Clears, i
    <3> QED
      BY <3>1, <3>2, <3>3, <3>4, <3>5
  <2> QED
    BY <2>1, <2>2
<1>20. LookedAfter'
  <2> SUFFICES ASSUME NEW j \in Ids \ excused', MayClose(j)', Members(j) # {}, ActiveIn(j) = {}
               PROVE  \E q \in Procs : Looks(jobs'[q], j)
    BY DEF LookedAfter, Looks, ActiveIn, Members, Active
  <2>1. MayClose(j)
    BY <1>3, <1>5, <1>7, <1>8, <1>11 DEF MayClose, was
  <2>2. PICK q \in Procs : Looks(jobs[q], j)
    BY <1>10, <2>1 DEF IncInv, LookedAfter
  <2>3. CASE q # p
    BY <1>9, <2>2, <2>3 DEF Looks
  <2>4. CASE q = p
    <3>1. old.at = "close" /\ j = i
      BY <2>2, <2>4 DEF Looks, i
    <3> QED
      BY <1>7, <1>8, <3>1 DEF MayClose
  <2> QED
    BY <2>3, <2>4
<1> QED
  BY <1>12, <1>14, <1>17, <1>18, <1>19, <1>20 DEF IncInv

-----------------------------------------------------------------------------
(* Steps that change alerts.                                                *)

(* A job that stays where it is keeps what the invariant says of it, if its      *)
(* incident did: its status, and its active alerts but the spared ones.         *)
LEMMA OtherFine ==
    ASSUME IncInv, Onward, UNCHANGED incidents, NEW q \in Procs, jobs'[q] = jobs[q],
           \A i \in Ids \ excused' :
               /\ jobs[q].at = "close" /\ jobs[q].inc = i /\ ActiveIn(i) \subseteq spared
                    => ActiveIn(i)' \subseteq spared'
               /\ jobs[q].at = "move" /\ jobs[q].inc = i /\ ActiveIn(i) \subseteq spared \cup jobs[q].todo
                    => ActiveIn(i)' \subseteq spared' \cup jobs[q].todo
    PROVE  Fine(jobs[q])'
<1>1. PICK other \in JobType : other = jobs[q] /\ Fine(other)
  BY JobIs
<1>2. Sound(other)' /\ Faithful(other)' /\ Requested(other)'
  BY <1>1, SoundKept, FaithfulKept DEF Fine, Requested, Onward
<1>3. Seen(other)'
  <2> SUFFICES ASSUME other.inc \notin excused'
               PROVE  /\ other.at = "close" => ActiveIn(other.inc)' \subseteq spared'
                      /\ other.at = "move" => ActiveIn(other.inc)' \subseteq spared' \cup other.todo
                      /\ other.at \in {"list", "flip", "flipped"}
                            => incidents[other.inc].status = "resolved"
    BY DEF Seen, ActiveIn, Members, Active
  <2>1. other.inc \in Ids \cup {0} /\ other.inc \notin excused
    BY FieldsOf DEF Onward
  <2>2. other.at \in OnIncident => other.inc \in Ids
    BY <1>1, <2>1 DEF Fine, Sound
  <2>3. /\ other.at = "close" => ActiveIn(other.inc) \subseteq spared
        /\ other.at = "move" => ActiveIn(other.inc) \subseteq spared \cup other.todo
        /\ other.at \in {"list", "flip", "flipped"} => incidents[other.inc].status = "resolved"
    BY <1>1, <2>1 DEF Fine, Seen
  <2> QED
    BY <1>1, <2>2, <2>3 DEF OnIncident
<1> QED
  BY <1>1, <1>2, <1>3 DEF Fine, Sound, Faithful, FaithfulTo, Requested, Seen

LEMMA AssignStep ==
    ASSUME IncInv, NEW p \in Procs, NEW a \in Alerts, NEW i \in Ids, Known(a), Exists(i),
           AssignAlertIncident(a, i), UNCHANGED <<incidents, correlator, external, missed>>,
           NEW job \in JobType, Becomes(p, job), jobs[p].at \in {"assign", "bundle", "move"},
           \/ job = Idle
           \/ /\ job.at = jobs[p].at /\ job.at # "assign" /\ job.inc = jobs[p].inc
              /\ job.etag = jobs[p].etag /\ job.copy = jobs[p].copy /\ job.alert = jobs[p].alert
              /\ job.fresh \subseteq jobs[p].fresh /\ job.todo \subseteq jobs[p].todo
              /\ job.at = "move" => job.todo = jobs[p].todo \ {a} /\ i = jobs[p].etag
    PROVE  IncInv'
<1> DEFINE old == jobs[p]
           from == alerts[a].incident
           row == [alerts[a] EXCEPT !.incident = i]
<1>1. old \in JobType /\ Fine(old) /\ i # 0
  BY JobIs, Typed
<1>2. alerts[a] \in AlertRow /\ from \in Ids \cup {0}
  BY Typed, AlertIs
<1>3. /\ row \in AlertRow /\ row.status = alerts[a].status /\ row.ticket = alerts[a].ticket
      /\ row.incident = i
  BY <1>2 DEF AlertRow
<1>4. alerts' = [alerts EXCEPT ![a] = row]
  BY DEF AssignAlertIncident
<1> HIDE DEF row
<1>5. /\ alerts' \in [Alerts -> AlertRow] /\ alerts'[a] = row
      /\ \A b \in Alerts : b # a => alerts'[b] = alerts[b]
  BY <1>3, <1>4, Typed
<1>6. /\ \A b \in Alerts : /\ alerts'[b].status = alerts[b].status
                           /\ alerts'[b].ticket = alerts[b].ticket
      /\ alerts'[a].incident = i
      /\ \A b \in Alerts : b # a => alerts'[b].incident = alerts[b].incident
  BY <1>3, <1>5
<1>7. /\ spared' = IF Closing(i) THEN spared \cup {a} ELSE spared \ {a}
      /\ excused' = excused \cup {j \in {i} : Closed(a)} \cup ({from} \ {0, i})
  BY DEF AssignAlertIncident
<1> HIDE DEF from
<1>8. spared' \subseteq Alerts /\ excused \subseteq excused' /\ excused' \subseteq Ids
  BY <1>2, <1>7, Typed
<1>9. /\ jobs' \in [Procs -> JobType] /\ jobs'[p] = job
      /\ \A q \in Procs : q # p => jobs'[q] = jobs[q]
  BY Typed, OneJob
<1>10. TypeOK'
  BY <1>5, <1>8, <1>9, Typed, IsTyped DEF TypeOK, AlertRow, JobType, Ticket, correlator, external
<1>11. Onward
  BY <1>6, <1>8 DEF Onward, Exists, Known, Closed, external
<1>12. RowsSound'
  BY <1>6 DEF IncInv, RowsSound, Known, Exists
(* Which alerts are active in an incident, and which of them are spared. *)
<1>13. \A j : \A b \in ActiveIn(j)' : /\ b \in Alerts /\ Active(b)
                                      /\ b = a => j = i
                                      /\ b # a => b \in ActiveIn(j) /\ (b \in spared <=> b \in spared')
  BY <1>6, <1>7 DEF ActiveIn, Members, Active
<1>14. ASSUME NEW q \in Procs, jobs[q].inc = i, jobs[q].at \in {"close", "move"}
       PROVE  a \in spared'
  BY <1>7, <1>14 DEF Closing
<1>15. ASSUME NEW q \in Procs, q # p PROVE Fine(jobs[q])'
  <2>1. \A j \in Ids \ excused' :
               /\ jobs[q].at = "close" /\ jobs[q].inc = j /\ ActiveIn(j) \subseteq spared
                    => ActiveIn(j)' \subseteq spared'
               /\ jobs[q].at = "move" /\ jobs[q].inc = j /\ ActiveIn(j) \subseteq spared \cup jobs[q].todo
                    => ActiveIn(j)' \subseteq spared' \cup jobs[q].todo
    BY <1>13, <1>14
  <2> QED
    BY <1>9, <1>11, <1>15, <2>1, OtherFine
<1>16. Fine(jobs[p])'
  <2>1. CASE job = Idle
    BY <1>9, <2>1, IdleIs DEF Fine, Sound, Faithful, FaithfulTo, Requested, Seen
  <2>2. CASE job # Idle
    <3>1. PICK one \in JobType : one = old /\ Fine(one)
      BY <1>1
    <3>2. Sound(one)' /\ Faithful(one)'
      BY <1>11, <3>1, SoundKept, FaithfulKept DEF Fine, Onward
    <3>3. Sound(job)'
      BY <2>2, <3>1, <3>2 DEF Sound, OnIncident
    <3>4. Faithful(job)' /\ Requested(job)'
      BY <2>2, <3>1, <3>2 DEF Faithful, FaithfulTo, Requested, WithCopy
    <3>5. Seen(job)'
      <4>1. job.at = "bundle" \/ job.at = "move"
        BY <2>2
      <4>2. ASSUME job.at = "move", job.inc \notin excused'
            PROVE  ActiveIn(job.inc)' \subseteq spared' \cup job.todo
        BY <1>1, <1>8, <1>13, <1>14, <2>2, <4>2 DEF Fine, Seen
      <4> QED
        BY <4>1, <4>2 DEF Seen, ActiveIn, Members, Active
    <3> QED
      BY <1>9, <3>3, <3>4, <3>5 DEF Fine, Sound, Faithful, FaithfulTo, Requested, Seen
  <2> QED
    BY <2>1, <2>2
<1>17. JobsSound' /\ AllSeen'
  BY <1>15, <1>16 DEF JobsSound, AllSeen, Fine
<1>18. TicketsSound' /\ TicketsCared'
  BY <1>6, StillLooks, TicketsFrame DEF Known, Closed
<1>19. Cleared'
  <2> SUFFICES ASSUME NEW j \in Ids \ excused', incidents[j].status = "resolved",
                      NEW b \in ActiveIn(j)' \ spared'
               PROVE  \E q \in Procs : Clears(jobs'[q], j, b)
    BY DEF Cleared, Clears, ActiveIn, Members, Active
  <2>1. b # a
    BY <1>7, <1>13 DEF Closing
  <2>2. PICK q \in Procs : Clears(jobs[q], j, b)
    BY <1>8, <1>13, <2>1 DEF IncInv, Cleared
  <2> QED
    BY <1>9, <2>2 DEF Clears
<1>20. LookedAfter'
  <2> SUFFICES ASSUME NEW j \in Ids \ excused', MayClose(j), Members(j)' # {}, ActiveIn(j)' = {}
               PROVE  \E q \in Procs : Looks(jobs[q], j)'
    BY DEF LookedAfter, MayClose
  <2>1. j # i
    BY <1>2, <1>6, <1>7, AlertIs DEF Known, Closed, ActiveIn, Members, Active
  <2>2. from # j
    BY <1>7, <2>1, Typed
  <2>3. Members(j) = Members(j)' /\ ActiveIn(j) = {}
    BY <1>6, <2>1, <2>2 DEF Members, ActiveIn, Active, from
  <2>4. PICK q \in Procs : Looks(jobs[q], j)
    BY <1>8, <2>3 DEF IncInv, LookedAfter
  <2>5. jobs[q].at = "reread" => jobs[q].alert \in Alerts
    BY JobIs DEF Fine, Sound
  <2>6. q # p
    BY <2>4 DEF Looks
  <2> QED
    BY <1>6, <1>9, <2>2, <2>4, <2>5, <2>6 DEF Looks, from
<1> QED
  BY <1>10, <1>12, <1>17, <1>18, <1>19, <1>20 DEF IncInv

LEMMA FlipStep ==
    ASSUME IncInv, NEW as \in SUBSET Alerts, \A b \in as : Active(b),
           NEW status \in {"resolved", "expired"}, FlipAlerts(as, status),
           UNCHANGED <<incidents, correlator, external, spared>>,
           excused \subseteq excused', excused' \subseteq Ids,
           missed \subseteq missed', missed' \subseteq TicketIds,
           NEW p \in Procs, NEW job \in JobType, Becomes(p, job),
           jobs[p].at \in {"idle", "flip", "expire"}, jobs[p].at = "flip" => job.at = "flipped",
           \/ job = Idle
           \/ job.at = "reread" /\ job.alert \in as /\ job.inc = 0 /\ job.fresh = {}
           \/ /\ job.at = "flipped" /\ jobs[p].at = "flip" /\ job.alert \in as
              /\ job.inc = jobs[p].inc /\ job.fresh = jobs[p].fresh
              /\ jobs[p].todo \ as \subseteq job.todo
           \/ /\ job.at = "enqueue" /\ jobs[p].at = "expire" /\ job.alert = jobs[p].alert
              /\ job.inc = jobs[p].inc /\ job.fresh = jobs[p].fresh
              /\ \A t \in job.held : /\ tickets[t].of \in Alerts
                                     /\ tickets[t].of \in as \/ Closed(tickets[t].of),
           \A b \in as : \/ \A t \in TicketOf(b) \ missed' : job.at = "enqueue" /\ t \in job.held
                         \/ job.alert = b /\ job.at \in {"reread", "flipped"},
           \A b \in as : \A j \in Ids \ excused' : alerts[b].incident = j =>
               ~MayClose(j) \/ (job.at = "reread" /\ job.alert = b)
    PROVE  IncInv'
<1>1. /\ \A b \in Alerts : /\ alerts'[b].incident = alerts[b].incident
                           /\ alerts'[b].ticket = alerts[b].ticket
                           /\ b \in as => alerts'[b].status = status
                           /\ b \notin as => alerts'[b].status = alerts[b].status
      /\ alerts' \in [Alerts -> AlertRow]
  <2>1. ASSUME NEW b \in Alerts
        PROVE  /\ [alerts[b] EXCEPT !.status = status] \in AlertRow
               /\ [alerts[b] EXCEPT !.status = status].status = status
               /\ [alerts[b] EXCEPT !.status = status].incident = alerts[b].incident
               /\ [alerts[b] EXCEPT !.status = status].ticket = alerts[b].ticket
               /\ alerts[b] \in AlertRow
    <3>1. alerts[b] \in AlertRow
      BY Typed
    <3> QED
      BY <3>1 DEF AlertRow
  <2>2. \A b \in Alerts : alerts'[b] = IF b \in as THEN [alerts[b] EXCEPT !.status = status]
                                       ELSE alerts[b]
    BY DEF FlipAlerts
  <2>3. alerts' \in [Alerts -> AlertRow]
    BY <2>1, <2>2 DEF FlipAlerts
  <2> QED
    BY <2>1, <2>2, <2>3
<1>2. /\ jobs' \in [Procs -> JobType] /\ jobs'[p] = job
      /\ \A q \in Procs : q # p => jobs'[q] = jobs[q]
  BY Typed, OneJob
<1>3. TypeOK'
  BY <1>1, <1>2, Typed, IsTyped DEF TypeOK, AlertRow, JobType, Ticket, correlator, external
<1>4. \A b \in Alerts : /\ Known(b) <=> Known(b)'
                        /\ Closed(b)' <=> Closed(b) \/ b \in as
                        /\ Active(b)' <=> Active(b) /\ b \notin as
  BY <1>1 DEF Known, Closed, Active
<1>5. Onward
  BY <1>4 DEF Onward, Exists, external
<1>6. RowsSound'
  BY <1>1, <1>4 DEF IncInv, RowsSound, Exists
<1>7. \A j : Members(j)' = Members(j) /\ ActiveIn(j)' = ActiveIn(j) \ as
  BY <1>1, <1>4 DEF ActiveIn, Members
<1>8. ASSUME NEW q \in Procs, q # p PROVE Fine(jobs[q])'
  BY <1>2, <1>5, <1>7, <1>8, OtherFine
<1>9. Fine(jobs[p])'
  <2>1. CASE job = Idle
    BY <1>2, <2>1, IdleIs DEF Fine, Sound, Faithful, FaithfulTo, Requested, Seen
  <2>2. CASE job.at = "reread" /\ job.alert \in as /\ job.inc = 0 /\ job.fresh = {}
    <3>1. Sound(job)' /\ Faithful(job)' /\ Requested(job)' /\ Seen(job)'
      BY <1>4, <2>2 DEF Sound, OnIncident, Faithful, WithCopy, Requested, Seen, Known, Active
    <3> QED
      BY <1>2, <3>1 DEF Fine, Sound, Faithful, FaithfulTo, Requested, Seen
  <2>3. CASE /\ job.at = "flipped" /\ jobs[p].at = "flip" /\ job.alert \in as
             /\ job.inc = jobs[p].inc /\ job.fresh = jobs[p].fresh
    <3>1. PICK one \in JobType : one = jobs[p] /\ Fine(one)
      BY JobIs
    <3>2. Sound(one)'
      BY <1>5, <3>1, SoundKept DEF Fine
    <3>3. Sound(job)'
      BY <1>4, <2>3, <3>1, <3>2 DEF Sound, OnIncident, Known, Active
    <3>4. Faithful(job)' /\ Requested(job)' /\ Seen(job)'
      BY <2>3, <3>1 DEF Fine, Faithful, WithCopy, Requested, Seen
    <3> QED
      BY <1>2, <3>3, <3>4 DEF Fine, Sound, Faithful, FaithfulTo, Requested, Seen
  <2>4. CASE /\ job.at = "enqueue" /\ jobs[p].at = "expire" /\ job.alert = jobs[p].alert
             /\ job.inc = jobs[p].inc /\ job.fresh = jobs[p].fresh
             /\ \A t \in job.held : /\ tickets[t].of \in Alerts
                                    /\ tickets[t].of \in as \/ Closed(tickets[t].of)
    <3>1. PICK one \in JobType : one = jobs[p] /\ Fine(one)
      BY JobIs
    <3>2. Sound(one)'
      BY <1>5, <3>1, SoundKept DEF Fine
    <3>3. \A t \in job.held : (tickets[t].of \in Alerts /\ Closed(tickets[t].of))'
      <4> TAKE t \in job.held
      <4>1. PICK b \in Alerts : b = tickets[t].of
        BY <2>4
      <4>2. Closed(b)'
        BY <1>4, <2>4, <4>1
      <4>3. tickets' = tickets
        BY DEF external
      <4> QED
        BY <4>1, <4>2, <4>3 DEF Closed
    <3>4. Sound(job)'
      BY <2>4, <3>1, <3>2, <3>3 DEF Sound, OnIncident, Closed
    <3>5. Faithful(job)' /\ Requested(job)' /\ Seen(job)'
      BY <2>4 DEF Faithful, WithCopy, Requested, Seen
    <3> QED
      BY <1>2, <3>4, <3>5 DEF Fine, Sound, Faithful, FaithfulTo, Requested, Seen
  <2> QED
    BY <2>1, <2>2, <2>3, <2>4
<1>10. JobsSound' /\ AllSeen'
  BY <1>8, <1>9 DEF JobsSound, AllSeen, Fine
<1>11. TicketsSound'
  <2>1. \A t \in TicketIds : tickets[t].of \in Alerts \cup {NoAlert}
    BY Typed DEF Ticket
  <2>2. \A a \in Alerts : \A t \in TicketOf(a)' : tickets[t].of = a
    BY <1>1 DEF IncInv, TicketsSound, TicketOf
  <2>3. ASSUME NEW t \in TicketIds, tickets[t].of # NoAlert PROVE Known(tickets[t].of)'
    <3>1. PICK a \in Alerts : a = tickets[t].of
      BY <2>1, <2>3
    <3>2. Known(a)
      BY <2>3, <3>1 DEF IncInv, TicketsSound
    <3> QED
      BY <1>4, <3>1, <3>2 DEF Known, external
  <2>4. ASSUME NEW t \in TicketIds, t \in closes \/ tickets[t].closed
        PROVE  tickets[t].of # NoAlert /\ Closed(tickets[t].of)'
    <3>1. PICK a \in Alerts : a = tickets[t].of
      BY <2>1, <2>4 DEF IncInv, TicketsSound
    <3>2. Closed(a) /\ a # NoAlert
      BY <2>4, <3>1 DEF IncInv, TicketsSound
    <3> QED
      BY <1>4, <3>1, <3>2 DEF Closed, external
  <2> QED
    BY <2>2, <2>3, <2>4 DEF TicketsSound, TicketOf, Known, Closed, external
<1>12. TicketsCared'
  <2> SUFFICES ASSUME NEW b \in Alerts, NEW t \in TicketIds \ missed', tickets[t].of = b,
                      ~Handled(t)
               PROVE  InHand(t)' \/ (t \in TicketOf(b) /\ (Closed(b)' => LooksAgain(b)'))
    BY <1>1 DEF TicketsCared, TicketOf, Handled, external
  <2>1. CASE InHand(t)
    <3>1. PICK q \in Procs : jobs[q].at \in {"attach", "enqueue"} /\ t \in jobs[q].held
      BY <2>1 DEF InHand
    <3>2. q # p
      BY <3>1
    <3> QED
      BY <1>2, <3>1, <3>2 DEF InHand
  <2>2. CASE t \in TicketOf(b) /\ (Closed(b) => LooksAgain(b))
    <3>1. CASE b \in as
      BY <1>2, <2>2, <3>1 DEF InHand, LooksAgain
    <3>2. CASE b \notin as
      <4> SUFFICES ASSUME Closed(b)' PROVE LooksAgain(b)'
        BY <2>2
      <4>1. PICK q \in Procs : jobs[q].alert = b /\ jobs[q].at \in {"reread", "flipped"}
        BY <1>4, <2>2, <3>2 DEF LooksAgain
      <4>2. q # p
        BY <4>1
      <4> QED
        BY <1>2, <4>1, <4>2 DEF LooksAgain
    <3> QED
      BY <3>1, <3>2
  <2> QED
    BY <2>1, <2>2 DEF IncInv, TicketsCared
<1>13. Cleared'
  <2> SUFFICES ASSUME NEW j \in Ids \ excused', incidents[j].status = "resolved",
                      NEW b \in ActiveIn(j)' \ spared
               PROVE  \E q \in Procs : Clears(jobs'[q], j, b)
    BY DEF Cleared, Clears, ActiveIn, Members, Active
  <2>1. b \in ActiveIn(j) /\ b \notin as
    BY <1>7
  <2>2. PICK q \in Procs : Clears(jobs[q], j, b)
    BY <2>1 DEF IncInv, Cleared
  <2>3. CASE q # p
    BY <1>2, <2>2, <2>3
  <2>4. CASE q = p
    BY <1>2, <2>1, <2>2, <2>4, IdleIs DEF Clears
  <2> QED
    BY <2>3, <2>4
<1>14. LookedAfter'
  <2> SUFFICES ASSUME NEW j \in Ids \ excused', MayClose(j), Members(j) # {}, ActiveIn(j)' = {}
               PROVE  \E q \in Procs : Looks(jobs[q], j)'
    BY <1>7 DEF LookedAfter, MayClose
  <2>1. CASE ActiveIn(j) = {}
    <3>1. PICK q \in Procs : Looks(jobs[q], j)
      BY <2>1 DEF IncInv, LookedAfter
    <3>2. q # p
      BY <3>1 DEF Looks
    <3>3. jobs[q].at = "reread" => jobs[q].alert \in Alerts
      BY JobIs DEF Fine, Sound
    <3> QED
      BY <1>1, <1>2, <3>1, <3>2, <3>3 DEF Looks
  <2>2. CASE ActiveIn(j) # {}
    <3>1. PICK b \in ActiveIn(j) : b \in as
      BY <1>7, <2>2
    <3>2. b \in Alerts /\ alerts[b].incident = j
      BY DEF ActiveIn, Members
    <3>3. job.at = "reread" /\ job.alert = b
      BY <3>1, <3>2
    <3> QED
      BY <1>1, <1>2, <3>2, <3>3 DEF Looks
  <2> QED
    BY <2>1, <2>2
<1> QED
  BY <1>3, <1>6, <1>10, <1>11, <1>12, <1>13, <1>14 DEF IncInv

(* A recovery, or a person who resolves the alert. *)
LEMMA Resolving ==
    ASSUME IncInv, NEW p \in Procs, NEW a \in Alerts, Resolves(p, a)
    PROVE  IncInv'
<1> DEFINE new == [Idle EXCEPT !.at = "reread", !.alert = a]
<1>1. /\ new \in JobType /\ new.at = "reread" /\ new.alert = a /\ new.inc = 0 /\ new.fresh = {}
  BY IdleIs DEF JobType, Places
<1>2. Becomes(p, new) /\ jobs[p].at = "idle"
  BY DEF Resolves, IsAt
<1> HIDE DEF new
<1>3. PICK job \in JobType : job = new
  BY <1>1
<1>4. FlipAlerts({a}, "resolved") /\ \A b \in {a} : Active(b)
  BY DEF Resolves, Resolve
<1>5. {a} \in SUBSET Alerts
  OBVIOUS
<1>6. Becomes(p, job)
  BY <1>2, <1>3
<1>7. /\ excused' = excused /\ excused \subseteq Ids /\ missed' = missed /\ missed \subseteq TicketIds
      /\ UNCHANGED <<incidents, correlator, external, spared>>
  BY Typed DEF Resolves, history
<1> QED
  BY <1>1, <1>2, <1>3, <1>4, <1>5, <1>6, <1>7, FlipStep

LEMMA FlippingListed ==
    ASSUME IncInv, NEW r \in Procs, NEW a \in Alerts, FlipListed(r, a)
    PROVE  IncInv'
<1> DEFINE old == jobs[r]
           new == [old EXCEPT !.at = "flipped", !.alert = a, !.todo = old.todo \ {a}]
<1>1. old.at = "flip" /\ old \in JobType /\ Fine(old)
  BY JobIs DEF FlipListed, IsAt
<1>2. /\ new \in JobType /\ new.at = "flipped" /\ new.alert = a /\ new.inc = old.inc
      /\ new.fresh = old.fresh /\ new.todo = old.todo \ {a}
  BY <1>1 DEF JobType, Places
<1>3. /\ Becomes(r, new) /\ FlipAlerts({a}, "resolved") /\ Active(a)
      /\ excused' = excused \cup ({alerts[a].incident} \ {0, old.inc})
  BY DEF FlipListed, Resolve
<1> HIDE DEF new
<1>4. PICK job \in JobType : job = new
  BY <1>2
<1>5. Becomes(r, job)
  BY <1>3, <1>4
<1>6. alerts[a] \in AlertRow
  BY Typed
<1>7. /\ excused \subseteq excused' /\ excused' \subseteq Ids
      /\ missed' = missed /\ missed \subseteq TicketIds
      /\ UNCHANGED <<incidents, correlator, external, spared>>
  BY <1>3, <1>6, AlertIs, Typed DEF FlipListed
<1>8. \A b \in {a} : \A j \in Ids \ excused' : alerts[b].incident = j => ~MayClose(j)
  BY <1>1, <1>3, <1>7, Typed DEF Fine, Seen, MayClose
<1> QED
  BY <1>1, <1>2, <1>3, <1>4, <1>5, <1>7, <1>8, FlipStep

LEMMA Expiring ==
    ASSUME IncInv, ExpireStale
    PROVE  IncInv'
<1> DEFINE old == jobs["engine"]
           due == {a \in old.todo : Active(a)}
           gone == UNION {TicketOf(a) : a \in due}
           told == PastHorizon(old.held, old.todo)
           new == [old EXCEPT !.at = "enqueue", !.held = told]
<1>1. "engine" \in Procs /\ old \in JobType /\ old.at = "expire"
  BY JobIs DEF ExpireStale, Procs, Workers, IsAt
<1>2. old.todo \subseteq Alerts /\ old.held \subseteq TicketIds
  BY <1>1, FieldsOf
<1>3. /\ FlipAlerts(due, "expired")
      /\ excused' = excused \cup ({alerts[a].incident : a \in due} \ {0})
      /\ missed' = missed \cup (gone \ told)
      /\ UNCHANGED <<incidents, correlator, external, spared>>
      /\ \/ (due = {} \/ told = {}) /\ Becomes("engine", Idle)
         \/ Becomes("engine", new)
  BY DEF ExpireStale, Ends
<1>4. due \in SUBSET Alerts /\ \A b \in due : Active(b)
  BY <1>2
<1>5. \A b \in Alerts : alerts[b].incident \in Ids \cup {0} /\ TicketOf(b) \subseteq TicketIds
  <2> TAKE b \in Alerts
  <2>1. alerts[b] \in AlertRow
    BY Typed
  <2> QED
    BY <2>1, AlertIs DEF TicketOf
<1>6. told \subseteq TicketIds
  BY <1>2 DEF PastHorizon
<1>7. excused' \subseteq Ids /\ missed' \subseteq TicketIds
  BY <1>3, <1>4, <1>5, Typed
<1>8. /\ new \in JobType /\ new.at = "enqueue" /\ new.alert = old.alert /\ new.inc = old.inc
      /\ new.fresh = old.fresh /\ new.held = told
  BY <1>1, <1>6 DEF JobType, Places
<1>9. \A b \in due : \A t \in TicketOf(b) \ missed' : t \in told
  BY <1>3
<1>10. ASSUME NEW t \in told
       PROVE  tickets[t].of \in Alerts /\ (tickets[t].of \in due \/ Closed(tickets[t].of))
  <2>1. t \in TicketIds /\ tickets[t].of \in old.todo
    BY <1>2 DEF PastHorizon
  <2>2. PICK a \in Alerts : a = tickets[t].of /\ a \in old.todo
    BY <1>2, <2>1
  <2>3. Known(a)
    BY <2>1, <2>2, IncidentsAssumption DEF IncInv, TicketsSound
  <2>4. alerts[a] \in AlertRow
    BY Typed
  <2>5. Active(a) \/ Closed(a)
    BY <2>3, <2>4, AlertIs DEF Known, Active, Closed
  <2> QED
    BY <2>2, <2>5
<1>11. \A b \in due : \A j \in Ids \ excused' : alerts[b].incident # j
  BY <1>3, Typed
<1>12. excused \subseteq excused' /\ missed \subseteq missed'
  BY <1>3
<1> HIDE DEF due, gone, told, new
<1>13. CASE (due = {} \/ told = {}) /\ Becomes("engine", Idle)
  <2>1. PICK job \in JobType : job = Idle
    BY IdleIs
  <2> QED
    BY <1>1, <1>3, <1>4, <1>7, <1>9, <1>11, <1>12, <1>13, <2>1, FlipStep
<1>14. CASE Becomes("engine", new)
  <2>1. PICK job \in JobType : job = new
    BY <1>8
  <2>2. Becomes("engine", job)
    BY <1>14, <2>1
  <2> QED
    BY <1>1, <1>3, <1>4, <1>7, <1>8, <1>9, <1>10, <1>11, <1>12, <2>1, <2>2, FlipStep
<1> QED
  BY <1>3, <1>13, <1>14

LEMMA EnqueuingStale ==
    ASSUME IncInv, NEW t \in TicketIds, EnqueueStale(t)
    PROVE  IncInv'
<1> DEFINE old == jobs["engine"]
           job == [old EXCEPT !.held = old.held \ {t}]
<1>1. /\ "engine" \in Procs /\ old \in JobType /\ Fine(old) /\ old.at = "enqueue"
      /\ t \in old.held
  BY JobIs DEF EnqueueStale, Procs, Workers, IsAt
<1>2. /\ UNCHANGED <<rows, correlator, tickets, spared, excused>>
      /\ \/ closes' = closes \cup {t} /\ missed' = missed
         \/ closes' = closes /\ missed' = missed \cup {t}
  BY DEF EnqueueStale, enqueueTicketClose
<1>3. tickets[t].of \in Alerts /\ Closed(tickets[t].of)
  BY <1>1 DEF Fine, Sound
<1>4. Grows
  BY <1>2, <1>3, Typed, IncidentsAssumption DEF Grows, correlator
<1>5. CASE old.held = {t} /\ Becomes("engine", Idle)
  <2>1. HandsOver(old, Idle)
    BY <1>1, <1>2, <1>5 DEF HandsOver, Clears, Looks
  <2> QED
    BY <1>1, <1>2, <1>4, <1>5, <2>1, IdleIs, JobStep
<1>6. CASE Becomes("engine", job)
  <2>1. /\ job \in JobType /\ job.at = "enqueue" /\ job.alert = old.alert /\ job.inc = old.inc
        /\ job.fresh = old.fresh /\ job.held = old.held \ {t}
    BY <1>1 DEF JobType
  <2>2. Becomes("engine", job)
    BY <1>6
  <2> HIDE DEF job
  <2>3. Fine(job)
    BY <1>1, <2>1 DEF Fine, Sound, OnIncident, Faithful, WithCopy, Requested, Seen
  <2>4. HandsOver(old, job)
    BY <1>1, <1>2, <2>1 DEF HandsOver, Clears, Looks
  <2> QED
    BY <1>1, <1>2, <1>4, <2>1, <2>2, <2>3, <2>4, JobStep
<1> QED
  BY <1>5, <1>6 DEF EnqueueStale, Ends

LEMMA Opening ==
    ASSUME IncInv, NEW a \in Alerts, Open(a)
    PROVE  IncInv'
<1> DEFINE row == [alerts[a] EXCEPT !.status = "active"]
           new == [Idle EXCEPT !.at = "create", !.alert = a]
<1>1. "engine" \in Procs /\ jobs["engine"].at = "idle" /\ alerts[a].status = "none"
  BY DEF Open, IsAt, Procs, Workers
<1>2. alerts[a] \in AlertRow /\ alerts[a].incident = 0
  BY <1>1, Typed DEF IncInv, RowsSound, Known
<1>3. /\ row \in AlertRow /\ row.status = "active" /\ row.incident = 0
      /\ row.ticket = alerts[a].ticket
  BY <1>2 DEF AlertRow
<1>4. /\ alerts' = [alerts EXCEPT ![a] = row]
      /\ UNCHANGED <<incidents, window, external, history>> /\ feed' \subseteq Alerts
  BY Typed DEF Open
<1> HIDE DEF row
<1>5. /\ alerts' \in [Alerts -> AlertRow] /\ alerts'[a] = row
      /\ \A b \in Alerts : b # a => alerts'[b] = alerts[b]
  BY <1>3, <1>4, Typed
<1>6. \A b \in Alerts : /\ alerts'[b].incident = alerts[b].incident
                        /\ alerts'[b].ticket = alerts[b].ticket
                        /\ Known(b) => Known(b)'
                        /\ Closed(b) <=> Closed(b)'
                        /\ b # a => (Active(b) <=> Active(b)')
  BY <1>1, <1>2, <1>3, <1>5 DEF Known, Closed, Active
<1>7. /\ new \in JobType /\ new.at = "create" /\ new.alert = a /\ new.inc = 0 /\ new.fresh = {}
  BY IdleIs DEF JobType, Places
<1>8. jobs' = jobs \/ Becomes("engine", new)
  BY DEF Open
<1> HIDE DEF new
<1>9. /\ jobs' \in [Procs -> JobType] /\ jobs'["engine"] \in {jobs["engine"], new}
      /\ \A q \in Procs : q # "engine" => jobs'[q] = jobs[q]
  BY <1>1, <1>7, <1>8, Typed, OneJob
<1>10. TypeOK'
  BY <1>4, <1>5, <1>9, Typed, IsTyped
     DEF TypeOK, AlertRow, JobType, Ticket, external, history
<1>11. Onward
  BY <1>4, <1>6 DEF Onward, Exists, external, history
<1>12. RowsSound'
  BY <1>2, <1>4, <1>6 DEF IncInv, RowsSound, Exists
<1>13. \A i \in Ids : Members(i)' = Members(i) /\ ActiveIn(i)' = ActiveIn(i)
  <2> TAKE i \in Ids
  <2>1. \A b \in Alerts : b \in ActiveIn(i)' <=> b \in ActiveIn(i)
    BY <1>2, <1>6, Typed DEF ActiveIn, Members
  <2>2. ActiveIn(i)' \subseteq Alerts /\ ActiveIn(i) \subseteq Alerts
    BY DEF ActiveIn, Members
  <2> QED
    BY <1>6, <2>1, <2>2 DEF Members
<1>14. ASSUME NEW q \in Procs, jobs'[q] = jobs[q] PROVE Fine(jobs[q])'
  BY <1>4, <1>11, <1>13, <1>14, OtherFine DEF history
<1>15. ASSUME jobs'["engine"] = new PROVE Fine(jobs["engine"])'
  <2>1. PICK job \in JobType : job = new
    BY <1>7
  <2>2. Known(a)'
    BY <1>3, <1>5 DEF Known
  <2>3. Sound(job)' /\ Faithful(job)' /\ Requested(job)' /\ Seen(job)'
    BY <1>7, <2>1, <2>2 DEF Sound, OnIncident, Faithful, WithCopy, Requested, Seen, Known
  <2> QED
    BY <1>15, <2>1, <2>3 DEF Fine, Sound, Faithful, FaithfulTo, Requested, Seen
<1>16. JobsSound' /\ AllSeen'
  BY <1>9, <1>14, <1>15 DEF JobsSound, AllSeen, Fine
<1>17. TicketsSound' /\ TicketsCared'
  <2>1. /\ \A b \in Alerts : LooksAgain(b) => LooksAgain(b)'
        /\ \A t \in TicketIds : InHand(t) => InHand(t)'
    BY <1>1, <1>9 DEF LooksAgain, InHand
  <2> QED
    BY <1>4, <1>6, <2>1, TicketsFrame DEF history
<1>18. Cleared'
  <2> SUFFICES ASSUME NEW i \in Ids \ excused, incidents[i].status = "resolved",
                      NEW b \in ActiveIn(i) \ spared
               PROVE  \E q \in Procs : Clears(jobs'[q], i, b)
    BY <1>4, <1>13 DEF Cleared, Clears, history
  <2>1. PICK q \in Procs : Clears(jobs[q], i, b)
    BY DEF IncInv, Cleared
  <2> QED
    BY <1>1, <1>9, <2>1 DEF Clears
<1>19. LookedAfter'
  <2> SUFFICES ASSUME NEW i \in Ids \ excused, MayClose(i), Members(i) # {}, ActiveIn(i) = {}
               PROVE  \E q \in Procs : Looks(jobs[q], i)'
    BY <1>4, <1>13 DEF LookedAfter, MayClose, history
  <2>1. PICK q \in Procs : Looks(jobs[q], i)
    BY DEF IncInv, LookedAfter
  <2>2. jobs[q].at = "reread" => jobs[q].alert \in Alerts
    BY JobIs DEF Fine, Sound
  <2> QED
    BY <1>1, <1>6, <1>9, <2>1, <2>2 DEF Looks
<1> QED
  BY <1>10, <1>12, <1>16, <1>17, <1>18, <1>19 DEF IncInv

-----------------------------------------------------------------------------
(* Steps about tickets.                                                     *)

(* The alerts and incidents are as they were, up to the tickets of alerts. *)
LEMMA SameIncidents ==
    ASSUME IncInv, UNCHANGED <<incidents, spared, excused>>,
           \A a \in Alerts : /\ alerts'[a].status = alerts[a].status
                             /\ alerts'[a].incident = alerts[a].incident,
           \A q \in Procs : /\ jobs'[q] # jobs[q] => jobs[q].at \in {"ask", "attach"}
                            /\ Fine(jobs[q])'
    PROVE  RowsSound' /\ JobsSound' /\ AllSeen' /\ Cleared' /\ LookedAfter'
<1>1. RowsSound'
  BY DEF IncInv, RowsSound, Known, Exists
<1>2. JobsSound' /\ AllSeen'
  BY DEF JobsSound, AllSeen, Fine
<1>3. \A i : Members(i)' = Members(i) /\ ActiveIn(i)' = ActiveIn(i)
  <2> TAKE i
  <2>1. Members(i)' = Members(i)
    BY DEF Members
  <2>2. \A b : b \in ActiveIn(i)' <=> b \in ActiveIn(i)
    BY <2>1 DEF ActiveIn, Active, Members
  <2> QED
    BY <2>1, <2>2
<1>4. Cleared'
  <2> SUFFICES ASSUME NEW i \in Ids \ excused, incidents[i].status = "resolved",
                      NEW b \in ActiveIn(i) \ spared
               PROVE  \E q \in Procs : Clears(jobs'[q], i, b)
    BY <1>3 DEF Cleared, Clears
  <2>1. PICK q \in Procs : Clears(jobs[q], i, b)
    BY DEF IncInv, Cleared
  <2> QED
    BY <2>1 DEF Clears
<1>5. LookedAfter'
  <2> SUFFICES ASSUME NEW i \in Ids \ excused, MayClose(i), Members(i) # {}, ActiveIn(i) = {}
               PROVE  \E q \in Procs : Looks(jobs[q], i)'
    BY <1>3 DEF LookedAfter, MayClose
  <2>1. PICK q \in Procs : Looks(jobs[q], i)
    BY DEF IncInv, LookedAfter
  <2>2. jobs[q].at = "reread" => jobs[q].alert \in Alerts
    BY JobIs DEF Fine, Sound
  <2> QED
    BY <2>1, <2>2 DEF Looks
<1> QED
  BY <1>1, <1>2, <1>4, <1>5

LEMMA CreatingTicket ==
    ASSUME IncInv, NEW t \in TicketIds, TicketCreated(t)
    PROVE  IncInv'
<1> DEFINE old == jobs["notify"]
           row == [tickets[t] EXCEPT !.of = old.alert]
           new == [old EXCEPT !.at = "attach", !.held = {t}]
<1>1. "notify" \in Procs /\ old.at = "ask" /\ old \in JobType /\ Fine(old)
  BY JobIs DEF TicketCreated, IsAt, Procs, Workers
<1>2. old.alert \in Alerts /\ old.alert # NoAlert /\ Known(old.alert)
  BY <1>1, IncidentsAssumption DEF Fine, Sound
<1>3. tickets[t] \in Ticket /\ tickets[t].of = NoAlert
  BY Typed DEF TicketCreated
<1>4. row \in Ticket /\ row.of = old.alert /\ row.closed = tickets[t].closed
  BY <1>2, <1>3 DEF Ticket
<1>5. /\ tickets' = [tickets EXCEPT ![t] = row]
      /\ UNCHANGED <<rows, correlator, closes, history>>
  BY DEF TicketCreated
<1>6. /\ new \in JobType /\ new.at = "attach" /\ new.alert = old.alert /\ new.inc = old.inc
      /\ new.fresh = old.fresh /\ new.held = {t}
  BY <1>1 DEF JobType, Places
<1>7. Becomes("notify", new)
  BY DEF TicketCreated
<1> HIDE DEF row, new
<1>8. /\ tickets' \in [TicketIds -> Ticket] /\ tickets'[t] = row
      /\ \A u \in TicketIds : u # t => tickets'[u] = tickets[u]
  BY <1>4, <1>5, Typed
<1>9. /\ jobs' \in [Procs -> JobType] /\ jobs'["notify"] = new
      /\ \A q \in Procs : q # "notify" => jobs'[q] = jobs[q]
  BY <1>1, <1>6, <1>7, Typed, OneJob
<1>10. TypeOK'
  BY <1>5, <1>8, <1>9, Typed, IsTyped
     DEF TypeOK, AlertRow, JobType, Ticket, rows, correlator, history
<1>11. Onward
  BY <1>3, <1>5, <1>8 DEF Onward, Exists, Known, Closed, rows, history
<1>12. ASSUME NEW q \in Procs, q # "notify" PROVE Fine(jobs[q])'
  <2>1. \A i : ActiveIn(i)' = ActiveIn(i)
    BY <1>5 DEF ActiveIn, Members, Active, rows
  <2> QED
    BY <1>5, <1>9, <1>11, <1>12, <2>1, OtherFine DEF rows, history
<1>13. Fine(jobs["notify"])'
  <2>1. PICK one \in JobType : one = old /\ Fine(one)
    BY <1>1
  <2>2. Sound(one)'
    BY <1>11, <2>1, SoundKept DEF Fine
  <2>3. PICK job \in JobType : job = new
    BY <1>6
  <2>4. Sound(job)'
    BY <1>1, <1>2, <1>4, <1>6, <1>8, <2>1, <2>2, <2>3 DEF Sound, OnIncident
  <2>5. Faithful(job)' /\ Requested(job)' /\ Seen(job)'
    BY <1>6, <2>3 DEF Faithful, WithCopy, Requested, Seen
  <2> QED
    BY <1>9, <2>3, <2>4, <2>5 DEF Fine, Sound, Faithful, FaithfulTo, Requested, Seen
<1>14. RowsSound' /\ JobsSound' /\ AllSeen' /\ Cleared' /\ LookedAfter'
  BY <1>1, <1>5, <1>9, <1>12, <1>13, SameIncidents DEF rows, history
<1>15. TicketsSound'
  <2>1. t \notin closes /\ ~tickets[t].closed /\ \A a \in Alerts : t \notin TicketOf(a)
    BY <1>3, IncidentsAssumption DEF IncInv, TicketsSound
  <2>2. \A a \in Alerts : TicketOf(a) \subseteq TicketIds
    <3> TAKE a \in Alerts
    <3>1. alerts[a] \in AlertRow
      BY Typed
    <3> QED
      BY <3>1, AlertIs DEF TicketOf
  <2>3. \A a \in Alerts : \A u \in TicketOf(a) : tickets'[u].of = a
    BY <1>8, <2>1, <2>2 DEF IncInv, TicketsSound
  <2>4. \A u \in TicketIds : tickets'[u].of # NoAlert => Known(tickets'[u].of)
    BY <1>2, <1>4, <1>8 DEF IncInv, TicketsSound
  <2>5. \A u \in TicketIds : u \in closes \/ tickets'[u].closed
            => tickets'[u].of # NoAlert /\ Closed(tickets'[u].of)
    BY <1>4, <1>8, <2>1 DEF IncInv, TicketsSound
  <2> QED
    BY <1>5, <2>3, <2>4, <2>5 DEF TicketsSound, TicketOf, Known, Closed, rows
<1>16. TicketsCared'
  <2> SUFFICES ASSUME NEW a \in Alerts, NEW u \in TicketIds \ missed, tickets'[u].of = a
               PROVE  \/ u \in closes \/ tickets'[u].closed \/ InHand(u)'
                      \/ u \in TicketOf(a) /\ (Closed(a) => LooksAgain(a)')
    BY <1>5 DEF TicketsCared, Handled, Closed, TicketOf, rows, history
  <2>1. CASE u = t
    BY <1>1, <1>6, <1>9, <2>1 DEF InHand
  <2>2. CASE u # t
    <3>1. tickets'[u] = tickets[u]
      BY <1>8, <2>2
    <3>2. Handled(u) \/ InHand(u) \/ (u \in TicketOf(a) /\ (Closed(a) => LooksAgain(a)))
      BY <3>1 DEF IncInv, TicketsCared
    <3>3. (InHand(u) => InHand(u)') /\ (LooksAgain(a) => LooksAgain(a)')
      BY <1>1, <1>9 DEF LooksAgain, InHand
    <3> QED
      BY <3>1, <3>2, <3>3 DEF Handled
  <2> QED
    BY <2>1, <2>2
<1> QED
  BY <1>10, <1>14, <1>15, <1>16 DEF IncInv

(* The write of its key fails: the ticket is lost. *)
LEMMA LosingTicket ==
    ASSUME IncInv, NEW t \in TicketIds, SetAlertTicket(t), UNCHANGED alerts, missed' = missed \cup {t}
    PROVE  IncInv'
<1> DEFINE old == jobs["notify"]
           job == [old EXCEPT !.at = "mirror"]
<1>1. "notify" \in Procs /\ old.at = "attach" /\ old \in JobType /\ Fine(old) /\ t \in old.held
  BY JobIs DEF SetAlertTicket, IsAt, Procs, Workers
<1>2. UNCHANGED <<rows, correlator, external, spared, excused>>
  BY DEF SetAlertTicket, rows
<1>3. Grows
  BY <1>2, Typed DEF Grows, correlator, external
<1>4. old.held \subseteq missed'
  BY <1>1 DEF Fine, Sound
<1>5. \A next : HandsOver(old, next)
  BY <1>1, <1>4 DEF HandsOver, Clears, Looks
<1>6. CASE Becomes("notify", Idle)
  BY <1>1, <1>2, <1>3, <1>5, <1>6, IdleIs, JobStep DEF external
<1>7. CASE old.inc # 0 /\ Becomes("notify", job)
  <2>1. /\ job \in JobType /\ job.at = "mirror" /\ job.alert = old.alert /\ job.inc = old.inc
        /\ job.fresh = old.fresh
    BY <1>1 DEF JobType, Places
  <2>2. Becomes("notify", job)
    BY <1>7
  <2> HIDE DEF job
  <2>3. Fine(job)
    BY <1>1, <1>7, <2>1 DEF Fine, Sound, OnIncident, Faithful, WithCopy, Requested, Seen
  <2> QED
    BY <1>1, <1>2, <1>3, <1>5, <2>1, <2>2, <2>3, JobStep DEF external
<1> QED
  BY <1>6, <1>7 DEF SetAlertTicket, Ends, Goes

LEMMA StoringTicket ==
    ASSUME IncInv, NEW t \in TicketIds, SetAlertTicket(t),
           missed' = missed \cup {u \in {t} : Closed(jobs["notify"].alert)
                                              /\ ~LooksAgain(jobs["notify"].alert)}
                            \cup {u \in TicketOf(jobs["notify"].alert) : ~Handled(u)},
           alerts' = [alerts EXCEPT ![jobs["notify"].alert].ticket = t]
    PROVE  IncInv'
<1> DEFINE old == jobs["notify"]
           a == old.alert
           row == [alerts[a] EXCEPT !.ticket = t]
           new == [old EXCEPT !.at = "mirror"]
<1>1. "notify" \in Procs /\ old.at = "attach" /\ old \in JobType /\ Fine(old) /\ t \in old.held
  BY JobIs DEF SetAlertTicket, IsAt, Procs, Workers
<1>2. a \in Alerts /\ tickets[t].of = a /\ t # 0
  BY <1>1, Typed DEF Fine, Sound
<1>3. alerts[a] \in AlertRow
  BY <1>2, Typed
<1>4. /\ row \in AlertRow /\ row.status = alerts[a].status /\ row.ticket = t
      /\ row.incident = alerts[a].incident
  BY <1>3 DEF AlertRow
<1>5. /\ alerts' = [alerts EXCEPT ![a] = row]
      /\ missed' = missed \cup {u \in {t} : Closed(a) /\ ~LooksAgain(a)}
                           \cup {u \in TicketOf(a) : ~Handled(u)}
      /\ UNCHANGED <<incidents, correlator, external, spared, excused>>
  BY DEF SetAlertTicket
<1>6. /\ new \in JobType /\ new.at = "mirror" /\ new.alert = a /\ new.inc = old.inc
      /\ new.fresh = old.fresh
  BY <1>1 DEF JobType, Places
<1>7. Becomes("notify", Idle) \/ (old.inc # 0 /\ Becomes("notify", new))
  BY DEF SetAlertTicket, Ends, Goes
<1> HIDE DEF row, new
<1>8. /\ alerts' \in [Alerts -> AlertRow] /\ alerts'[a] = row
      /\ \A b \in Alerts : b # a => alerts'[b] = alerts[b]
  BY <1>2, <1>4, <1>5, Typed
<1>9. \A b \in Alerts : /\ alerts'[b].status = alerts[b].status
                        /\ alerts'[b].incident = alerts[b].incident
                        /\ TicketOf(b)' = IF b = a THEN {t} ELSE TicketOf(b)
  BY <1>2, <1>4, <1>8 DEF TicketOf
<1> HIDE DEF a
<1>10. /\ jobs' \in [Procs -> JobType]
       /\ jobs'["notify"] = Idle \/ (old.inc # 0 /\ jobs'["notify"] = new)
       /\ \A q \in Procs : q # "notify" => jobs'[q] = jobs[q]
  BY <1>1, <1>6, <1>7, Typed, OneJob, IdleIs
<1>11. missed \subseteq missed' /\ missed' \subseteq TicketIds
  BY <1>3, <1>5, Typed, AlertIs DEF TicketOf
<1>12. TypeOK'
  BY <1>5, <1>8, <1>10, <1>11, Typed, IsTyped
     DEF TypeOK, AlertRow, JobType, Ticket, correlator, external
<1>13. Onward
  BY <1>5, <1>9 DEF Onward, Exists, Known, Closed, external
<1>14. ASSUME NEW q \in Procs, q # "notify" PROVE Fine(jobs[q])'
  <2>1. \A i : ActiveIn(i)' = ActiveIn(i)
    <3> TAKE i
    <3>1. \A b : b \in ActiveIn(i)' <=> b \in ActiveIn(i)
      BY <1>9 DEF ActiveIn, Active, Members
    <3> QED
      BY <3>1
  <2> QED
    BY <1>5, <1>10, <1>13, <1>14, <2>1, OtherFine
<1>15. Fine(jobs["notify"])'
  <2>1. CASE jobs'["notify"] = Idle
    BY <2>1, IdleIs DEF Fine, Sound, Faithful, FaithfulTo, Requested, Seen
  <2>2. CASE jobs'["notify"] = new /\ old.inc # 0
    <3>1. PICK one \in JobType : one = old /\ Fine(one)
      BY <1>1
    <3>2. Sound(one)'
      BY <1>13, <3>1, SoundKept DEF Fine
    <3>3. PICK job \in JobType : job = new
      BY <1>6
    <3>4. Sound(job)'
      BY <1>6, <2>2, <3>1, <3>2, <3>3 DEF Sound, OnIncident, a
    <3>5. Faithful(job)' /\ Requested(job)' /\ Seen(job)'
      BY <1>6, <3>3 DEF Faithful, WithCopy, Requested, Seen
    <3> QED
      BY <2>2, <3>3, <3>4, <3>5 DEF Fine, Sound, Faithful, FaithfulTo, Requested, Seen
  <2> QED
    BY <1>10, <2>1, <2>2
<1>16. RowsSound' /\ JobsSound' /\ AllSeen' /\ Cleared' /\ LookedAfter'
  BY <1>1, <1>5, <1>9, <1>10, <1>14, <1>15, SameIncidents
<1>17. TicketsSound'
  <2>1. \A b \in Alerts : Closed(b)' <=> Closed(b)
    BY <1>9 DEF Closed
  <2>2. \A b \in Alerts : Known(b)' <=> Known(b)
    BY <1>9 DEF Known
  <2>3. \A u \in TicketIds : tickets[u].of \in Alerts \cup {NoAlert}
    BY Typed DEF Ticket
  <2>4. \A b \in Alerts : \A u \in TicketOf(b)' : tickets[u].of = b
    BY <1>2, <1>9 DEF IncInv, TicketsSound
  <2> QED
    BY <1>5, <2>1, <2>2, <2>3, <2>4 DEF IncInv, TicketsSound, external
<1>18. TicketsCared'
  <2>1. \A b \in Alerts : (Closed(b)' <=> Closed(b)) /\ (LooksAgain(b) => LooksAgain(b)')
    BY <1>1, <1>9, <1>10 DEF Closed, LooksAgain
  <2> SUFFICES ASSUME NEW b \in Alerts, NEW u \in TicketIds, u \notin missed', tickets[u].of = b,
                      ~Handled(u)
               PROVE  InHand(u)' \/ (u \in TicketOf(b)' /\ (Closed(b) => LooksAgain(b)))
    BY <1>5, <2>1 DEF TicketsCared, Handled, external
  <2>2. Closed(a) /\ u = t => LooksAgain(a)
    BY <1>5
  <2>3. CASE u = t
    BY <1>2, <1>9, <2>2, <2>3
  <2>4. CASE InHand(u) /\ u # t
    <3>1. PICK q \in Procs : jobs[q].at \in {"attach", "enqueue"} /\ u \in jobs[q].held
      BY <2>4 DEF InHand
    <3>2. q # "notify"
      BY <1>1, <2>4, <3>1 DEF Fine, Sound
    <3> QED
      BY <1>10, <3>1, <3>2 DEF InHand
  <2>5. CASE u \in TicketOf(b) /\ (Closed(b) => LooksAgain(b)) /\ u # t
    <3>1. b # a
      BY <1>5, <2>5
    <3> QED
      BY <1>9, <2>5, <3>1
  <2> QED
    BY <1>11, <2>3, <2>4, <2>5 DEF IncInv, TicketsCared
<1> QED
  BY <1>12, <1>16, <1>17, <1>18 DEF IncInv

LEMMA ClosingTicket ==
    ASSUME IncInv, NEW t \in TicketIds, CloseTicket(t)
    PROVE  IncInv'
<1> DEFINE row == [tickets[t] EXCEPT !.closed = TRUE]
<1>1. t \in closes /\ tickets[t] \in Ticket
  BY Typed DEF CloseTicket
<1>2. row \in Ticket /\ row.of = tickets[t].of /\ row.closed
  BY <1>1 DEF Ticket
<1>3. /\ tickets' = [tickets EXCEPT ![t] = row] /\ closes' = closes \ {t}
      /\ UNCHANGED <<rows, jobs, correlator, history>>
  BY DEF CloseTicket
<1> HIDE DEF row
<1>4. /\ tickets' \in [TicketIds -> Ticket] /\ tickets'[t] = row
      /\ \A u \in TicketIds : u # t => tickets'[u] = tickets[u]
  BY <1>2, <1>3, Typed
<1>5. \A u \in TicketIds : /\ tickets'[u].of = tickets[u].of
                           /\ (u \in closes \/ tickets[u].closed) <=> (u \in closes' \/ tickets'[u].closed)
  BY <1>1, <1>2, <1>3, <1>4
<1>6. TypeOK'
  BY <1>3, <1>4, Typed, IsTyped DEF TypeOK, AlertRow, JobType, Ticket, rows, correlator, history
<1>7. Onward
  BY <1>3, <1>5 DEF Onward, Exists, Known, Closed, rows, history
<1>8. ASSUME NEW q \in Procs PROVE Fine(jobs[q])'
  <2>1. \A i : ActiveIn(i)' = ActiveIn(i)
    BY <1>3 DEF ActiveIn, Members, Active, rows
  <2> QED
    BY <1>3, <1>7, <2>1, OtherFine DEF rows, history
<1>9. RowsSound' /\ JobsSound' /\ AllSeen' /\ Cleared' /\ LookedAfter'
  BY <1>3, <1>8, SameIncidents DEF rows, history
<1>10. \A a \in Alerts : TicketOf(a) \subseteq TicketIds
  <2> TAKE a \in Alerts
  <2>1. alerts[a] \in AlertRow
    BY Typed
  <2> QED
    BY <2>1, AlertIs DEF TicketOf
<1>11. TicketsSound'
  <2>1. \A a \in Alerts : \A u \in TicketOf(a) : tickets'[u].of = a
    BY <1>5, <1>10 DEF IncInv, TicketsSound
  <2>2. \A u \in TicketIds : tickets'[u].of # NoAlert => Known(tickets'[u].of)
    BY <1>5 DEF IncInv, TicketsSound
  <2>3. \A u \in TicketIds : u \in closes' \/ tickets'[u].closed
            => tickets'[u].of # NoAlert /\ Closed(tickets'[u].of)
    BY <1>5 DEF IncInv, TicketsSound
  <2> QED
    BY <1>3, <2>1, <2>2, <2>3 DEF TicketsSound, TicketOf, Known, Closed, rows
<1>12. TicketsCared'
  <2> SUFFICES ASSUME NEW a \in Alerts, NEW u \in TicketIds \ missed, tickets'[u].of = a
               PROVE  \/ u \in closes' \/ tickets'[u].closed \/ InHand(u)
                      \/ u \in TicketOf(a) /\ (Closed(a) => LooksAgain(a))
    BY <1>3 DEF TicketsCared, Handled, Closed, TicketOf, LooksAgain, InHand, rows, history
  <2> QED
    BY <1>5 DEF IncInv, TicketsCared, Handled
<1> QED
  BY <1>6, <1>9, <1>11, <1>12 DEF IncInv

-----------------------------------------------------------------------------
(* The actions that create, write and fill incidents.                       *)

LEMMA Creating ==
    ASSUME IncInv, NEW i \in Ids, OpenIncident(i) \/ CreateStorm(i)
    PROVE  IncInv'
<1>1. i \in Ids \cup {0}
  OBVIOUS
<1>2. CASE OpenIncident(i)
  <2> DEFINE old == jobs["engine"]
             job == [old EXCEPT !.at = "assign", !.inc = i]
  <2>1. "engine" \in Procs /\ old.at = "create" /\ old \in JobType /\ Fine(old)
    BY <1>2, JobIs DEF OpenIncident, IsAt, Procs, Workers
  <2>2. /\ job \in JobType /\ job.at = "assign" /\ job.inc = i /\ job.alert = old.alert
        /\ job.fresh = old.fresh
    BY <1>1, <2>1 DEF JobType, Places
  <2>3. Becomes("engine", job)
    BY <1>2 DEF OpenIncident
  <2> HIDE DEF job
  <2>4. job.alert \in Alerts /\ Known(job.alert) /\ \A a \in job.fresh : Known(a)
    BY <2>1, <2>2 DEF Fine, Sound
  <2> QED
    BY <1>2, <2>1, <2>2, <2>3, <2>4, CreateStep DEF OpenIncident, Free
<1>3. CASE CreateStorm(i)
  <2> DEFINE old == jobs["correlator"]
             job == [old EXCEPT !.at = "bundle", !.inc = i]
  <2>1. "correlator" \in Procs /\ old.at = "storm" /\ old \in JobType /\ Fine(old)
    BY <1>3, JobIs DEF CreateStorm, IsAt, Procs, Workers
  <2>2. /\ job \in JobType /\ job.at = "bundle" /\ job.inc = i /\ job.alert = old.alert
        /\ job.fresh = old.fresh
    BY <1>1, <2>1 DEF JobType, Places
  <2>3. Becomes("correlator", job)
    BY <1>3 DEF CreateStorm
  <2> HIDE DEF job
  <2>4. (job.alert \in Alerts => Known(job.alert)) /\ \A a \in job.fresh : Known(a)
    BY <2>1, <2>2 DEF Fine, Sound
  <2> QED
    BY <1>3, <2>1, <2>2, <2>3, <2>4, CreateStep DEF CreateStorm, Free
<1> QED
  BY <1>2, <1>3

LEMMA CreatingByHand ==
    ASSUME IncInv, NEW r \in Requests, NEW i \in Ids, NEW as \in SUBSET Alerts,
           CreateRequest(r, i, as)
    PROVE  IncInv'
<1> DEFINE job == [Idle EXCEPT !.at = "bundle", !.inc = i, !.fresh = as]
<1>1. r \in Procs /\ jobs[r].at = "idle"
  BY DEF CreateRequest, Request, IsAt, Procs
<1>2. /\ job \in JobType /\ job.at = "bundle" /\ job.inc = i /\ job.alert = NoAlert
      /\ job.fresh = as
  BY IdleIs DEF JobType, Places
<1>3. Becomes(r, job)
  BY DEF CreateRequest, Request
<1> HIDE DEF job
<1>4. \A a \in job.fresh : Known(a)
  BY <1>2 DEF CreateRequest, Known
<1> QED
  BY <1>1, <1>2, <1>3, <1>4, IncidentsAssumption, CreateStep DEF CreateRequest, Free

(* Who writes a row holds a copy of it. *)
LEMMA Writes ==
    ASSUME IncInv, NEW p \in Procs, jobs[p].at \in {"close", "put", "resolve", "move", "summary", "link"}
    PROVE  /\ jobs[p].copy \in Rows
           /\ [jobs[p].copy EXCEPT !.status = "resolved"] \in Rows
           /\ [jobs[p].copy EXCEPT !.status = "resolved"].status = "resolved"
           /\ [jobs[p].copy EXCEPT !.status = "resolved"].by = jobs[p].copy.by
           /\ \A url \in TicketIds \cup {0} :
                 /\ [jobs[p].copy EXCEPT !.url = url] \in Rows
                 /\ [jobs[p].copy EXCEPT !.url = url].status = jobs[p].copy.status
                 /\ [jobs[p].copy EXCEPT !.url = url].by = jobs[p].copy.by
<1>1. jobs[p].copy \in Rows
  BY JobIs, FieldsOf
<1> QED
  BY <1>1 DEF Rows

LEMMA ClosingOwn ==
    ASSUME IncInv, NEW p \in Procs, Close(p)
    PROVE  IncInv'
<1>1. jobs[p].at = "close" /\ Becomes(p, Idle)
  BY DEF Close, IsAt, Ends
<1> QED
  BY <1>1, Writes, IdleIs, UpdateStep DEF Close

LEMMA Putting ==
    ASSUME IncInv, NEW p \in Procs, NEW url \in TicketIds \cup {0}, Put(p, url)
    PROVE  IncInv'
<1>1. jobs[p].at = "put" /\ Becomes(p, Idle)
  BY DEF Put, IsAt, Ends
<1>2. CASE VersionMatches(jobs[p].inc, jobs[p].etag)
  BY <1>1, <1>2, Writes, IdleIs, UpdateStep DEF Put
<1> QED
  BY <1>2, Refusing

LEMMA ResolvingIncident ==
    ASSUME IncInv, NEW p \in Procs, ResolveIncident(p)
    PROVE  IncInv'
<1> DEFINE job == [jobs[p] EXCEPT !.at = "list"]
<1>1. jobs[p].at = "resolve" /\ jobs[p] \in JobType
  BY JobIs DEF ResolveIncident, IsAt
<1>2. /\ job \in JobType /\ job.at = "list" /\ job.inc = jobs[p].inc /\ job.alert = jobs[p].alert
      /\ job.fresh = jobs[p].fresh /\ Becomes(p, job)
  BY <1>1 DEF JobType, Places, ResolveIncident, Goes
<1> HIDE DEF job
<1> QED
  BY <1>1, <1>2, Writes, UpdateStep DEF ResolveIncident

LEMMA ClosingMerged ==
    ASSUME IncInv, NEW p \in Procs, CloseMerged(p)
    PROVE  IncInv'
<1>1. jobs[p].at = "move" /\ jobs[p].todo = {} /\ Becomes(p, Idle)
  BY DEF CloseMerged, IsAt, Ends
<1> QED
  BY <1>1, Writes, IdleIs, UpdateStep DEF CloseMerged

LEMMA WritingSummary ==
    ASSUME IncInv, NEW p \in Procs, SummaryWritten(p)
    PROVE  IncInv'
<1>1. jobs[p].at = "summary" /\ Becomes(p, Idle)
  BY DEF SummaryWritten, IsAt, Ends
<1> QED
  BY <1>1, Writes, IdleIs, UpdateStep DEF SummaryWritten

LEMMA Linking ==
    ASSUME IncInv, NEW t \in TicketIds, Link(t)
    PROVE  IncInv'
<1>1. "notify" \in Procs /\ jobs["notify"].at = "link" /\ Becomes("notify", Idle)
  BY DEF Link, IsAt, Ends, Procs, Workers
<1> QED
  BY <1>1, Writes, IdleIs, UpdateStep DEF Link

LEMMA AssigningOpened ==
    ASSUME IncInv, AssignOpened
    PROVE  IncInv'
<1> DEFINE old == jobs["engine"]
<1>1. "engine" \in Procs /\ old.at = "assign" /\ Becomes("engine", Idle)
  BY DEF AssignOpened, IsAt, Ends, Procs, Workers
<1>2. Fine(old) /\ old \in JobType
  BY <1>1, JobIs
<1>3. old.alert \in Alerts /\ Known(old.alert) /\ Exists(old.inc) /\ old.inc \in Ids
  BY <1>1, <1>2 DEF Fine, Sound, OnIncident, Exists
<1> QED
  BY <1>1, <1>3, IdleIs, AssignStep DEF AssignOpened

LEMMA Bundling ==
    ASSUME IncInv, NEW p \in Procs, NEW a \in Alerts, Bundle(p, a)
    PROVE  IncInv'
<1> DEFINE old == jobs[p]
           job == [old EXCEPT !.fresh = old.fresh \ {a}]
<1>1. old.at = "bundle" /\ old \in JobType /\ Fine(old)
  BY JobIs DEF Bundle, IsAt
<1>2. Known(a) /\ Exists(old.inc) /\ old.inc \in Ids
  BY <1>1 DEF Bundle, Fine, Sound, OnIncident, Exists
<1>3. CASE Becomes(p, Idle)
  BY <1>1, <1>2, <1>3, IdleIs, AssignStep DEF Bundle
<1>4. CASE Becomes(p, job)
  <2>1. /\ job \in JobType /\ job.at = "bundle" /\ job.inc = old.inc /\ job.alert = old.alert
        /\ job.fresh \subseteq old.fresh /\ job.todo = old.todo /\ job.etag = old.etag
        /\ job.copy = old.copy
    BY <1>1 DEF JobType
  <2>2. Becomes(p, job)
    BY <1>4
  <2> HIDE DEF job
  <2> QED
    BY <1>1, <1>2, <2>1, <2>2, AssignStep DEF Bundle
<1> QED
  BY <1>3, <1>4 DEF Bundle, Ends

LEMMA Moving ==
    ASSUME IncInv, NEW p \in Procs, NEW a \in Alerts, Move(p, a)
    PROVE  IncInv'
<1> DEFINE old == jobs[p]
           new == [old EXCEPT !.todo = old.todo \ {a}]
<1>1. old.at = "move" /\ old \in JobType /\ Fine(old)
  BY JobIs DEF Move, IsAt
<1>2. Known(a) /\ Exists(old.etag) /\ old.etag \in Ids
  BY <1>1 DEF Move, Fine, Sound, Exists
<1>3. /\ new \in JobType /\ new.at = "move" /\ new.inc = old.inc /\ new.alert = old.alert
      /\ new.fresh = old.fresh /\ new.todo = old.todo \ {a} /\ new.etag = old.etag
      /\ new.copy = old.copy /\ Becomes(p, new)
  BY <1>1 DEF JobType, Move
<1> HIDE DEF new
<1>4. PICK job \in JobType : job = new
  BY <1>3
<1>5. Becomes(p, job)
  BY <1>3, <1>4
<1>6. CASE AssignAlertIncident(a, old.etag)
  BY <1>1, <1>2, <1>3, <1>4, <1>5, <1>6, AssignStep DEF Move
<1>7. CASE spared' = spared \cup ({a} \cap ActiveIn(old.inc)) /\ UNCHANGED <<alerts, excused>>
  <2>1. UNCHANGED <<rows, correlator, external, excused, missed>>
    BY <1>7 DEF Move, rows
  <2>2. Grows
    BY <1>7, <2>1, Typed DEF Grows, correlator, external
  <2>3. PICK one \in JobType : one = old /\ Fine(one)
    BY <1>1
  <2>4. Fine(one)'
    BY <2>1, <2>2, <2>3, FineKept DEF Grows, external
  <2>5. ActiveIn(job.inc)' = ActiveIn(job.inc)
    BY <2>1 DEF rows, ActiveIn, Members, Active
  <2>6. job.inc \notin excused => ActiveIn(job.inc) \subseteq spared' \cup job.todo
    BY <1>1, <1>3, <1>4, <1>7 DEF Fine, Seen
  <2>7. Seen(job)'
    BY <1>1, <1>3, <1>4, <2>1, <2>5, <2>6 DEF Seen, ActiveIn, Members, Active
  <2>8. Sound(job)' /\ Faithful(job)' /\ Requested(job)'
    BY <1>1, <1>3, <1>4, <2>3, <2>4
       DEF Fine, Sound, OnIncident, Faithful, FaithfulTo, WithCopy, Requested
  <2>9. HandsOver(old, job)
    BY <1>1, FreeHandsOver DEF Free
  <2> QED
    BY <1>5, <2>1, <2>2, <2>7, <2>8, <2>9, JobStep DEF Fine, external
<1> QED
  BY <1>6, <1>7 DEF Move

-----------------------------------------------------------------------------
(* Theorems.                                                                *)

LEMMA Initially ==
    Init => IncInv
<1> SUFFICES ASSUME Init PROVE IncInv
  OBVIOUS
<1>1. /\ \A a \in Alerts : /\ alerts[a].status = "none" /\ alerts[a].incident = 0
                           /\ alerts[a].ticket = 0
      /\ alerts \in [Alerts -> AlertRow]
  BY DEF Init, AlertRow
<1>2. /\ \A i \in Ids : incidents[i] = NoRow
      /\ incidents \in [Ids -> Rows] /\ NoRow.status = "none"
  BY DEF Init, Rows, NoRow
<1>3. /\ \A p \in Procs : jobs[p] = Idle
      /\ jobs \in [Procs -> JobType]
  BY IdleIs DEF Init
<1>4. /\ \A t \in TicketIds : tickets[t].of = NoAlert /\ ~tickets[t].closed
      /\ tickets \in [TicketIds -> Ticket]
  BY DEF Init, Ticket
<1>5. TypeOK
  BY <1>1, <1>2, <1>3, <1>4, IsTyped DEF Init
<1>6. RowsSound
  BY <1>1 DEF RowsSound
<1>7. JobsSound /\ AllSeen
  BY <1>3, IdleIs DEF JobsSound, AllSeen, Fine
<1>8. TicketsSound /\ TicketsCared
  BY <1>1, <1>4, IncidentsAssumption DEF TicketsSound, TicketsCared, TicketOf, Closed, Init
<1>9. Cleared
  BY <1>2 DEF Cleared
<1>10. LookedAfter
  BY <1>2 DEF LookedAfter, MayClose
<1> QED
  BY <1>5, <1>6, <1>7, <1>8, <1>9, <1>10 DEF IncInv

LEMMA Invariant ==
    IncInv /\ [Next]_vars => IncInv'
<1> SUFFICES ASSUME IncInv, [Next]_vars PROVE IncInv'
  OBVIOUS
<1>1. /\ \A p \in Requests : p \in Procs
      /\ \A p \in Workers : p \in Procs
      /\ "engine" \in Procs /\ "correlator" \in Procs /\ "ai" \in Procs
  BY DEF Procs, Workers
<1>2. CASE Engine
  BY <1>1, <1>2, Opening, Resolving, Creating, AssigningOpened, ListingStale, Expiring,
     EnqueuingStale DEF Engine, Recovery
<1>3. ASSUME NEW p \in Procs, MaybeResolveIncident(p) PROVE IncInv'
  BY <1>3, Rereading, LookingAtIncident, Counting, ClosingOwn DEF MaybeResolveIncident
<1>4. CASE Correlator
  BY <1>4, Hearing, LookingAtAlert, Sweeping, Looking, Creating DEF Correlator
<1>5. ASSUME NEW p \in Procs, NEW a \in Alerts, Bundle(p, a) PROVE IncInv'
  BY <1>5, Bundling
<1>6. ASSUME NEW r \in Requests, Handler(r) PROVE IncInv'
  <2>1. r \in Procs
    BY <1>1
  <2>2. ASSUME NEW a \in Alerts,
               ResolveRequest(r, a) \/ FlipListed(r, a) \/ SkipListed(r, a) \/ Move(r, a)
        PROVE  IncInv'
    BY <2>1, <2>2, Resolving, FlippingListed, SkippingListed, Moving DEF ResolveRequest
  <2>3. ASSUME NEW i \in Ids,
               \/ \E seen \in 1 .. incidents[i].version : PutRequest(r, i, seen)
               \/ ResolveIncidentRequest(r, i)
        PROVE  IncInv'
    BY <2>3, Requesting
  <2>4. ASSUME NEW target \in Ids, NEW src \in Ids, MergeRequest(r, target, src)
        PROVE  IncInv'
    BY <2>4, Requesting
  <2>5. CASE ResolveIncident(r) \/ RereadListed(r) \/ CloseMerged(r)
    BY <2>1, <2>5, ResolvingIncident, RereadingListed, ClosingMerged
  <2>6. ASSUME NEW page \in SUBSET Alerts, ListAlerts(r, page) \/ Collect(r, page)
        PROVE  IncInv'
    BY <2>1, <2>6, Listing, Collecting
  <2> QED
    BY <1>6, <2>1, <2>2, <2>3, <2>4, <2>5, <2>6, CreatingByHand, Putting DEF Handler
<1>7. ASSUME NEW p \in Procs, SummaryWritten(p) \/ \E i \in Ids : SummaryRead(p, i)
      PROVE  IncInv'
  BY <1>7, WritingSummary, ReadingForSummary
<1>8. CASE Notify
  <2>1. ASSUME NEW t \in TicketIds, SetAlertTicket(t) PROVE IncInv'
    BY <2>1, StoringTicket, LosingTicket DEF SetAlertTicket
  <2> QED
    BY <1>8, <2>1, Delivering, CreatingTicket, Linking, ClosingTicket, ReadingForLink DEF Notify
<1>9. CASE Restart \/ \E p \in Procs : GiveUp(p)
  BY <1>9, Restarting, GivingUp
<1>10. CASE UNCHANGED vars
  BY <1>10, Typed, NoJobStep DEF vars, correlator
<1> QED
  BY <1>1, <1>2, <1>3, <1>4, <1>5, <1>6, <1>7, <1>8, <1>9, <1>10 DEF Next

LEMMA AlwaysSound ==
    Spec => []IncInv
BY Initially, Invariant, PTL DEF Spec

(* Every variable has its type: a job holds copies of rows and sets of alerts,   *)
(* and it stands in one of the places the handlers and goroutines have.       *)
THEOREM TypeCorrect ==
    Spec => []TypeOK
<1>1. IncInv => TypeOK
  BY DEF IncInv
<1> QED
  BY <1>1, AlwaysSound, PTL

(* A ticket is closed with its alert: not before it, and by whoever closes the   *)
(* alert, be it a recovery, an expiry or a person; but for the tickets whose key   *)
(* or whose closing was lost on the way, and those that came after the second     *)
(* look (ResolveAlert, ExpireStaleAlerts, SetAlertTicket).                     *)
THEOREM TicketsFollowTheirAlerts ==
    Spec => []TicketsFollow
<1>1. ASSUME IncInv PROVE TicketsFollow
  <2>1. NoEarlyClose
    BY <1>1 DEF IncInv, TicketsSound, NoEarlyClose, Handled
  <2>2. TicketsClosedUpTo(missed)
    <3> SUFFICES ASSUME Quiet, NEW t \in TicketIds \ missed, tickets[t].of # NoAlert,
                        Closed(tickets[t].of)
                 PROVE  Handled(t)
      BY DEF TicketsClosedUpTo
    <3>1. PICK a \in Alerts : a = tickets[t].of
      BY <1>1, Typed DEF Ticket
    <3>2. ~InHand(t) /\ ~LooksAgain(a)
      BY DEF InHand, LooksAgain, Quiet, IsAt
    <3> QED
      BY <1>1, <3>1, <3>2 DEF IncInv, TicketsCared
  <2> QED
    BY <2>1, <2>2 DEF TicketsFollow
<1> QED
  BY <1>1, AlwaysSound, PTL

(* An active alert in an incident that was closed is a spared one: the closing job *)
(* had counted, moved or listed all the others (MaybeResolveIncident, :merge,     *)
(* :resolve), with the same excuses.                                          *)
THEOREM ClosedIncidentsAreDone ==
    Spec => []ResolvedIsDone
<1>1. ASSUME IncInv PROVE ResolvedIsDone
  <2> SUFFICES ASSUME NEW i \in Ids \ excused, incidents[i].status = "resolved",
                      \A p \in Procs : jobs[p].inc = i => jobs[p].at \notin {"list", "flip", "flipped"},
                      NEW a \in ActiveIn(i), a \notin spared
               PROVE  FALSE
    BY DEF ResolvedIsDone, ClosedUpTo
  <2>1. PICK p \in Procs : Clears(jobs[p], i, a)
    BY <1>1 DEF IncInv, Cleared
  <2> QED
    BY <2>1 DEF Clears
<1> QED
  BY <1>1, AlwaysSound, PTL

(* The last recovery closes the incident of a rule: whichever of the recoveries    *)
(* and requests that ran at once was the last, one of them still had to count     *)
(* (MaybeResolveIncident); but for the incidents that an expiry, a late member, a  *)
(* stale copy or a crash excuses.                                             *)
THEOREM LastRecoveryCloses ==
    Spec => []LastOneCloses
<1>1. ASSUME IncInv PROVE LastOneCloses
  <2> SUFFICES ASSUME Quiet, NEW i \in Ids \ excused, MayClose(i), Members(i) # {},
                      ActiveIn(i) = {}
               PROVE  FALSE
    BY DEF LastOneCloses
  <2>1. PICK p \in Procs : Looks(jobs[p], i)
    BY <1>1 DEF IncInv, LookedAfter
  <2> QED
    BY <2>1 DEF Looks, Quiet, IsAt
<1> QED
  BY <1>1, AlwaysSound, PTL

-----------------------------------------------------------------------------
(* The PUT of a person.                                                     *)

(* A handler that stands before its write is not ended by the step of another. *)
LEMMA Elsewhere ==
    ASSUME IncInv, NEW r \in Procs, IsAt(r, "put"), NEW p \in Procs \ {r}, NEW job, Becomes(p, job)
    PROVE  jobs'[r] # Idle
<1>1. jobs'[r] = jobs[r]
  BY Typed DEF Becomes
<1> QED
  BY <1>1, IdleIs DEF IsAt

LEMMA OnlyItsWrite ==
    ASSUME IncInv, Next, NEW r \in Requests, IsAt(r, "put"), jobs'[r] = Idle
    PROVE  UNCHANGED incidents \/ \E url \in TicketIds \cup {0} : Put(r, url)
<1> USE DEF rows, correlator, external, history
<1>1. /\ r \in Procs /\ \A p \in Requests : p \in Procs
      /\ "engine" \in Procs /\ "correlator" \in Procs /\ "notify" \in Procs /\ "ai" \in Procs
  BY DEF Procs, Workers
<1>2. \A p \in Procs : \A job : Becomes(p, job) => p = r
  BY <1>1, Elsewhere
<1>3. CASE Engine
  <2>1. \A i \in Ids : ~OpenIncident(i)
    BY <1>1, <1>2 DEF OpenIncident, IsAt
  <2> QED
    BY <1>3, <2>1 DEF Engine, Open, Recovery, Resolves, AssignOpened, ListStale, ExpireStale,
           EnqueueStale
<1>4. ASSUME NEW p \in Requests \cup {"engine"}, MaybeResolveIncident(p)
      PROVE  UNCHANGED incidents
  <2>1. ~Close(p)
    BY <1>1, <1>2 DEF Close, Ends, IsAt
  <2> QED
    BY <1>4, <2>1 DEF MaybeResolveIncident, Reread, LookAtIncident, Count
<1>5. CASE Correlator
  <2>1. \A i \in Ids : ~CreateStorm(i)
    BY <1>1, <1>2 DEF CreateStorm, IsAt
  <2> QED
    BY <1>5, <2>1 DEF Correlator, Hear, LookAtAlert, Sweep, Looked
<1>6. ASSUME NEW p, NEW a \in Alerts, Bundle(p, a)
      PROVE  UNCHANGED incidents
  BY <1>6 DEF Bundle
<1>7. ASSUME NEW q \in Requests, Handler(q)
      PROVE  UNCHANGED incidents \/ \E url \in TicketIds \cup {0} : Put(r, url)
  <2>1. \A i \in Ids, as \in SUBSET Alerts : ~CreateRequest(q, i, as)
    BY <1>1, <1>2 DEF CreateRequest, Request, IsAt
  <2>2. ~ResolveIncident(q)
    BY <1>1, <1>2 DEF ResolveIncident, Goes, IsAt
  <2>3. ~CloseMerged(q)
    BY <1>1, <1>2 DEF CloseMerged, Ends, IsAt
  <2>4. \A url \in TicketIds \cup {0} : Put(q, url) => q = r
    BY <1>1, <1>2 DEF Put, Ends
  <2> QED
    BY <1>7, <2>1, <2>2, <2>3, <2>4
       DEF Handler, ResolveRequest, Resolves, FlipListed, SkipListed, Move, PutRequest, ResolveIncidentRequest,
           MergeRequest, ListAlerts, RereadListed, Collect
<1>8. ASSUME NEW p \in Requests \cup {"ai"}, SummaryWritten(p) \/ \E i \in Ids : SummaryRead(p, i)
      PROVE  UNCHANGED incidents
  <2>1. ~SummaryWritten(p)
    BY <1>1, <1>2 DEF SummaryWritten, Ends, IsAt
  <2> QED
    BY <1>8, <2>1 DEF SummaryRead
<1>9. CASE Notify
  <2>1. \A t \in TicketIds : ~Link(t)
    BY <1>1, <1>2 DEF Link, Ends, IsAt
  <2> QED
    BY <1>9, <2>1 DEF Notify, DeliverNotification, DeliverAction, AsksFor, TicketCreated, SetAlertTicket, CloseTicket, ReadForLink
<1>10. CASE Restart \/ \E p \in Procs : GiveUp(p)
  BY <1>10 DEF Restart, GiveUp
<1> QED
  BY <1>3, <1>4, <1>5, <1>6, <1>7, <1>8, <1>9, <1>10 DEF Next

LEMMA PutWritesTheRowItRead ==
    ASSUME IncInv, NEW r \in Procs, NEW url \in TicketIds \cup {0}, Put(r, url), NEW i \in Ids
    PROVE  incidents'[i].status = incidents[i].status
<1> DEFINE old == jobs[r]
           row == incidents[old.inc]
           new == [[old.copy EXCEPT !.url = url] EXCEPT !.version = row.version + 1]
<1>1. old.at = "put" /\ old \in JobType /\ Fine(old)
  BY JobIs DEF Put, IsAt
<1>2. CASE ~VersionMatches(old.inc, old.etag)
  BY <1>2 DEF Put
<1>3. CASE VersionMatches(old.inc, old.etag)
  <2>1. old.inc \in Ids /\ FaithfulTo(old, row) /\ old.etag \in 1 .. old.copy.version
    BY <1>1, FieldsOf DEF Fine, Sound, OnIncident, Faithful, WithCopy, Requested
  <2>2. row \in Rows /\ old.copy \in Rows /\ old.etag \in Nat
    BY <1>1, <2>1, Typed, FieldsOf
  <2>3. row.version \in Nat /\ old.copy.version \in Nat
    BY <2>2, RowIs
  <2>4. row.version = old.etag
    BY <1>3, <2>1, <2>2 DEF VersionMatches
  <2>5. old.copy = row
    BY <2>1, <2>3, <2>4 DEF FaithfulTo
  <2>6. new.status = row.status
    BY <2>2, <2>5 DEF Rows
  <2>7. incidents' = [incidents EXCEPT ![old.inc] = new]
    BY <1>3 DEF Put, UpdateIncident
  <2> HIDE DEF new, row
  <2>8. CASE i = old.inc
    BY <2>1, <2>6, <2>7, <2>8, Typed DEF row
  <2>9. CASE i # old.inc
    BY <2>7, <2>9, Typed
  <2> QED
    BY <2>8, <2>9
<1> QED
  BY <1>2, <1>3

(* The PUT of a person writes a copy of the whole row, yet it never opens or       *)
(* closes an incident: with If-Match the copy is the row (UpdateIncident).      *)
THEOREM PutChangesNoStatus ==
    Spec => PutIsSafe
<1> DEFINE Safe == \A r \in Requests : \A i \in Ids :
                     IsAt(r, "put") /\ jobs'[r] = Idle /\ incidents'[i] # incidents[i]
                        => incidents'[i].status = incidents[i].status
<1>1. ASSUME IncInv, [Next]_vars PROVE [Safe]_vars
  <2>1. CASE UNCHANGED vars
    BY <2>1
  <2>2. CASE Next
    <3> SUFFICES ASSUME NEW r \in Requests, NEW i \in Ids, IsAt(r, "put"), jobs'[r] = Idle,
                        incidents'[i] # incidents[i]
                 PROVE  incidents'[i].status = incidents[i].status
      OBVIOUS
    <3>1. PICK url \in TicketIds \cup {0} : Put(r, url)
      BY <1>1, <2>2, OnlyItsWrite
    <3>2. r \in Procs
      BY DEF Procs
    <3> QED
      BY <1>1, <3>1, <3>2, PutWritesTheRowItRead
  <2> QED
    BY <1>1, <2>1, <2>2
<1> QED
  BY <1>1, AlwaysSound, PTL DEF Spec, PutIsSafe

=============================================================================
