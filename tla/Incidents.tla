------------------------------ MODULE Incidents ------------------------------
(***************************************************************************)
(* Incidents and the alerts they bundle: the alerting engine opens one     *)
(* per alert of a rule and closes it after the last recovery, the          *)
(* correlator bundles alarm storms, people create, edit, merge and resolve *)
(* them, the AI summarises them, a ticket is mirrored onto them.  They all *)
(* work on the same rows, one database call at a time: an action is one    *)
(* call.  Acknowledging an alert leaves it active and is left out, and so  *)
(* are the words of an incident: what counts is its status and its ticket. *)
(***************************************************************************)
EXTENDS Integers, FiniteSets

CONSTANTS
    Alerts,        \* alerts that may open
    Bundled,       \* those whose rule has incident: true
    Requests,      \* requests of people that may run at the same time
    Threshold,     \* active alerts without an incident that make a storm
    MaxIncidents,  \* bound on the incidents of a behaviour
    MaxTickets,    \* bound on the tickets of a behaviour
    Budgets        \* what may happen: [requests, storms, summaries, expiries,
                   \* tickets, faults], and how many alerts a listing returns at
                   \* most (page; 1000 in the code)

NoAlert == "no alert"

ASSUME IncidentsAssumption ==
    /\ IsFiniteSet(Alerts) /\ NoAlert \notin Alerts /\ Bundled \subseteq Alerts
    /\ Threshold \in Nat \ {0}
    /\ MaxIncidents \in Nat /\ MaxTickets \in Nat
    /\ Budgets \subseteq [requests : Nat, storms : Nat, summaries : Nat,
                          expiries : Nat, tickets : Nat, faults : Nat, page : Nat]

VARIABLES
    alerts,     \* rows of alerts: status, incident_id (0: none), ticket_meta (0: none)
    incidents,  \* rows of incidents
    jobs,       \* where every goroutine and request stands, with what it has read
    feed,       \* alert_opened events on their way to the correlator
    window,     \* its window
    tickets,    \* external tickets: whose they are, and whether they were closed
    closes,     \* ticket-close jobs in the outbox
    spared,     \* history: alerts that whoever closed their incident did not get hold
                \* of: they joined too late, the listing was cut short or failed,
                \* their move or their resolution did
    excused,    \* history: incidents the properties cannot promise anything about
    missed,     \* history: tickets nobody was told to close
    left        \* what is left of the budget

rows == <<alerts, incidents>>
external == <<tickets, closes>>
correlator == <<feed, window>>
history == <<spared, excused, missed>>
vars == <<rows, jobs, correlator, external, history, left>>

Ids == 1 .. MaxIncidents
TicketIds == 1 .. MaxTickets
Workers == {"engine", "correlator", "ai", "notify"}
Procs == Workers \cup Requests

NoRow == [status |-> "none", by |-> "nobody", url |-> 0, version |-> 0]
Idle == [at |-> "idle", alert |-> NoAlert, todo |-> {}, fresh |-> {}, inc |-> 0,
         copy |-> NoRow, held |-> {}, etag |-> 0]

Init ==
    /\ alerts = [a \in Alerts |-> [status |-> "none", incident |-> 0, ticket |-> 0]]
    /\ incidents = [i \in Ids |-> NoRow]
    /\ jobs = [p \in Procs |-> Idle]
    /\ feed = {} /\ window = {}
    /\ tickets = [t \in TicketIds |-> [of |-> NoAlert, closed |-> FALSE]]
    /\ closes = {}
    /\ spared = {} /\ excused = {} /\ missed = {}
    /\ left \in Budgets

Active(a) == alerts[a].status = "active"
Closed(a) == alerts[a].status \in {"resolved", "expired"}
Members(i) == {a \in Alerts : alerts[a].incident = i}
ActiveIn(i) == {a \in Members(i) : Active(a)}
Exists(i) == i \in Ids /\ incidents[i].status # "none"
NewId(i) == i \in Ids /\ ~Exists(i) /\ \A j \in Ids : j < i => Exists(j)

IsAt(p, at) == jobs[p].at = at
Becomes(p, job) == jobs' = [jobs EXCEPT ![p] = job]
Goes(p, at) == Becomes(p, [jobs[p] EXCEPT !.at = at])
Ends(p) == Becomes(p, Idle)
Spend(what) == left[what] > 0 /\ left' = [left EXCEPT ![what] = @ - 1]

(* A listing returns one page of the alerts as; whoever asks for it takes a     *)
(* failure for an empty list.                                                *)
Lists(as, page) ==
    \/ /\ page \subseteq as /\ Cardinality(page) <= left.page
       /\ page = as \/ Cardinality(page) = left.page
       /\ UNCHANGED left
    \/ page = {} /\ as # {} /\ Spend("faults")

-----------------------------------------------------------------------------
(* The calls of the store.                                                 *)

CreateIncident(i, by) ==
    incidents' = [incidents EXCEPT ![i] =
                    [status |-> "open", by |-> by, url |-> 0, version |-> 1]]

(* Mutant: no guard. *)
AnyVersion(i, expect) == TRUE

(* The guard of UpdateIncident; 0 means that the caller does not care. *)
VersionMatches(i, expect) == expect > 0 => incidents[i].version = expect

(* The whole row is written as the caller has read it. *)
UpdateIncident(i, row) ==
    /\ incidents' = [incidents EXCEPT ![i] =
                        [row EXCEPT !.version = incidents[i].version + 1]]
    /\ excused' = IF row.status = "open" /\ incidents[i].status = "resolved"
                  THEN excused \cup {i} ELSE excused

(* i is closed, or somebody has looked at its alerts and is about to close it. *)
Closing(i) ==
    \/ incidents[i].status = "resolved"
    \/ \E p \in Procs : jobs[p].inc = i /\ jobs[p].at \in {"close", "move"}

AssignAlertIncident(a, i) ==
    /\ alerts' = [alerts EXCEPT ![a].incident = i]
    /\ spared' = IF Closing(i) THEN spared \cup {a} ELSE spared \ {a}
    /\ excused' = excused \cup {j \in {i} : Closed(a)}
                          \cup ({alerts[a].incident} \ {0, i})

(* Mutant: an alert without a ticket is not told apart. *)
TicketOrNone(a) == {alerts[a].ticket}

TicketOf(a) == {alerts[a].ticket} \ {0}

(* ResolveAlert first flips the row, then reads it again: the incident and the *)
(* ticket are those it has by then.                                          *)
FlipAlerts(as, status) ==
    alerts' = [a \in Alerts |-> IF a \in as THEN [alerts[a] EXCEPT !.status = status]
                                ELSE alerts[a]]
Resolve(a) == Active(a) /\ FlipAlerts({a}, "resolved")

(* Nobody hears of an error of the outbox. *)
enqueueTicketClose(ts) ==
    \/ closes' = closes \cup ts /\ UNCHANGED <<missed, left>>
    \/ ts # {} /\ Spend("faults") /\ missed' = missed \cup ts /\ UNCHANGED closes

-----------------------------------------------------------------------------
(* The alerting engine: one goroutine.                                     *)

(* A fresh alert is announced before its incident is created. *)
Open(a) ==
    /\ IsAt("engine", "idle") /\ alerts[a].status = "none"
    /\ alerts' = [alerts EXCEPT ![a].status = "active"]
    /\ feed' = feed \cup {a}
    /\ IF a \in Bundled THEN Becomes("engine", [Idle EXCEPT !.at = "create", !.alert = a])
       ELSE UNCHANGED jobs
    /\ UNCHANGED <<incidents, window, external, history, left>>

OpenIncident(i) ==
    /\ IsAt("engine", "create") /\ NewId(i)
    /\ CreateIncident(i, "rule")
    /\ Becomes("engine", [jobs["engine"] EXCEPT !.at = "assign", !.inc = i])
    /\ UNCHANGED <<alerts, correlator, external, history, left>>

AssignOpened ==
    /\ IsAt("engine", "assign")
    /\ AssignAlertIncident(jobs["engine"].alert, jobs["engine"].inc)
    /\ Ends("engine")
    /\ UNCHANGED <<incidents, correlator, external, missed, left>>

(* The same steps follow a recovery and a person's request, so p is either.  *)
Resolves(p, a) ==
    /\ IsAt(p, "idle") /\ Resolve(a)
    /\ Becomes(p, [Idle EXCEPT !.at = "reread", !.alert = a])
    /\ UNCHANGED <<incidents, correlator, external, history>>

Recovery(a) == Resolves("engine", a) /\ UNCHANGED left

Reread(p) ==
    /\ IsAt(p, "reread")
    /\ enqueueTicketClose(TicketOf(jobs[p].alert))
    /\ IF Members(0) \cap {jobs[p].alert} # {} THEN Ends(p)
       ELSE Becomes(p, [jobs[p] EXCEPT !.at = "incident",
                                       !.inc = alerts[jobs[p].alert].incident])
    /\ UNCHANGED <<rows, correlator, tickets, spared, excused>>

(* MaybeResolveIncident: its row, the count, the write of the row as read. *)
MayClose(i) == incidents[i].status = "open" /\ incidents[i].by = "rule"

LookAtIncident(p) ==
    /\ IsAt(p, "incident")
    /\ IF MayClose(jobs[p].inc)
       THEN Becomes(p, [jobs[p] EXCEPT !.at = "count", !.copy = incidents[jobs[p].inc]])
       ELSE Ends(p)
    /\ UNCHANGED <<rows, correlator, external, history, left>>

(* Mutants: the status, or the alerts of other rules, are not considered. *)
CountAll(i) == Cardinality(Members(i))
CountOfRule(i) == Cardinality(ActiveIn(i) \cap Bundled)

CountActiveAlerts(i) == Cardinality(ActiveIn(i))

Count(p) ==
    /\ IsAt(p, "count")
    /\ IF CountActiveAlerts(jobs[p].inc) > 0 THEN Ends(p) ELSE Goes(p, "close")
    /\ UNCHANGED <<rows, correlator, external, history, left>>

Close(p) ==
    /\ IsAt(p, "close")
    /\ UpdateIncident(jobs[p].inc, [jobs[p].copy EXCEPT !.status = "resolved"])
    /\ Ends(p)
    /\ UNCHANGED <<alerts, correlator, external, spared, missed, left>>

(* Auto-close of a rule: the tickets are listed before the alerts flip.  Which *)
(* of its alerts are past the horizon (as) is left open.                     *)
ListStale(as, page) ==
    /\ IsAt("engine", "idle") /\ as # {} /\ \E a \in as : Active(a)
    /\ left.expiries > 0
    /\ Lists({a \in Alerts : Active(a)}, page)
    /\ Becomes("engine", [Idle EXCEPT !.at = "expire", !.todo = as,
                                      !.held = UNION {TicketOf(a) : a \in page}])
    /\ UNCHANGED <<rows, correlator, external, history>>

(* Of the tickets listed only those of alerts past the horizon are closed. *)
PastHorizon(held, as) == {t \in held : tickets[t].of \in as}

ExpireStale ==
    LET job == jobs["engine"]
        due == {a \in job.todo : Active(a)}
        told == PastHorizon(job.held, job.todo)
    IN  /\ IsAt("engine", "expire") /\ Spend("expiries")
        /\ FlipAlerts(due, "expired")
        /\ excused' = excused \cup ({alerts[a].incident : a \in due} \ {0})
        /\ missed' = missed \cup ((UNION {TicketOf(a) : a \in due}) \ told)
        /\ IF due = {} \/ told = {} THEN Ends("engine")
           ELSE Becomes("engine", [job EXCEPT !.at = "enqueue", !.held = told])
        /\ UNCHANGED <<incidents, correlator, external, spared>>

(* Only then are they enqueued, one by one. *)
EnqueueStale(t) ==
    LET job == jobs["engine"]
    IN  /\ IsAt("engine", "enqueue") /\ t \in job.held
        /\ enqueueTicketClose({t})
        /\ IF job.held = {t} THEN Ends("engine")
           ELSE Becomes("engine", [job EXCEPT !.held = @ \ {t}])
        /\ UNCHANGED <<rows, correlator, tickets, spared, excused>>

-----------------------------------------------------------------------------
(* The correlator: one goroutine.  All alerts of the model share the dominant  *)
(* label.                                                                    *)

Hear(a) ==
    /\ IsAt("correlator", "idle") /\ a \in feed
    /\ feed' = feed \ {a} /\ window' = window \cup {a}
    /\ UNCHANGED <<rows, jobs, external, history, left>>

(* What is older than the window drops out, the rest is clustered. *)
Sweep(keep) ==
    /\ IsAt("correlator", "idle") /\ keep \subseteq window
    /\ Cardinality(keep) >= Threshold
    /\ Spend("storms")
    /\ window' = keep
    /\ Becomes("correlator", [Idle EXCEPT !.at = "look", !.todo = keep])
    /\ UNCHANGED <<rows, feed, external, history>>

(* One alert at a time: those in an incident name it, the active ones are fresh. *)
LookAtAlert(a) ==
    LET job == jobs["correlator"]
        in == alerts[a].incident
    IN  /\ IsAt("correlator", "look") /\ a \in job.todo
        /\ Becomes("correlator", [job EXCEPT
                !.todo = @ \ {a},
                !.inc = IF in # 0 THEN in ELSE @,
                !.fresh = IF in = 0 /\ Active(a) THEN @ \cup {a} ELSE @])
        /\ UNCHANGED <<rows, correlator, external, history, left>>

IsStorm(job) == Cardinality(job.fresh) >= Threshold

Looked ==
    LET job == jobs["correlator"]
    IN  /\ IsAt("correlator", "look") /\ job.todo = {}
        /\ IF job.fresh # {} /\ job.inc # 0 THEN Goes("correlator", "bundle")
           ELSE IF IsStorm(job) THEN Goes("correlator", "storm")
           ELSE Ends("correlator")
        /\ UNCHANGED <<rows, correlator, external, history, left>>

(* The storm's summary is asked for if the AI has room for it. *)
CreateStorm(i) ==
    /\ IsAt("correlator", "storm") /\ NewId(i)
    /\ CreateIncident(i, "correlation")
    /\ Becomes("correlator", [jobs["correlator"] EXCEPT !.at = "bundle", !.inc = i])
    /\ UNCHANGED <<alerts, correlator, external, history, left>>

Bundle(p, a) ==
    /\ IsAt(p, "bundle") /\ a \in jobs[p].fresh
    /\ AssignAlertIncident(a, jobs[p].inc)
    /\ IF jobs[p].fresh = {a} THEN Ends(p)
       ELSE Becomes(p, [jobs[p] EXCEPT !.fresh = @ \ {a}])
    /\ UNCHANGED <<incidents, correlator, external, missed, left>>

-----------------------------------------------------------------------------
(* Requests.                                                               *)

Request(r, job) ==
    /\ IsAt(r, "idle") /\ Spend("requests") /\ Becomes(r, job)

ResolveRequest(r, a) == Resolves(r, a) /\ Spend("requests")

(* POST /incidents, with the alerts it is about. *)
CreateRequest(r, i, as) ==
    /\ NewId(i) /\ as # {} /\ \A a \in as : alerts[a].status # "none"
    /\ CreateIncident(i, "user")
    /\ Request(r, [Idle EXCEPT !.at = "bundle", !.inc = i, !.fresh = as])
    /\ UNCHANGED <<alerts, correlator, external, history>>

(* PUT: the handler reads the row; If-Match names a version the person has seen. *)
PutRequest(r, i, seen) ==
    /\ Exists(i) /\ seen \in 1 .. incidents[i].version
    /\ Request(r, [Idle EXCEPT !.at = "put", !.inc = i, !.copy = incidents[i], !.etag = seen])
    /\ UNCHANGED <<rows, correlator, external, history>>

(* Its ticket link is whatever the person's form held. *)
Put(r, url) ==
    LET job == jobs[r]
    IN  /\ IsAt(r, "put")
        /\ IF VersionMatches(job.inc, job.etag)
           THEN UpdateIncident(job.inc, [job.copy EXCEPT !.url = url])
           ELSE UNCHANGED <<incidents, excused>>
        /\ Ends(r)
        /\ UNCHANGED <<alerts, correlator, external, spared, missed, left>>

ResolveIncidentRequest(r, i) ==
    /\ Exists(i)
    /\ Request(r, [Idle EXCEPT !.at = "resolve", !.inc = i, !.copy = incidents[i]])
    /\ UNCHANGED <<rows, correlator, external, history>>

ResolveIncident(r) ==
    /\ IsAt(r, "resolve")
    /\ UpdateIncident(jobs[r].inc, [jobs[r].copy EXCEPT !.status = "resolved"])
    /\ Goes(r, "list")
    /\ UNCHANGED <<alerts, correlator, external, spared, missed, left>>

(* Those that the list leaves out stay as they are. *)
ListAlerts(r, page) ==
    /\ IsAt(r, "list")
    /\ Lists(ActiveIn(jobs[r].inc), page)
    /\ spared' = spared \cup (ActiveIn(jobs[r].inc) \ page)
    /\ IF page = {} THEN Ends(r) ELSE Becomes(r, [jobs[r] EXCEPT !.at = "flip", !.todo = page])
    /\ UNCHANGED <<rows, correlator, external, excused, missed>>

(* One listed alert.  If it sits in another incident by now, nobody looks whether *)
(* that one could close.                                                     *)
FlipListed(r, a) ==
    /\ IsAt(r, "flip") /\ a \in jobs[r].todo
    /\ Resolve(a)
    /\ Becomes(r, [jobs[r] EXCEPT !.at = "flipped", !.alert = a, !.todo = @ \ {a}])
    /\ excused' = excused \cup ({alerts[a].incident} \ {0, jobs[r].inc})
    /\ UNCHANGED <<incidents, correlator, external, spared, missed, left>>

(* It is skipped if somebody was faster, and if the database refuses. *)
SkipListed(r, a) ==
    /\ IsAt(r, "flip") /\ a \in jobs[r].todo
    /\ IF Active(a) THEN Spend("faults") ELSE UNCHANGED left
    /\ spared' = spared \cup ({a} \cap ActiveIn(jobs[r].inc))
    /\ IF jobs[r].todo = {a} THEN Ends(r) ELSE Becomes(r, [jobs[r] EXCEPT !.todo = @ \ {a}])
    /\ UNCHANGED <<rows, correlator, external, excused, missed>>

(* Mutant: the tickets of the incident's alerts are forgotten. *)
FlipsOnly(r) ==
    /\ IsAt(r, "flipped")
    /\ IF jobs[r].todo = {} THEN Ends(r) ELSE Goes(r, "flip")
    /\ UNCHANGED <<rows, correlator, external, history, left>>

RereadListed(r) ==
    /\ IsAt(r, "flipped")
    /\ enqueueTicketClose(TicketOf(jobs[r].alert))
    /\ IF jobs[r].todo = {} THEN Ends(r) ELSE Goes(r, "flip")
    /\ UNCHANGED <<rows, correlator, tickets, spared, excused>>

(* :merge of src into the target; etag holds the target. *)
MergeRequest(r, target, src) ==
    /\ Exists(target) /\ Exists(src)
    /\ Request(r, [Idle EXCEPT !.at = "collect", !.inc = src, !.copy = incidents[src],
                               !.etag = target])
    /\ UNCHANGED <<rows, correlator, external, history>>

Collect(r, page) ==
    /\ IsAt(r, "collect")
    /\ Lists(Members(jobs[r].inc), page)
    /\ spared' = spared \cup (ActiveIn(jobs[r].inc) \ page)
    /\ Becomes(r, [jobs[r] EXCEPT !.at = "move", !.todo = page])
    /\ UNCHANGED <<rows, correlator, external, excused, missed>>

(* An alert that cannot be moved stays, and src is closed all the same. *)
Move(r, a) ==
    /\ IsAt(r, "move") /\ a \in jobs[r].todo
    /\ \/ AssignAlertIncident(a, jobs[r].etag) /\ UNCHANGED left
       \/ /\ Spend("faults")
          /\ spared' = spared \cup ({a} \cap ActiveIn(jobs[r].inc))
          /\ UNCHANGED <<alerts, excused>>
    /\ Becomes(r, [jobs[r] EXCEPT !.todo = @ \ {a}])
    /\ UNCHANGED <<incidents, correlator, external, missed>>

CloseMerged(r) ==
    /\ IsAt(r, "move") /\ jobs[r].todo = {}
    /\ UpdateIncident(jobs[r].inc, [jobs[r].copy EXCEPT !.status = "resolved"])
    /\ Ends(r)
    /\ UNCHANGED <<alerts, correlator, external, spared, missed, left>>

-----------------------------------------------------------------------------
(* Summaries: asked for by a person or by a storm.  The row is read after the  *)
(* answer of the AI, and written with it.                                     *)

SummaryRead(p, i) ==
    /\ IsAt(p, "idle") /\ Exists(i)
    /\ p = "ai" => incidents[i].by = "correlation"
    /\ Spend("summaries")
    /\ Becomes(p, [Idle EXCEPT !.at = "summary", !.inc = i, !.copy = incidents[i]])
    /\ UNCHANGED <<rows, correlator, external, history>>

SummaryWritten(p) ==
    /\ IsAt(p, "summary")
    /\ UpdateIncident(jobs[p].inc, jobs[p].copy)
    /\ Ends(p)
    /\ UNCHANGED <<alerts, correlator, external, spared, missed, left>>

-----------------------------------------------------------------------------
(* Tickets: one worker of the outbox.                                      *)

AsksFor(a) ==
    /\ IsAt("notify", "idle") /\ left.tickets > 0
    /\ \E t \in TicketIds : tickets[t].of = NoAlert
    /\ Becomes("notify", [Idle EXCEPT !.at = "ask", !.alert = a, !.inc = alerts[a].incident])
    /\ UNCHANGED <<rows, correlator, external, history>>

(* A page over a ticket channel opens a ticket each time, per contact and step. *)
DeliverNotification(a) == Active(a) /\ AsksFor(a) /\ UNCHANGED left

(* The action of a step skips a closed alert and one that has a ticket, if it can *)
(* be read: else the copy in the job will do.                                *)
WantsTicket(a) == Active(a) /\ alerts[a].ticket = 0

DeliverAction(a) ==
    /\ alerts[a].status # "none" /\ AsksFor(a)
    /\ IF WantsTicket(a) THEN UNCHANGED left ELSE Spend("faults")

TicketCreated(t) ==
    /\ IsAt("notify", "ask") /\ tickets[t].of = NoAlert
    /\ \A u \in 1 .. t - 1 : tickets[u].of # NoAlert
    /\ Spend("tickets")
    /\ tickets' = [tickets EXCEPT ![t].of = jobs["notify"].alert]
    /\ Becomes("notify", [jobs["notify"] EXCEPT !.at = "attach", !.held = {t}])
    /\ UNCHANGED <<rows, correlator, closes, history>>

(* Who has closed an alert reads it again, for its ticket. *)
LooksAgain(a) == \E p \in Procs : jobs[p].alert = a /\ jobs[p].at \in {"reread", "flipped"}

Handled(t) == t \in closes \/ tickets[t].closed

(* Whether the alert is closed by now, or has a ticket, is not looked at; that the *)
(* write fails is only logged.                                               *)
SetAlertTicket(t) ==
    LET a == jobs["notify"].alert
    IN  /\ IsAt("notify", "attach") /\ t \in jobs["notify"].held
        /\ \/ /\ alerts' = [alerts EXCEPT ![a].ticket = t]
              /\ missed' = missed \cup {u \in {t} : Closed(a) /\ ~LooksAgain(a)}
                                   \cup {u \in TicketOf(a) : ~Handled(u)}
              /\ UNCHANGED left
           \/ /\ Spend("faults") /\ missed' = missed \cup {t}
              /\ UNCHANGED alerts
        /\ IF jobs["notify"].inc = 0 THEN Ends("notify") ELSE Goes("notify", "mirror")
        /\ UNCHANGED <<incidents, correlator, external, spared, excused>>

(* The link is mirrored onto an incident that has none. *)
ReadForLink ==
    LET row == incidents[jobs["notify"].inc]
    IN  /\ IsAt("notify", "mirror")
        /\ IF row.url = 0 THEN Becomes("notify", [jobs["notify"] EXCEPT !.at = "link", !.copy = row])
           ELSE Ends("notify")
        /\ UNCHANGED <<rows, correlator, external, history, left>>

Link(t) ==
    /\ IsAt("notify", "link") /\ t \in jobs["notify"].held
    /\ UpdateIncident(jobs["notify"].inc, [jobs["notify"].copy EXCEPT !.url = t])
    /\ Ends("notify")
    /\ UNCHANGED <<alerts, correlator, external, spared, missed, left>>

(* A ticket-close job is delivered. *)
CloseTicket(t) ==
    /\ IsAt("notify", "idle") /\ t \in closes
    /\ closes' = closes \ {t}
    /\ tickets' = [tickets EXCEPT ![t].closed = TRUE]
    /\ UNCHANGED <<rows, jobs, correlator, history, left>>

-----------------------------------------------------------------------------
(* Faults: a job that ends early (the client went away, the database refused)   *)
(* and a restart, which ends all of them and empties what is in memory.       *)

AlertOf(p) == {jobs[p].alert} \cap Alerts
Touched(p) == ({jobs[p].inc} \cup {alerts[a].incident : a \in AlertOf(p)}) \ {0}
TicketsLost(p) ==
    (UNION {TicketOf(a) : a \in AlertOf(p)})
        \cup (IF jobs[p].at \in {"attach", "enqueue"} THEN jobs[p].held ELSE {})

GiveUp(p) ==
    /\ ~IsAt(p, "idle") /\ Spend("faults")
    /\ Ends(p)
    /\ excused' = excused \cup Touched(p)
    /\ missed' = missed \cup TicketsLost(p)
    /\ UNCHANGED <<rows, correlator, external, spared>>

Restart ==
    /\ Spend("faults")
    /\ jobs' = [p \in Procs |-> Idle]
    /\ feed' = {} /\ window' = {}
    /\ excused' = excused \cup UNION {Touched(p) : p \in Procs}
    /\ missed' = missed \cup UNION {TicketsLost(p) : p \in Procs}
    /\ UNCHANGED <<rows, external, spared>>

-----------------------------------------------------------------------------

Engine ==
    \/ \E a \in Alerts : Open(a) \/ Recovery(a)
    \/ \E i \in Ids : OpenIncident(i)
    \/ AssignOpened
    \/ \E as, page \in SUBSET Alerts : ListStale(as, page)
    \/ ExpireStale
    \/ \E t \in TicketIds : EnqueueStale(t)

MaybeResolveIncident(p) == Reread(p) \/ LookAtIncident(p) \/ Count(p) \/ Close(p)

Correlator ==
    \/ \E a \in Alerts : Hear(a) \/ LookAtAlert(a)
    \/ \E keep \in SUBSET Alerts : Sweep(keep)
    \/ Looked
    \/ \E i \in Ids : CreateStorm(i)

Handler(r) ==
    \/ \E a \in Alerts : \/ ResolveRequest(r, a) \/ FlipListed(r, a) \/ SkipListed(r, a)
                         \/ Move(r, a)
    \/ \E i \in Ids, as \in SUBSET Alerts : CreateRequest(r, i, as)
    \/ \E i \in Ids : \/ \E seen \in 1 .. incidents[i].version : PutRequest(r, i, seen)
                      \/ ResolveIncidentRequest(r, i)
    \/ \E url \in TicketIds \cup {0} : Put(r, url)
    \/ \E target, src \in Ids : MergeRequest(r, target, src)
    \/ \E page \in SUBSET Alerts : ListAlerts(r, page) \/ Collect(r, page)
    \/ ResolveIncident(r) \/ RereadListed(r) \/ CloseMerged(r)

Notify ==
    \/ \E a \in Alerts : DeliverNotification(a) \/ DeliverAction(a)
    \/ \E t \in TicketIds : TicketCreated(t) \/ SetAlertTicket(t) \/ Link(t) \/ CloseTicket(t)
    \/ ReadForLink

Next ==
    \/ Engine
    \/ \E p \in Requests \cup {"engine"} : MaybeResolveIncident(p)
    \/ Correlator
    \/ \E p \in Requests \cup {"correlator"}, a \in Alerts : Bundle(p, a)
    \/ \E r \in Requests : Handler(r)
    \/ \E p \in Requests \cup {"ai"} : SummaryWritten(p) \/ \E i \in Ids : SummaryRead(p, i)
    \/ Notify
    \/ Restart \/ \E p \in Procs : GiveUp(p)

Spec == Init /\ [][Next]_vars

-----------------------------------------------------------------------------
(* Properties.                                                             *)

Rows == [status : {"none", "open", "resolved"}, by : {"nobody", "rule", "correlation", "user"},
         url : TicketIds \cup {0}, version : Nat]

(* Where a goroutine or a request can stand. *)
Places == {"idle", "create", "assign", "reread", "incident", "count", "close", "expire", "enqueue",
           "look", "storm", "bundle", "put", "resolve", "list", "flip", "flipped",
           "collect", "move", "summary", "ask", "attach", "mirror", "link"}

(* Every variable is one of the values it is meant to take: a goroutine holds   *)
(* copies of rows and sets of alerts, never half of either.                    *)
TypeOK ==
    /\ alerts \in [Alerts -> [status : {"none", "active", "resolved", "expired"},
                              incident : Ids \cup {0}, ticket : TicketIds \cup {0}]]
    /\ incidents \in [Ids -> Rows]
    /\ jobs \in [Procs -> [at : Places, alert : Alerts \cup {NoAlert}, todo : SUBSET Alerts,
                           fresh : SUBSET Alerts, inc : Ids \cup {0}, copy : Rows,
                           held : SUBSET TicketIds, etag : Nat]]
    /\ feed \subseteq Alerts /\ window \subseteq Alerts
    /\ tickets \in [TicketIds -> [of : Alerts \cup {NoAlert}, closed : BOOLEAN]]
    /\ closes \subseteq TicketIds
    /\ spared \subseteq Alerts /\ excused \subseteq Ids /\ missed \subseteq TicketIds

Quiet == \A p \in Procs : IsAt(p, "idle")

(* The last recovery closes the incident: once everybody is done, an open       *)
(* incident of a rule that has alerts has an active one, however the recoveries *)
(* of its alerts and the requests interleaved.  Not promised (excused): its alert *)
(* expired, joined when closed already or left for another incident, a write     *)
(* from an old copy opened it again, the closing was cut short (MaybeResolveIncident). *)
LastOneCloses ==
    Quiet => \A i \in Ids \ excused :
        MayClose(i) /\ Members(i) # {} => ActiveIn(i) # {}

(* And nothing else does: an active alert in an incident that was closed by the  *)
(* last recovery, by a person or by a merge is one that its closing job did not   *)
(* get hold of (spared).                                                     *)
ClosedUpTo(apart) ==
    \A i \in Ids \ excused :
        /\ incidents[i].status = "resolved"
        /\ \A p \in Procs : jobs[p].inc = i => jobs[p].at \notin {"list", "flip", "flipped"}
        => ActiveIn(i) \subseteq apart

ResolvedIsDone == ClosedUpTo(spared)

(* What the API says of :resolve and :merge: all the alerts of the incident are   *)
(* resolved or moved with it.                                                *)
ResolvedWithItsAlerts == ClosedUpTo({})

(* A PUT with If-Match never opens or closes an incident nor touches anything     *)
(* but what the form holds, although the handler writes a copy of the whole row. *)
PutIsSafe ==
    [][\A r \in Requests : \A i \in Ids :
         IsAt(r, "put") /\ jobs'[r] = Idle /\ incidents'[i] # incidents[i]
            => incidents'[i].status = incidents[i].status]_vars

(* The ticket of an alert is closed only once the alert is: neither a recovery nor *)
(* the expiry of other alerts closes it early (ExpireStaleAlerts lists more than  *)
(* it flips).                                                                  *)
NoEarlyClose ==
    \A t \in TicketIds : Handled(t) => Closed(tickets[t].of)

(* Every resolve path closes the tickets of the alert (ResolveAlert), also one    *)
(* that was stored between the flip of the alert and the second look at it.  Not  *)
(* so (missed): another ticket of the alert took its place, it was stored after   *)
(* that look or never, an expiry did not list it, the outbox refused the job, the *)
(* process stopped in between.                                               *)
TicketsClosedUpTo(apart) ==
    Quiet => \A t \in TicketIds \ apart :
        tickets[t].of # NoAlert /\ Closed(tickets[t].of) => Handled(t)

(* A ticket is closed with its alert, neither earlier nor never. *)
TicketsFollow == NoEarlyClose /\ TicketsClosedUpTo(missed)

(* What the comment of ResolveAlert says, without exception. *)
EveryTicketCloses == TicketsClosedUpTo({})
=============================================================================
