# Northplane: a verification development

Northplane (`src/`) is a monitoring server: it runs checks, turns results into
soft and hard states, turns state changes into events, events into alerts, and
alerts into escalation chains whose notifications are delivered through a
durable outbox.  One Go process holds all workers; several such processes
("nodes") may share one database.  This directory holds TLA+ models of the
parts where an alarm can get lost, be sent twice or be sent to somebody who has
already reacted, where an incident stays open or closes too early, where an edit or
an answer of the AI is lost between the web UI and the server; TLC configurations
that check them, and TLAPS proofs.

## The system

```
 catalog --Upsert/Remove--> Scheduler --jobs--> Executor --results--> Pipeline --events--> Alerting engine
                                                                   |  (CheckState)              |
 ingress (traps, mail, MQTT, phone, API) --events------------------+--------------------------->|
                                                                                                |
 users --ack/snooze/resolve--> API handlers --> alert rows, timers <--StartChain/StopChain------+
                                                     |
                                              Escalation worker --EnqueueOutbox--> Outbox --> Notify worker --> providers
                                                                                      |            (tickets)
 Correlator <--alert_opened-- event bus            incidents <--assign, close-- engine, correlator, requests, tickets

 web UI: dialogs --GET, PUT + If-Match--> documents        chat page --POST, stream--> turn handler --> chats, AI actions
```

| Component | State | Operations | Talks to | What is hard | What makes it correct |
|---|---|---|---|---|---|
| Scheduler (`scheduler/`) | ring of slots, entry per object, wheel time, bounded queue `Out` | Upsert, Remove, advance, CheckNow | executor (queue), catalog | the wheel catches up after stalls; the queue fills; the catalog changes meanwhile | every scheduled object stands in the slot its entry names; nothing is left behind the wheel; no drift; no second check for one planned time |
| Executor (`executor/`) | two pools of workers | take a job, run it, time out, probe freshness | scheduler, pipeline (blocking queues) | back-pressure in a circle with check-now | every job yields one result or a time-out |
| State machine (`statemachine/`) | none (pure) | Apply | pipeline | active, passive and freshness results with different maxima; flapping | soft/hard counting, hard changes, hysteresis |
| Pipeline (`pipeline/`, `storage/objects.go`, `storage/events.go`) | working set, dirty set, pending events; tables `check_state`, event segments | process, flush, Forget, ClearAck | executor, API, alerting engine | batches that fail half-way, deletions and acknowledgements by other goroutines, crashes | no change forgotten, no event dropped, no acknowledgement overwritten |
| Alerting engine (`alerting/`) | alerts opened while suppressed, pending drafts, heartbeats | open, re-evaluate, resolve, expire, wake snoozed | pipeline, store, escalation | several database calls per step, in-memory bookkeeping | an open alert has a chain unless suppressed |
| Alert handlers (`api/alerts.go`, `storage/alerts.go`) | the alert rows | raise, ack, snooze, resolve | escalation | status write and chain write are separate | a closed alert is silent |
| Escalation engine (`escalation/`) | durable timers, copies of due rows | StartChain, StopChain, Run, fire | alert rows, outbox | reads a copy, acts on it later, writes by key | steps in order, not early, bounded, not lost; none unsent (violated) |
| Outbox and notify manager (`storage/queue.go`, `notify/`) | durable rows with a lease | enqueue, claim, send, done, retry, dead, replay | providers | a batch outlives its lease, sessions hang, answers get lost, crashes | at-least-once, every duplicate has its cause, dead only after all attempts unless somebody was late |
| Incidents (`alerting/engine.go`, `alerting/correlate.go`, `api/alerts.go`) | incident rows, the column `incident_id` of an alert, the window of the correlator | open, assign, count and close, bundle a storm, edit, merge, resolve, summarise | alert rows, tickets, AI | every writer writes the whole row it has read; count and close are two calls | closed with its last alert, never before, never reopened by a stale edit |
| Tickets (`notify/ticket.go`, `notify/notify.go`) | ticket key on the alert, mirrored onto the incident | create, store, mirror, close through the outbox | providers | creation races resolution and expiry | the ticket of a closed alert is closed, that of an open one is not |
| Agent chat (`web/src/components/agent/`, `ai/agentloop.go`, `api/ai_chat.go`) | the pending message of the page; chats, messages; the map of running streams | send, regenerate, stop, stream, persist | provider, AI actions | two tabs, a stop between two rounds, a restart, a silent provider, chunks of a turn that was left | tool work is tried to store, one answer at a time, the composer unlocks |
| AI actions (`ai/service.go`, `api/ai.go`) | proposed actions | propose, decide, execute, finish | API, tools | two people decide; a crash between decide and finish | executed at most once, only if approved |
| Web UI dialogs (`web/src/components`, `web/src/pages`) | draft, query cache, version to send, active customer | open, refetch, save, retry, switch customer | documents | the draft is old, the version follows a refetch; requests in flight while the customer changes | a save replaces what was seen; it reaches the right customer |
| Configuration documents (`api/resources.go`, `storage/objects.go`) | rows with a version | read, save under If-Match, create, delete | dialogs, scheduler catalog | look and write are two statements, and some writers have no guard | no two contents under one version, no silent overwrite |
| Live stream (`eventbus/`, `sse/`) | bounded channels | publish, fan out, drop with resync, replay | subscribers | slow consumers | a client that lost something is told |
| Audit trail (`storage/audit.go`) | hash chain | append, verify | everybody | concurrent appenders | one chain |
| Report scheduler (`api/reportsched.go`) | runs archived per slot | look, render, archive, mail | outbox | two servers, a crash between archive and mail | once per slot |

The remaining parts (object model, plugins, time series, ingress listeners,
speech, federation, bundles, API plumbing, the views of the web UI) are listed in
`PROJECT.json`, and under "Not modelled" below.

## Modules

| Module | Models | Length against code |
|---|---|---|
| `Escalation` | escalation worker, alert rows, API handlers, the engine's opening, suppression, resolving, expiry and wake-ups | `escalation.go`, `storage/alerts.go`, parts of `api/alerts.go`, `engine.go`, `storage/queue.go` |
| `Outbox` | outbox rows and the notify workers | `storage/queue.go`, `notify.go` |
| `Scheduler` | the timing wheel | `scheduler.go` |
| `CheckState` | the state machine as operators | `statemachine.go` |
| `Pipeline` | working set, flush, deletion, restart; EXTENDS `CheckState` | `pipeline.go`, `storage/objects.go`, `storage/events.go` |
| `CheckFlow` | the lanes, the executor, the queue of results and the check-now requests of the pipeline | `executor.go`, `scheduler.go` (CheckNow), parts of `pipeline.go`, `eventbus.go` |
| `Incidents` | incidents, the alerts they bundle and their tickets | `correlate.go`, parts of `engine.go`, `api/alerts.go`, `storage/alerts.go`, `notify.go`, `ai/service.go` |
| `Delivery` | what an outbox promises: the abstract specification `Outbox` implements | |
| `AgentChat` | the chat page, its stream, the turn handler and the approval of actions | `AgentChat.tsx`, `uistream.ts`, `agentloop.go`, `ai_chat.go`, `ai.go` |
| `Forms` | where each dialog of the web UI takes the parts of a save from | one line per dialog |
| `Editing` | one tab that edits documents others edit too; EXTENDS `Forms` | `useSave.ts`, `tenant.ts`, the dialogs, `resources.go`, `storage/objects.go` |
| `Escalation_proofs`, `Outbox_proofs`, `Scheduler_proofs`, `Pipeline_proofs`, `CheckFlow_proofs`, `Incidents_proofs`, `AgentChat_proofs`, `Editing_proofs` | theorems | |
| `MCEscalation`, `MCOutbox`, `MCScheduler`, `MCPipeline`, `MCCheckFlow`, `MCIncidents`, `MCAgentChat`, `MCEditing` | constants for TLC | |

### Escalation

One action is one SQL statement (or one transaction) of one goroutine, because
that is where others can come in between.

* `alerts`, `timers` are the tables; `esc[n]` is the escalation worker of a node
  (what it polled, which copy it is firing and where in `fire` it stands),
  `engine[n]` the engine's goroutine, `suppressedOpen[n]` the engine's map,
  `starting`/`stopping` the request handlers between their two writes.
* `Poll`, `FireRead`, `Notify`, `ArmNext`, `Repeat`, `MarkDone` are `Run` and
  `fire` split at its database calls; `FireReadFails`, `PolicyReadFails` and
  `OwnWriteFails` are its error paths.  `fire` works on the copy (`cur`) of the
  polled row, with the status it read at its start, as the code does.
* `Raise`, `Ack`, `Snooze`, `Resolve` with `HandlerStarts`, `HandlerStops` are the
  handlers; `RuleOpens`, `Gate`, `EngineStarts`, `ReEvaluate`, `RuleResolves`,
  `EngineStops`, `Expire`, `WakeSelects`, `WakeFlips`, `WakeStarts` the engine.
* `Notify` is `notifyStep`: whether it enqueues, finds nobody to page, or is refused
  by the outbox, the firing counts in `fired` and the chain goes on; `unsent`
  remembers the steps whose last notification was not enqueued.
* Left out: what a step sends and to whom, labels, comments, events, tickets and incidents of the handlers, the
  200-row limit of a poll.  All alerts have the same policy and rule.  Incidents and
  tickets of the same handlers are in `Incidents`.

Worth knowing when reading it: a step 0 that is sent again after a crash carries
`repeats = 0` again, so it arms its next step again and postpones it.

### Outbox

`ReadDue` and `ClaimOutbox` are the two calls of a tick, `Deliver` the lookup of
the alert, `Sent`, `SendFails`, `AnswerLost` the ways a transport ends, and
`OutboxDone`, `OutboxRetry`, `OutcomeLost` the write of the outcome.  A worker
keeps the copies it claimed, and writes outcomes by id, whatever has happened to
the row since.  Time passes only while workers wait or send; a database call
takes none.  A send takes at most `SendMax`, but its session may hang (`Stall`, `Resume`):
a mail session has no deadline after the dial.  A worker may hold its batch longer than
its lease, as the constants of the code allow (100 rows of up to 20 s against 120 s); the
deliveries to which that happened are named in `late`, and a claim of a delivery that
another worker still holds counts in `excused`.  `Backoff` keeps the cap and the jitter of
the code in integers.

`Implements` maps the table and the history of the tries to `Delivery`: rows, leases,
workers, nodes and time disappear, and what is left is that a delivery stays until the
provider took it or its alert was closed, is given up only after all its attempts, and
comes back only by a replay.  The last two are promised of a delivery no worker was late
with: `Delivery` has an action for the outcome that comes late.  A claim, a retry, a crash
are stutters there.

### Scheduler

`Advance`, `NextSlot`, `Keep`, `Dispatch`, `Postpone` are the loop of `advance`
under its lock, entry by entry; `Take` is the executor; `Upsert` and `Remove` are
called by the boot and by changes of the catalog, only between two visits (the
lock).  The clock may run on while the wheel works: a stall is just a number of
`Tick`s.

### CheckState and Pipeline

`Apply` computes the next row of `check_state` for a result.  The flap history is a set of
ages instead of a bit field, with the code's weights scaled to integers.

Three history variables of `Pipeline` record what an observer of the results and events
sees, whatever the rows say: `run`, the problem results in a row, `told`, the state of the
last hard change reported, and `unsure`, the objects whose state was guessed (no row, or a
row that could not be read) or lost (a crash, a Forget before the flush) and that have not
recovered since.  They are not part of a row and survive a restart.

`Receive`, `Process`, `ClearAck`, `FreshEnough` are `process` split where other
goroutines come in: the lookup in the catalog, the work on the state, the write of
the acknowledgement.  `BeginFlush`, `SaveStates`, `WriteMonth` are `flush`.
`ApiDelete`, `ApiUnlist`, `ApiForget` and `BundleForget`, `BundleDelete`,
`BundleReload` are the two orders in which an object is deleted.  `Restart` is a
crash, or the start after a shutdown with its last flush.

* The event segments are those of SQLite: one transaction a month.
* All parents of a host that is down are loaded; the code stops at the first one
  that is up, which only leaves fewer objects in the working set.
* The services of a deleted host, the clearing of an acknowledgement by a snooze
  wake-up and check-now are left out; results arrive in any order.
* Failed writes and reads, restarts, deletions and acknowledgements share one
  budget, `MaxTroubles`.

Facts of the code that the model made visible: an object that was never checked is
UNKNOWN and hard, so its first problem result is hard at once (`HardIsConfirmed`); a parent
that was never checked counts as down; events whose write failed are only tried again once a
result arrives or a state is dirty, since the ticker does not look at them
(`pipeline.go:80`).

### CheckFlow

Queues are bounded channels; a send that finds no room is an action that is not
enabled.  `LookFirst`, `TakePriority`, `TakeOut`, `Accept`, `Dispatch`, `Probe` are the
loop of `Run` in the executor, split where it can block: at the two selects, at the
semaphore of a pool, at the queue of results (a freshness probe sends from the loop
itself).  `Finish` is the send of a worker, whichever way its check ended; it frees the
slot only after it.  `CheckNow` is called by users, by retry timers (`RetryFires`) and,
in the goroutine of the pipeline, by a cascade to dependent hosts (`CheckChild`); when
the priority lane is full, the caller waits for room in the other one (`GetsRoom`,
`PushChild`).  `RemoveObject` takes an object out of the catalog while its jobs and
results are still on their way.

* What a check finds is a free choice: nothing, a soft problem (a retry later), or a
  hard change (a cascade).  `Pipeline` says which of them it is.
* Jobs of the wheel are free too; `Scheduler` says when they come.
* Left out: passive results and those of agents, which only add senders to the queue of
  results; events, which have a queue of their own; the shutdown, in which the executor
  waits for workers while the pipeline no longer reads.

### Incidents

One action is one call of the store.  `jobs` says of every goroutine and every request
where it stands and which copies of rows it holds.

* `MaybeResolveIncident` (`Reread`, `LookAtIncident`, `Count`, `Close`) is what every
  recovery does: read the alert, read the incident, count its active alerts, write the
  incident.  `OpenIncident` and `AssignOpened` are the two writes of an opening.
* `Hear`, `Sweep`, `LookAtAlert`, `Looked`, `CreateStorm`, `Bundle` are the correlator; which
  alerts share a label is the choice of `keep`.
* `CreateRequest`, `PutRequest` and `Put`, `MergeRequest` and `Collect`, `Move`,
  `CloseMerged`, `ResolveIncidentRequest` and `ListAlerts`, `FlipListed`, `SkipListed`, `RereadListed` are
  the handlers; `SummaryRead`, `SummaryWritten` the two ends of a summary.
* `DeliverNotification` is a page over a ticket channel, which opens a ticket each time;
  `DeliverAction` the ticket action of a step, which skips an alert that has one.
  `TicketCreated`, `SetAlertTicket`, `ReadForLink`, `Link`, `CloseTicket` are what follows;
  `ListStale`, `ExpireStale` and `EnqueueStale` the list, the flip and the enqueueings of an
  expiry.
* A listing returns a page (1000 alerts in the code) or fails, and its callers take a
  failure for an empty list (`Lists`); a move or a resolution of a listed alert may fail, and
  the incident is closed all the same.
* A whole row is written from a copy, as `UpdateIncident` does.
* Three history variables name what the properties do not promise, so that they promise
  everything else: `spared` (alerts whoever closed their incident did not get hold of: they
  joined late, the list was cut or failed, their move or resolution did), `excused` (incidents that were reopened by an old copy, or cut short by a fault, or have an
  alert that expired or left), `missed` (tickets nobody was told to
  close: overwritten by a second one, stored too late or never, not listed by an expiry,
  refused by the outbox, cut off by a restart).  Each has its
  line under "Where the code and its words disagree".

### AgentChat

`page` is the state of the React component: the open chat, the pending message, whose
abort controller it holds.  A turn has two ends, `client` and `server`, and a stream of
chunks between them.  `StoreUser`, `CutFrom`, `ListHistory`, `Claim`, `Busy`, `Speaks`,
`LastRound`, `ToolRound`, `RoundFails`, `Persist`, `PersistFails` are the handler, one
database call or round each, and each call may fail; `Stalls` and `Resumes` are a provider
that falls silent after its headers, which nothing bounds; `Receive`, `Ends`, `Settle` the reader and the `finally` of `runTurn`; `FoldParts`
and `FoldStatus` are `uistream.ts`.  The text is left out, except whose it is: a part holds
the set of turns whose words were folded into it.  The field `left` of a turn records that
the page has moved on before the turn was over; nothing in the code notes it.
`Approve`, `Deny`, `Execute`, `Finish` are the life of one proposed action.

### Editing and Forms

A dialog takes the fields it shows, the fields it does not show, and the version it sends
from one of four places: what it read on the click, what the cache of the query holds now,
the row of the list, a GET at the time of saving.  `Forms` says so for each of the
nineteen dialogs that edit documents and the two that edit hosts and services; `Editing` is the machine they all run on.  A stamp of `clock`
stands for what is in a part of a document, and `put` carries the reads that the parts of a
save come from, so that properties can compare what was seen with what was replaced.
`Check` is the look of `PutResource`, `WriteNew` and `WriteOld` its two statements;
`LookAtObject` and `UpdateObject` are those of `PUT /objects/{id}`, which names an id, leaves
the version to the write and never brings back what was deleted.

* A GET is one action, at the time of its answer.  One save of the tab is in flight at a time;
  a second one is `UpdateElsewhere`: a guarded write of somebody else is atomic, because its
  statement compares the version it counts on.  An unguarded one (`PutResource` with
  `expectVersion` 0: bundles, the tools of the AI, the demo) is not: `ReadElsewhere` reads,
  `WriteElsewhere` writes the version after the one it read over whatever is there by then.
* A new document has an id of its own or, if the caller sets one, that of an earlier document
  (`CreateElsewhere`).  `recounted` names the documents whose version some write did not count
  on: brought back under their old id, or written late without a guard.
* Users, AI connections, the tool policy, chats and heartbeats are saved without a guard and
  are not in `Forms`.

## Runs

Every clock and counter is bounded (the bounds are
CONSTANTS), so a bounded run really stops: all runs say `CHECK_DEADLOCK FALSE`.
`RacesBounded`, `FiresAsPlanned`, `OnTime`, `OneAnswer` and `TicketsFollow` are conjunctions of
two named parts each.

| Run | Question | Bounds |
|---|---|---|
| `escalation_chain` | Are steps sent in order and not early, and what can two nodes do to each other? | one alert, two nodes, two steps, one snooze, one crash or one failed call while the other node rests, two seconds |
| `escalation_live` | Does every step fire as often as planned, does the chain go on, and does it end? | one alert, one node, two steps, the first repeated, auto-close after three seconds, one crash, six seconds |
| `escalation_crash_open` | Does every open alert have a chain? (violated) | one crash, four seconds |
| `outbox_lease` | What does the lease promise, do the rows implement `Delivery`, also when a batch outlives it, and does every delivery settle? | two deliveries, two nodes, batches that take as long as a lease, hanging sessions, a replay, a crash, a failed call, two attempts, three seconds, fair |
| `outbox_overrun` | Does the lease exclude a second holder? (violated) | the same deliveries and nodes, nothing fails |
| `scheduler_wheel` | Is the wheel consistent, on time and on its grid? | two objects, four slots, intervals 1 to 3, queue of one, eight seconds, start after the boot, one change of the catalog |
| `pipeline_states` | Are states counted right, and does nothing get lost in the batches? | two hosts, one behind the other, three results, two troubles, two months, two attempts, two results of flap history |
| `pipeline_poison` | Does the retry save the change? (violated) | two results, one trouble, fair |
| `checkflow_drains` | Does every job come back, does check-now go first, and can everybody wait for everybody? | a router and the server behind it, one worker, lanes and queue of one place, five jobs, two findings |
| `incidents` | Does an incident close with its last alert and not before, may a stale edit change it, and does a ticket follow its alert? | two alerts, one of a rule with incidents, two incidents, two tickets, a storm of two; `Few` says which requests, storms, summaries, expiries, tickets, faults and short pages meet |
| `agentchat_turns` | Is the work of a turn kept, is one answered at a time, is an action run once, and does the page unlock? | two chats, two turns that race, or one of two rounds with tools that is stopped, deleted or restarted under and meets one fault, or a proposal two people decide |
| `editing_forms` | Which guarantee do all dialogs share? | all twenty-one forms, one name, two customers; two saves against two changes, or against a change, a deletion and a new object of the name; a save against an unguarded write and a change, or an unguarded write, a deletion and a new object; a save against switches |

Ten more configurations show one divergence each, TLC finds each of them violated, and none
asks anything the runs above do not already exempt by name: `escalation_unsent`
(`NoStepUnsent`), `escalation_abandoned` (`NotAbandoned`), `outbox_replay` (`FromScratch`),
`pipeline_first` (`HardIsConfirmed`), `incidents_spared` (`ResolvedWithItsAlerts`),
`incidents_tickets` (`EveryTicketCloses`), `agentchat_lost` (`PersistenceAlwaysHappens`),
`agentchat_stalled` (`EveryTurnEnds`), `editing_lost` (`NoLostUpdate`), `editing_guard`
(`IfMatchGuards`).  Their traces stand behind the list under "Where the code and its words
disagree".

Why the bounds suffice: the interesting orders need one alert and one actor of each
kind between two calls of another; a second step shows what a step does to the next
one, and one repeat what a repeat does; a second node shows all races between nodes,
since the code never looks at more than one row of another node.  Eight seconds on
four slots are two revolutions.  Three results on two hosts get an object to soft,
to hard and back, or change its source, with a failed batch or a restart in between;
longer sequences are covered by the proof.  With five jobs on queues of one place every
queue is full at once with one more job in every hand, which is what the circle of
`CheckFlow` takes (TLC reaches it after thirteen steps).  In `Incidents` two alerts are the
fewest that can be bundled, and a race is between two actors; a third only repeats one of
the pairs of `Few`.  In `AgentChat` the second turn is the one that meets a busy chat or
whose message the chunks of the first might reach.  In `Editing` a second change is needed
only for a version that follows a refetch and is old again or comes twice, a second customer
for a switch.  In `Outbox` two deliveries make a batch whose second send begins when the lease
ends; a hundred do the same later.
`SYMMETRY` is used for nodes and for people, in runs without liveness only.

Fairness.  `Escalation!Fairness` and `Outbox!FairSpec` assume that the tickers run,
that a supervised worker is restarted (`server.go`, the supervisor) and that a
handler runs to its end; `Pipeline!FairSpec` the same for the goroutine of the
pipeline and the restart of a stopped process.  `CheckFlow!Spec` assumes that a goroutine that
can go on does, and that every check ends: its context has a time-out, and a plugin is
killed with its process group (`exec_common.go`).  `AgentChat!Spec` assumes that a handler and
the reader of a stream go on: the database and the tools answer, a turn has at most
`MaxRounds` rounds.  A provider that has fallen silent is assumed to end its round only when
the request is cancelled, because nothing else bounds it; `Unlocks` therefore exempts a
provider that is silent for ever on a turn nobody stops.  `Outbox!FairSpec` does not assume
that a hanging session ends: `Settles` asks that some node's worker is not hung for ever.
Nothing is assumed of users, suppressions, failures or deletions.  `escalation_live` has no snoozes and no
failing calls: with them the chain can be lost, as the next section says.

## Where the code and its words disagree

Each is shown by a configuration that TLC finds violated (see above; the quotes of 1, 4 and 6,
which are runs, are in `PROJECT.json`):

1. **An open alert without a chain** (`OpenHasChain`).  `open` and `RaiseAlert` insert the
   alert and start its chain in a later call; after a crash in between, the dedup key hides the
   alert from every later event (`engine.go:286-333`, `api/alerts.go:548`).
2. **A step nobody was told about** (`NoStepUnsent`).  The outbox refuses a notification, or no
   contact resolves: the chain goes on to the next step (`escalation.go:176`, `209`).
3. **An abandoned chain** (`NotAbandoned`).  A policy that cannot be loaded once ends the chain,
   and the errors of the writes of the chain are dropped (`escalation.go:102-107`, `132`).
4. **A lease for a batch** (`NoSecondHolder`).  Up to 100 deliveries share one lease of two
   minutes and are sent one after another, each for up to twenty seconds (`notify.go:97`),
   although the lease "prevents the double-send" (`storage/queue.go:120-124`).
5. **A late outcome** (`FromScratch`).  An `OutboxRetry` of a worker whose row was claimed by
   another or replayed meanwhile writes its old attempt count over the fresh row
   (`storage/queue.go:184`, against `reliability.md:60`).
6. **A poisoned batch** (`RetrySaves`).  An object deleted while its result is in the pipeline
   stays in the working set; the transaction of every later flush breaks the foreign key
   (`pipeline.go:338`).
7. **A hard problem after one result** (`HardIsConfirmed`).  An object without a row, or whose
   row could not be read, starts as a hard unknown (`pipeline.go:95`, against
   `checks-and-states.md:8`).
8. **Alerts that outlive their incident** (`ResolvedWithItsAlerts`).  Resolving and merging
   incidents drop the errors of the list, of the moves and of the resolutions, and the list ends
   at 1000 alerts; the incident is closed all the same (`api/alerts.go:438-479`).
9. **A ticket nobody closes** (`EveryTicketCloses`).  A ticket stored after its alert was
   resolved, or overwritten by a second one over a ticket channel, is never closed
   (`ticket.go:69`, `storage/alerts.go:331`).
10. **Tool work without a transcript** (`PersistenceAlwaysHappens`).  The one attempt to store an
    answer may fail (`agentloop.go:119`, against `agent-chat.md:243`).
11. **A turn without an end** (`EveryTurnEnds`).  A provider that falls silent after its headers
    holds the turn, the lock of the chat and the composer until the user stops it
    (`stream.go:122`).
12. **A version that follows the refetch** (`NoLostUpdate`).  The fields of a dialog are seeded
    once, its version comes from the query: after a refetch in the background the save carries
    somebody else's version and overwrites their change (`Roles.tsx:112`, and the other forms of
    `Forms` with `lock` "query"; the page of a host does so 2.5 s after "check now").
13. **Two contents under one version** (`IfMatchGuards`).  An unguarded write gives its contents
    the version after the one it read, whatever was saved in between (`resources.go:148`): the
    If-Match of a dialog matches what its user never saw.

Met while modelling, seen in the models, not given a run:

* `fire` writes the next step and the repeat with the status it read at its start; an
  acknowledgement in between is overwritten, and the alert gets one more step
  (`escalation.go:132`, `141`, against `reliability.md:67`).
* The flip of a snooze wake-up does not look at the deadline again, so an extended
  snooze is woken at the old one (`storage/alerts.go:283`).
* `markDone` writes over a step 0 that a wake-up has just re-armed
  (`escalation.go:78`, against `reliability.md:68`).
* A circle of full queues: the pipeline, in a cascade, waits for room in the lane of the
  executor ("blocking is fine here", `scheduler.go:160`), the loop of the executor waits
  for a worker, and the workers wait for room in the queue of results that only the
  pipeline empties (`executor.go:166`).  With the sizes of the code it takes a cascade to
  more than twelve thousand hosts, or a smaller one while the queues are already full;
  then no check is ever processed again.  `Circle` is the only excuse of `Drains`.
* **Offsets after a snooze.**  Only the copy passed to `StartChain` has the new origin; the
  following steps count from the original opening (`engine.go:735-737`, `escalation.go:128`).
* Two nodes poll the same due timers, nothing claims them, and both page
  (`escalation.go:64`).
* **Postponed by a revolution.**  An entry that meets a full queue stays in the slot just
  visited and is next seen after 24 hours (`scheduler.go:236-237`); `OnTime` excuses it.
* **Incidents.**  Every writer of an incident writes the whole row it has read: a summary, an
  edit or a mirrored ticket that was read before the incident was resolved opens it again.
  The correlator attaches active alerts to an incident that is resolved already.  An expiry
  never closes the incident of its alerts (`concepts/alerts-incidents.md:62`: "expired: like
  resolve").  A recovery between the creation of an incident and the assignment of its alert
  leaves it open for ever, as a crash there does.  A correlator and a merge overwrite each
  other's assignment.
* **Chats.**  A turn whose first round fails or is stopped loses the text that was streamed
  (`agentloop.go:52`, `154`), although "persistence always happens" (`agent-chat.md:243`).
* **Dialogs.**  A PUT of a row that was deleted after the look brings it back with its old id
  (against `resources.go:130`), and a document that carries its id may be made anew under it at
  version 1.  A switch of the customer in another tab is not noticed
  (against `TenantSwitcher.tsx:13`).  A second click on Edit keeps the old draft under the new
  version and the new target of Delete.  The success of a save whose dialog was cancelled
  closes the next dialog.  The dashboard editor answers a conflict by a GET and a second PUT
  of its own document.  The forms that read the version while saving overwrite what was
  changed since their list was read.  The tool policy and the settings of a chat compare the
  version and then write without it, and connections ignore the version they are sent
  (`api/aichat.go:80`, `189`, `267`: "optimistic concurrency when the client sends If-Match").
* An SMTP session has a dial time-out only (`notify/email.go:144`, against `reliability.md:49`):
  it may outlive the lease, and one that hangs for ever stops every delivery of its node, since
  one goroutine sends them one after another.  `Settles` names the case.
* An entry whose second passes between its `Upsert` at boot and the start of the wheel
  waits for a revolution (`scheduler.go:192`); `OnTime` excuses exactly these.
* A batch of events of two months of which one was written is retried as a whole and
  breaks the primary key for ever (`storage/events.go:207`).
* After a crash between the write of the states and the alerting engine the table says
  "hard problem" and no event follows; `unsure` names such an object.
* The acknowledgement of an alert is mirrored onto the check state later
  (`api/alerts.go:184`): if the object recovers in between, it sticks to the next
  problem.

## Proofs

All theorems hold for every value of the constants that satisfies the named
assumptions, which TLC evaluates: `EscalationAssumption` (finitely many nodes),
`OutboxAssumption` and `PowersOfTwo`, `SchedulerAssumption` (an interval fits into the
ring, the boot takes less than a revolution), `ObjectsAssumption`, `AttemptsAssumption` and
`FlapAssumption`, `CheckFlowAssumption`, `IncidentsAssumption` (finitely many alerts),
`AgentChatAssumption`, `EditingAssumption`.  The bounds of the models (clock, inputs, crashes,
budgets) are constants too, so the theorems hold for every bound.

Each proof has one inductive invariant, checked by TLC on a run before it was proved, one
lemma per group of actions, and theorems that only draw conclusions from it.

**`Escalation_proofs`.**  `TypeCorrect` is proved action by action.  `NotEarly` and
`StepsInOrder` are about rows and firings; neither is inductive, because a worker acts
on a copy that may be as old as its poll.  `ChainInv` adds what the copies obey:
a copy held by a worker is of an alert that was opened, is due, is not before its
moment, and its previous step has fired (`CopiesInv`); the engine only holds alerts
that were opened, and a waker's time is not before the opening (`EngineInv`); an
alert that was not opened has no timers (`FreshInv`).  These survive acknowledgements,
snoozes, crashes and failed writes because they only mention facts that never go back:
openings, the clock and firings grow (`Grows`), so a copy that was sound stays sound
(`SoundKept`).  From `ChainCorrect` follow `NeverEarly` and `InOrder`: a step is armed only after the one before
it has fired.  That this one also reached the outbox is not promised, and `escalation_unsent`
shows why.

`RacesAreBounded`: what a node still sends after a close was decided before it, so the late
firings and the nodes about to notify about a closed alert are together no more than the nodes
(`FewLate`); an alert that can be flipped has been woken less often than it was snoozed
(`FewWakes`).

`ChainSurvives`: no step of an open alert gets lost.  The hard case is a row that is fired
twice, by two nodes or again after a crash, and a row whose repeats go on while later steps
run.  `RunInv` says what is kept: behind every row, copy and firing that repeats, all later
steps have fired as planned, are pending, or behind a row that was not fired yet (`AliveFrom`); and
a row never counts more repeats than it has fired (`CountInv`).  It holds for every policy,
number of nodes and crashes, for alerts that were never snoozed, as long as no write failed: a
stop of the chain that comes late may cancel the chain a waker has started, and a failed write
leaves the chain where it is.

`ChainUnlessFailed`: `OpenHasChain`, which a crash violates (see above), holds for every
interleaving without a crash and without a failed call.  The proof attempt showed that the
definition had left out the alerts a waker has flipped and not yet started, `engine.woken`.

`AsPlannedUnlessFailed`: `FiresAsPlanned` on one node on which nothing fails, for every policy.
`ChainSurvives` is one half.  The other, `FiringsBounded`, is an account (`Budget`): the firings of
a step, those still to come of its row or copy (`Left`), and a whole round for every earlier
step that will still arm its next (`ToArm`) are covered by the starts.  A copy counts instead
of its row, because the worker overwrites the row when it is through with the copy.  A start
adds a round for every step, arming the next step uses up the one that arms (`ArmPlan`), and
everything else spends.

**`Outbox_proofs`.**  No theorem assumes anything of the lengths of leases, batches and sends.
`LeaseInv` is what a lease is worth then: the row of a copy a worker has not finished is as it
was claimed, and its lease still runs, or the delivery is in `late` (`Firm`).  A claim needs a
row that is due, so it meets a held one only if that is late (`NobodyElseHolds`).  `CountInv`
ties the attempts of the rows and copies to the failed tries, again up to `late`, and says that
an outcome about to be written has its cause.  `SendInv` counts what the provider took against
the crashes, lost answers, failed writes and second claims of that very delivery, each of which
is one in `excused`.  From them follow `DeadAfterAllAttempts`, `NoOtherDuplicates` and, action
by action, the refinement `KeepsThePromise`.  `PowersOfTwo` says that the powers the backoff
uses are positive, which the provers do not know; TLC evaluates it.

**`Pipeline_proofs`.**  `Invariance` carries the types through the working set, the table and
the batches in flight (`MachineInv`), together with: a batch in flight holds only changes that
are in the working set or were superseded by a forgotten object (`BatchInv`), an event of a
batch whose month is done is stored (`SegmentInv`), an acknowledgement is only cleared when the
state in the working set is OK (`RecoveryInv`).  `NothingForgotten` and `EventsKept` are part of
the induction, `AckStays` follows for the steps.  `ObservedAlways` is a second induction on top:
of an object that is not `unsure`, what was observed agrees with its state wherever that is, in
the working set, in the table, or in a batch on its way there, and so survives being loaded
again.  `ApplyObserved` shows that the state machine keeps `Counted` and `Told` for every state,
input, source and number of attempts.  `HardCounted` and `ChangesTold` are its conclusions.

**`CheckFlow_proofs`.**  `TypeCorrect` includes that no queue exceeds its capacity.
`CheckNowFirst` is inductive once one knows that an overtaken job still waits and that
the loop will look at its lane before it waits on both again (`OvertakenWaits`).
`NothingDropped` is an account: for every object, the jobs ever put on a lane are those
on the lanes, in the hand of the loop, with workers, in the queue of results, and done.
It rests on how often an object is in a queue (`JobsAppend`, and `JobsTail`, by the
shift of the places of the rest), so that it holds for every capacity, number of workers
and object, where TLC has queues of one place.

**`Scheduler_proofs`.**  `WheelInv` adds to the agreement of ring and entries: an entry
stands in the slot of its due second, unless a full queue moved the second and left the entry
(`Placed`); while a visit is under way an entry may be due, but then it is still to do
(`InTime`); the last job of an object was planned before its entry (`Planned`).  The
arithmetic is in lemmas about remainders: `Grid`, what the initial placement yields, and
`FollowingGrid`, that catching up stays on the grid and ends after the wheel.  From it follow
`WheelConsistent`, `NextCheckOnTime` and, for the steps, `NoCheckTwice`.

**`Incidents_proofs`.**  `IncInv` says what each job in flight knows.  A copy of a row is of a
version the row had, and equal to the row if the version still is the same; a closed copy of
an open row is an old one, and writing it back is what `excused` records (`FaithfulTo`).
Whoever is about to close has seen all alerts but the spared ones (`Seen`); whoever has closed
still has to close the alerts that were in it (`Cleared`); somebody looks after an incident
whose last alert recovered (`LookedAfter`); a ticket
that is not missed is closed, in somebody's hand, or at its alert, which somebody looks at again
(`TicketsCared`).  From it follow `TicketsFollowTheirAlerts`, `ClosedIncidentsAreDone`,
`LastRecoveryCloses` and `PutChangesNoStatus`.

**`AgentChat_proofs`.**  `ChatInv`: every chunk on its way belongs to the turn it is sent for,
the map of streams names the handler that answers, and as long as the page left nothing behind
the turn in flight is the last one and the pending message and the stop button are its own.
At most one approver is between a decision and its result (`OneApprover`).  A turn with the work
of a tool leaves its rounds only towards the attempt to store it.  From it follow
`WorkIsKept`, `AnswersOneByOne` and `ApprovedOnce`.

**`Editing_proofs`.**  `EditInv`: whatever the tab holds (cache, dialog, the parts of a save)
was read once, is not ahead of its row, and two reads of one version agree (`NotAhead`,
`ReadsAgree`), but for the `recounted` documents; between look and write the new id is nobody
else's, not even of an unguarded write under way, and a changed version moves on (`Looked`,
`Pending`); as long as no other tab switches, everything
on the page is the customer's (`PageBelongs`).  From it follow `EtagsIdentify`,
`SavesToRightCustomer` and, for the steps, `OneReadSafe`.

**Only model-checked.**  Every safety property of a passing run has its theorem, but `FiresAsPlanned`
with a restriction: with a crash or a failed call `FiringsBounded` is only checked, by the run
`escalation_live` for its policy, because it is not true of every policy.  A step that is
fired again after a crash re-arms the next one, even if that was sent, and this one the step
after it, which counts its repeats from zero: TLC finds it with three steps of which the last
repeats once, and one crash.  And two nodes that fire one row both send.  Liveness (`TimerFires`, `ChainDiesOut`,
`Settles`, `Drains`, `Unlocks`, and `RetrySaves` and `EveryTurnEnds`, which fail) stays with TLC: ENABLED and
fairness are beyond the prover.

## Not modelled

* **The views of the web UI** (tables, widgets, pages, texts, generated types): markup and data
  that are refreshed by polling.  By lines they are most of the TypeScript: `types.gen.ts`,
  `i18n.ts` and `types.ts` alone are two fifths, and have no behaviour.  What the UI does over
  time is in `AgentChat` and `Editing`; the rest would be a translation of markup, so the
  share of mapped lines stays small although the core of the server is modelled.
* **Live stream.**  A client that reconnects is replayed at most 500 stored events and only
  then subscribed (`sse/sse.go:66-88`): an event in between reaches it neither way.  The
  embedded UI polls and does not use the stream.
* **Audit trail.**  The head of the hash chain is cached in each process
  (`storage/audit.go`), so two servers on one database fork the chain.
* **Report scheduler.**  A slot is looked up, rendered, archived and mailed without a claim
  (`api/reportsched.go`): two servers do it twice, a crash before the mail loses it.
* **Rules of the alerting engine**: the matching of events, `pendingFor` and heartbeats are
  free choices of `Escalation` and `Incidents`.
* **Flapping.**  `CheckState` computes the flag with its hysteresis; no property asks for more
  than the code's formula.
* Object model and templates, plugins, the time series encoding, ingress listeners, speech,
  federation, bundles and backups: pure data, byte formats, text or I/O, without concurrent
  state of their own.

## Plan

Done: the survey; `Escalation`, `Outbox` with `Delivery`, `Scheduler`, `CheckState`,
`Pipeline`, `CheckFlow`, `Incidents`, `AgentChat`, `Editing` with `Forms`; the inductive
proofs of all of them, and the refinement of `Delivery`.

To be proved next: a bound on the firings that also holds with crashes, for every policy; that
the dialog which sends the read it shows as its If-Match loses no change (`Editing`).

To be modelled next: the rules of the alerting engine with `pendingFor` and heartbeats, and an
abstract specification of an object's history that `Pipeline` implements.
