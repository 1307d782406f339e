------------------------------ MODULE CheckFlow ------------------------------
(***************************************************************************)
(* The round trip of a check: the lanes of the scheduler, the executor and  *)
(* the queue of results, and the check-now requests that the pipeline sends *)
(* back to the scheduler (scheduler.go: CheckNow; executor.go; pipeline.go: *)
(* process; eventbus.go).                                                   *)
(*                                                                          *)
(* All queues are bounded channels.  The wheel never blocks, everybody else *)
(* does: the executor's loop on a slot of its pools, its workers on the     *)
(* queue of results, and whoever asks for a check on the lanes.             *)
(*                                                                          *)
(* What a check finds is a free choice: nothing to do, a soft problem that  *)
(* is checked again after the retry interval, or a hard change of a host    *)
(* whose dependent hosts are checked at once.                               *)
(***************************************************************************)
EXTENDS Integers, FiniteSets, Sequences, SequencesExt, FiniteSetsExt

CONSTANTS Objects,
          Children,    \* the hosts that have the object as a parent
          Pools,       \* the pools of workers: for plugins and for built-in checks
          PoolOf,      \* the pool of an object, NoPool for a freshness probe
          NoPool,
          PoolSize,    \* ExecPoolSize, BuiltinPoolSize
          PriorityCap, OutCap, ResultsCap,  \* 256, 4096, 8192
          MaxJobs,     \* bound on jobs of the wheel and of users
          MaxFindings  \* bound on soft problems, hard changes and deletions

ASSUME CheckFlowAssumption ==
    /\ Children \in [Objects -> SUBSET Objects]
    /\ NoPool \notin Pools
    /\ PoolOf \in [Objects -> Pools \cup {NoPool}]
    /\ PoolSize \in [Pools -> Nat \ {0}]
    /\ {PriorityCap, OutCap, ResultsCap} \subseteq Nat \ {0}
    /\ {MaxJobs, MaxFindings} \subseteq Nat

VARIABLES
    priority,    \* the lane of check-now
    out,         \* the lane of the wheel
    asking,      \* goroutines that wait for room in out, by object
    dispatcher,  \* the loop of the executor
    running,     \* checks that are running or wait for room in results, by object
    results,     \* the queue to the pipeline
    pipeline,    \* the goroutine of the pipeline
    retries,     \* retry timers, by object
    gone,        \* objects that are no longer in the catalog
    accepted,    \* history: jobs put on a lane, by object
    done,        \* history: jobs whose result was processed, or that were skipped
    overtaken,   \* history: jobs taken from out since one waits in priority
    jobs, findings  \* counters

lanes == <<priority, out, asking>>
history == <<accepted, done, overtaken>>
vars == <<lanes, dispatcher, running, results, pipeline, retries, gone, history, jobs, findings>>

Job == [object : Objects, priority : BOOLEAN]
Result == [object : Objects, source : {"scheduler", "freshness"}]

Idle == [pc |-> "idle"]
Take == [pc |-> "take"]
Wait == [pc |-> "wait"]

TypeOK ==
    /\ priority \in Seq(Job) /\ Len(priority) <= PriorityCap
    /\ out \in Seq(Job) /\ Len(out) <= OutCap
    /\ results \in Seq(Result) /\ Len(results) <= ResultsCap
    /\ dispatcher \in {Take, Wait} \cup [pc : {"job"}, job : Job]
    /\ pipeline \in {Idle} \cup [pc : {"cascade"}, of : Objects, todo : SUBSET Objects]
                           \cup [pc : {"push"}, object : Objects, of : Objects, todo : SUBSET Objects]
    /\ asking \in [Objects -> Nat] /\ running \in [Objects -> Nat] /\ retries \in [Objects -> Nat]
    /\ accepted \in [Objects -> Nat] /\ done \in [Objects -> Nat]
    /\ gone \subseteq Objects
    /\ overtaken \in Nat /\ jobs \in Nat /\ findings \in Nat

Init ==
    /\ priority = <<>> /\ out = <<>> /\ results = <<>>
    /\ dispatcher = Take /\ pipeline = Idle
    /\ asking = [o \in Objects |-> 0] /\ running = asking /\ retries = asking
    /\ accepted = asking /\ done = asking
    /\ gone = {}
    /\ overtaken = 0 /\ jobs = 0 /\ findings = 0

Count(f, o) == f' = [f EXCEPT ![o] = @ + 1]
NewJob == jobs < MaxJobs /\ jobs' = jobs + 1
Finding == findings < MaxFindings /\ findings' = findings + 1
-----------------------------------------------------------------------------
(* The lanes *)

(* Mutant: an off-by-one in the size of the lane. *)
PriorityRoomAndOne == Len(priority) <= PriorityCap
HasPriorityRoom == Len(priority) < PriorityCap

Planned(o) == [object |-> o, priority |-> FALSE]
Asked(o) == [object |-> o, priority |-> TRUE]

OnPriority(job) ==
    /\ priority' = Append(priority, job)
    /\ Count(accepted, job.object)

OnOut(job) ==
    /\ Len(out) < OutCap
    /\ out' = Append(out, job)
    /\ Count(accepted, job.object)

(* The wheel; an entry that meets a full lane is postponed.  A deleted object
   leaves the catalog before it leaves the wheel, and a user's request may
   have found it before: neither asks the catalog. *)
Due(o) ==
    /\ NewJob
    /\ OnOut(Planned(o))
    /\ UNCHANGED <<priority, asking, dispatcher, running, results, pipeline, retries, gone,
                   done, overtaken, findings>>

(* CheckNow in a goroutine of its own: without room in the priority lane it
   waits for room in the other one, and no longer looks at the first. *)
CheckNow(o) ==
    /\ IF HasPriorityRoom THEN OnPriority(Asked(o)) /\ UNCHANGED asking
                          ELSE Count(asking, o) /\ UNCHANGED <<priority, accepted>>
    /\ UNCHANGED <<out, dispatcher, running, results, pipeline, gone, done, overtaken, findings>>

UserAsks(o) == NewJob /\ CheckNow(o) /\ UNCHANGED retries

RetryFires(o) ==
    /\ retries[o] > 0
    /\ retries' = [retries EXCEPT ![o] = @ - 1]
    /\ CheckNow(o)
    /\ UNCHANGED jobs

GetsRoom(o) ==
    /\ asking[o] > 0
    /\ asking' = [asking EXCEPT ![o] = @ - 1]
    /\ OnOut(Asked(o))
    /\ UNCHANGED <<priority, dispatcher, running, results, pipeline, retries, gone,
                   done, overtaken, jobs, findings>>
-----------------------------------------------------------------------------
(* The executor *)

(* The priority lane is looked at first; if it is empty the loop waits for
   either lane, and takes from either if both have a job by then. *)
LookFirst ==
    /\ dispatcher = Take /\ priority = <<>>
    /\ dispatcher' = Wait
    /\ UNCHANGED <<lanes, running, results, pipeline, retries, gone, history, jobs, findings>>

(* A job of an object that is gone, and a job of the wheel outside the check
   period, is skipped. *)
Accept(job) ==
    \/ /\ job.object \notin gone
       /\ dispatcher' = [pc |-> "job", job |-> job]
       /\ UNCHANGED done
    \/ /\ job.object \in gone \/ ~job.priority
       /\ dispatcher' = Take
       /\ Count(done, job.object)

(* Mutant: the select that waits leaves the priority lane out. *)
OnlyPolls(pc) == pc = "take"
TakesPriority(pc) == pc \in {"take", "wait"}

TakePriority ==
    /\ TakesPriority(dispatcher.pc) /\ priority # <<>>
    /\ priority' = Tail(priority)
    /\ Accept(Head(priority))
    /\ overtaken' = 0
    /\ UNCHANGED <<out, asking, running, results, pipeline, retries, gone, accepted, jobs, findings>>

(* Mutant: one select over both lanes. *)
MayTakeOut(pc) == pc \in {"take", "wait"}
TakesOut(pc) == pc = "wait"

TakeOut ==
    /\ TakesOut(dispatcher.pc) /\ out # <<>>
    /\ out' = Tail(out)
    /\ Accept(Head(out))
    /\ overtaken' = IF priority = <<>> THEN 0 ELSE overtaken + 1
    /\ UNCHANGED <<priority, asking, running, results, pipeline, retries, gone, accepted, jobs, findings>>

Busy(p) == MapThenSumSet(LAMBDA o : running[o], {o \in Objects : PoolOf[o] = p})
HasSlot(o) == Busy(PoolOf[o]) < PoolSize[PoolOf[o]]

(* Mutant: without a slot the job is dropped. *)
DispatchOrDrop ==
    /\ dispatcher.pc = "job"
    /\ LET o == dispatcher.job.object IN
       /\ PoolOf[o] # NoPool
       /\ IF HasSlot(o) THEN Count(running, o) ELSE UNCHANGED running
    /\ dispatcher' = Take
    /\ UNCHANGED <<lanes, results, pipeline, retries, gone, history, jobs, findings>>

(* The loop waits for a slot of the pool, and starts a worker. *)
Dispatch ==
    /\ dispatcher.pc = "job"
    /\ LET o == dispatcher.job.object IN
       /\ PoolOf[o] # NoPool
       /\ HasSlot(o)
       /\ Count(running, o)
    /\ dispatcher' = Take
    /\ UNCHANGED <<lanes, results, pipeline, retries, gone, history, jobs, findings>>

Emit(o, source) ==
    /\ Len(results) < ResultsCap
    /\ results' = Append(results, [object |-> o, source |-> source])

(* The loop itself sends the result of a freshness probe. *)
Probe ==
    /\ dispatcher.pc = "job"
    /\ PoolOf[dispatcher.job.object] = NoPool
    /\ Emit(dispatcher.job.object, "freshness")
    /\ dispatcher' = Take
    /\ UNCHANGED <<lanes, running, pipeline, retries, gone, history, jobs, findings>>

(* A check ends, by itself, by its time-out or in a panic, and its worker
   sends the result before it frees the slot. *)
Finish(o) ==
    /\ running[o] > 0
    /\ Emit(o, "scheduler")
    /\ running' = [running EXCEPT ![o] = @ - 1]
    /\ UNCHANGED <<lanes, dispatcher, pipeline, retries, gone, history, jobs, findings>>
-----------------------------------------------------------------------------
(* The pipeline *)

Dependents(o) == IF o \in gone THEN {} ELSE Children[o] \ gone

Cascade(of, todo) == IF todo = {} THEN Idle ELSE [pc |-> "cascade", of |-> of, todo |-> todo]

Process ==
    /\ pipeline = Idle /\ results # <<>>
    /\ results' = Tail(results)
    /\ LET res == Head(results) IN
       /\ Count(done, res.object)
       /\ \/ UNCHANGED <<pipeline, retries, findings>>
          \/ /\ res.object \notin gone /\ res.source = "scheduler"
             /\ Finding
             /\ Count(retries, res.object)
             /\ UNCHANGED pipeline
          \/ /\ res.object \notin gone
             /\ Finding
             /\ pipeline' = Cascade(res.object, Dependents(res.object))
             /\ UNCHANGED retries
    /\ UNCHANGED <<lanes, dispatcher, running, gone, accepted, overtaken, jobs>>

(* CheckNow in the goroutine of the pipeline, for each host that still is a
   dependent one when its turn comes. *)
CheckChild(o) ==
    /\ pipeline.pc = "cascade" /\ o \in pipeline.todo
    /\ LET rest == pipeline.todo \ {o} IN
       IF o \notin Dependents(pipeline.of)
         THEN pipeline' = Cascade(pipeline.of, rest) /\ UNCHANGED <<priority, accepted>>
       ELSE IF HasPriorityRoom
         THEN OnPriority(Asked(o)) /\ pipeline' = Cascade(pipeline.of, rest)
         ELSE /\ pipeline' = [pc |-> "push", object |-> o, of |-> pipeline.of, todo |-> rest]
              /\ UNCHANGED <<priority, accepted>>
    /\ UNCHANGED <<out, asking, dispatcher, running, results, retries, gone, done, overtaken, jobs, findings>>

PushChild ==
    /\ pipeline.pc = "push"
    /\ OnOut(Asked(pipeline.object))
    /\ pipeline' = Cascade(pipeline.of, pipeline.todo)
    /\ UNCHANGED <<priority, asking, dispatcher, running, results, retries, gone, done, overtaken, jobs, findings>>

(* An object is deleted; its jobs and results are still on their way. *)
RemoveObject(o) ==
    /\ o \notin gone
    /\ Finding
    /\ gone' = gone \cup {o}
    /\ UNCHANGED <<lanes, dispatcher, running, results, pipeline, retries, history, jobs>>
-----------------------------------------------------------------------------
Loop == LookFirst \/ TakePriority \/ TakeOut \/ Dispatch \/ Probe
Pipeline == Process \/ (\E o \in Objects : CheckChild(o)) \/ PushChild

Next ==
    \/ Loop
    \/ Pipeline
    \/ \E o \in Objects :
          \/ Due(o) \/ UserAsks(o) \/ RemoveObject(o)
          \/ RetryFires(o) \/ GetsRoom(o) \/ Finish(o)

(* Goroutines that can go on do, and every check ends (its context has a
   time-out). *)
Spec ==
    /\ Init /\ [][Next]_vars
    /\ WF_vars(Loop) /\ WF_vars(Pipeline)
    /\ \A o \in Objects : WF_vars(RetryFires(o)) /\ WF_vars(GetsRoom(o)) /\ WF_vars(Finish(o))
-----------------------------------------------------------------------------
(* A check-now that waits in its lane is overtaken by one job of the wheel at
   most (executor Run: "Priority jobs are drained first"). *)
PriorityFirst == overtaken <= 1

(* No job gets lost between the lanes and the pipeline, whatever is full or
   deleted (eventbus: "check processing is never dropped"). *)
Jobs(queue, o) == Cardinality({i \in DOMAIN queue : queue[i].object = o})

Held(o) == IF dispatcher.pc = "job" /\ dispatcher.job.object = o THEN 1 ELSE 0

Accounted(o) ==
    accepted[o] = Jobs(priority, o) + Jobs(out, o) + Held(o) + running[o] + Jobs(results, o) + done[o]

NeverDropped == \A o \in Objects : Accounted(o)

(* The circle in which everybody waits for the next one: the pipeline for
   room in the lane, the executor's loop for a worker or for room in the
   results, the workers for room in the results, which only the pipeline
   empties. *)
Circle ==
    /\ pipeline.pc = "push" /\ Len(out) = OutCap
    /\ dispatcher.pc = "job"
    /\ Len(results) = ResultsCap
    /\ LET o == dispatcher.job.object IN PoolOf[o] = NoPool \/ ~HasSlot(o)

Quiet ==
    /\ out = <<>> /\ priority = <<>> /\ results = <<>>
    /\ dispatcher.pc # "job" /\ pipeline = Idle
    /\ \A o \in Objects : asking[o] = 0 /\ running[o] = 0 /\ retries[o] = 0

(* Once nothing new is asked for, everything that was is answered, unless the
   circle closes: nothing else stops the round trip, however full the queues
   are (CheckNow: "blocking is fine here"). *)
Drains == []<>(Quiet \/ Circle)
=============================================================================
