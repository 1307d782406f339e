------------------------------- MODULE Pipeline -------------------------------
(***************************************************************************)
(* The result pipeline (internal/pipeline): one goroutine applies results  *)
(* to a working set of check states, collects events, and writes both back *)
(* in batches.  The API deletes objects and mirrors acknowledgements onto  *)
(* the rows while it runs; writes fail; the process stops and crashes.     *)
(*                                                                         *)
(* Left out: the time series, check-now of dependent hosts and retries     *)
(* (they only cause further results, which arrive freely here), and the    *)
(* publication of events on the bus.                                       *)
(***************************************************************************)
EXTENDS CheckState

CONSTANTS
    Objects,
    Hosts,              \* the objects that are hosts, the others are services
    Parents,            \* the parent hosts of an object
    FlapDetection,      \* the objects with flap detection
    Months,             \* the months that timestamps fall into
    Inputs,             \* the results that arrive for an object: [source, state, month]
    NoState,            \* no entry in the working set, no row in the table
    MaxResults,         \* bound on the results that arrive
    MaxTroubles         \* bound on failed writes, restarts, deletions and acknowledgements

Results == [source : {"scheduler", "passive", "freshness"}, state : States, month : Months]

ASSUME ObjectsAssumption ==
    /\ Hosts \subseteq Objects
    /\ Parents \in [Objects -> SUBSET Hosts]
    /\ Inputs \in [Objects -> SUBSET Results]
    /\ NoState \notin CheckStates
    /\ {MaxResults, MaxTroubles} \subseteq Nat

VARIABLES
    stage,      \* where the deletion of an object stands
    row,        \* the table check_state
    states,     \* the working set
    dirty,      \* the objects whose state is not written back
    pending,    \* results came in since the last flush
    events,     \* eventsPending
    stored,     \* the events in the monthly segments
    emitted,    \* history: the events that are stored or were emitted since the start
    run,        \* history: the problem results in a row of each object, as they arrived
    told,       \* history: the hard state that was reported last
    unsure,     \* history: objects whose state was guessed or lost since they recovered
    pipe,       \* the goroutine of the pipeline
    results, troubles   \* counters

observed == <<run, told, unsure>>
vars == <<stage, row, states, dirty, pending, events, stored, emitted, observed, pipe, results, troubles>>

Stages == {"live", "api_row", "api_catalog", "bundle_forget", "bundle_row", "gone"}
Exists(o) == stage[o] \in {"live", "bundle_forget"}
Listed(o) == stage[o] \in {"live", "api_row", "bundle_forget", "bundle_row"}

Events == [result : 1..MaxResults, kind : {"state_change", "flapping"}, month : Months]
Entry == CheckStates \cup {NoState}

Idle == [pc |-> "idle"]
Stopped == [pc |-> "stopped"]
Pipes ==
    {Idle, Stopped}
    \cup [pc : {"process"}, object : Objects, input : Results]
    \cup [pc : {"clearAck"}, object : Objects]
    \cup [pc : {"states", "events"}, states : [Objects -> Entry],
          events : SUBSET Events, months : SUBSET Months, quit : BOOLEAN]

Init ==
    /\ stage = [o \in Objects |-> "live"]
    /\ row = [o \in Objects |-> NoState]
    /\ states = [o \in Objects |-> NoState]
    /\ dirty = {} /\ pending = FALSE
    /\ events = {} /\ stored = {} /\ emitted = {}
    /\ run = [o \in Objects |-> 0] /\ told = [o \in Objects |-> OK] /\ unsure = {}
    /\ pipe = Idle
    /\ results = 0 /\ troubles = 0

Trouble == troubles < MaxTroubles /\ troubles' = troubles + 1

-----------------------------------------------------------------------------
(* Results *)

(* process looks the object up in the catalog; a result of an object that
   is not listed is dropped. *)
Receive(o, in) ==
    /\ pipe = Idle
    /\ results < MaxResults /\ results' = results + 1
    /\ pending' = TRUE
    /\ pipe' = IF Listed(o) THEN [pc |-> "process", object |-> o, input |-> in]
                            ELSE Idle
    /\ UNCHANGED <<stage, row, states, dirty, events, stored, emitted, observed, troubles>>

(* The working set with the given objects in it: what is not there yet is
   loaded, an object without a row (or a failed read) starts as unknown. *)
Guessed(os, failed) == {o \in os : states[o] = NoState /\ (row[o] = NoState \/ o \in failed)}

Loads(os, failed) ==
    [o \in Objects |->
        IF o \notin os \/ states[o] # NoState THEN states[o]
        ELSE IF o \in Guessed(os, failed) THEN Unchecked
        ELSE row[o]]

(* The links of a host to its parents end with the entry of the parent. *)
Above(o) == {p \in Parents[o] : Listed(p)}

AllParentsDown(o, loaded) ==
    /\ Above(o) # {}
    /\ \A p \in Above(o) : loaded[p].state # OK /\ loaded[p].type = "hard"

(* A host is up on OK and WARNING; a host that is down behind parents that
   are all down is unreachable. *)
InState(o, in, loaded) ==
    IF o \notin Hosts THEN in
    ELSE IF in < CRITICAL THEN OK
    ELSE IF AllParentsDown(o, loaded) THEN HostUnreachable
    ELSE HostDown

(* The goroutine applies the result, marks the object dirty and appends the
   events; nobody else looks at the events before its next flush.  The code
   loads the parents of a host that is down one by one and stops at the first
   that is not down; all of them are loaded here. *)
Process(failed) ==
    /\ pipe.pc = "process"
    /\ LET o == pipe.object
           passive == pipe.input.source = "passive"
           os == {o} \cup Above(o)
           loaded == Loads(os, failed)
           cs == loaded[o]
           in == InState(o, pipe.input.state, loaded)
           new == Apply(cs, in, passive, o \in FlapDetection)
           kinds == {k \in {"state_change", "flapping"} :
                        IF k = "flapping" THEN new.flapping # cs.flapping
                        ELSE in # cs.state \/ HardChange(cs, in, Attempts(passive))}
           emit == {[result |-> results, kind |-> k, month |-> pipe.input.month] : k \in kinds}
       IN /\ states' = [loaded EXCEPT ![o] = new]
          /\ dirty' = dirty \cup {o}
          /\ events' = events \cup emit
          /\ emitted' = emitted \cup emit
          /\ run' = [run EXCEPT ![o] = RunAfter(@, in, passive)]
          /\ told' = [told EXCEPT ![o] = IF HardChange(cs, in, Attempts(passive)) THEN in ELSE @]
          /\ unsure' = IF Recovered(cs, in) THEN (unsure \cup Guessed(os, failed)) \ {o}
                       ELSE unsure \cup Guessed(os, failed)
          /\ pipe' = IF Recovered(cs, in) THEN [pc |-> "clearAck", object |-> o] ELSE Idle
    /\ IF failed = {} THEN UNCHANGED troubles ELSE Trouble
    /\ UNCHANGED <<stage, row, pending, stored, results>>

(* A freshness probe finds the last result young enough. *)
FreshEnough ==
    /\ pipe.pc = "process" /\ pipe.input.source = "freshness"
    /\ LET loaded == Loads({pipe.object}, {}) IN
       /\ loaded[pipe.object].checked
       /\ states' = loaded
    /\ pipe' = Idle
    /\ UNCHANGED <<stage, row, dirty, pending, events, stored, emitted, observed, troubles, results>>

(* After a hard recovery the acknowledgement is cleared in the table; an
   error is logged and forgotten. *)
ClearAck ==
    /\ pipe.pc = "clearAck"
    /\ pipe' = Idle
    /\ \/ /\ row' = IF row[pipe.object] = NoState THEN row
                    ELSE [row EXCEPT ![pipe.object].acked = FALSE]
          /\ UNCHANGED troubles
       \/ UNCHANGED row /\ Trouble
    /\ UNCHANGED <<stage, states, dirty, pending, events, stored, emitted, observed, results>>

-----------------------------------------------------------------------------
(* The flush *)

Rest(quit) == IF quit THEN Stopped ELSE Idle

(* The flush takes what is dirty and the pending events; it runs after a
   batch of results, on the ticker, and once more when the process stops. *)
BeginFlush(quit) ==
    /\ pipe = Idle
    /\ IF quit THEN Trouble ELSE (pending \/ dirty # {}) /\ UNCHANGED troubles
    /\ LET batch == [o \in Objects |-> IF o \in dirty THEN states[o] ELSE NoState]
           flush(pc) == [pc |-> pc, states |-> batch, events |-> events,
                         months |-> {e.month : e \in events}, quit |-> quit]
       IN pipe' = IF \E o \in Objects : batch[o] # NoState THEN flush("states")
                  ELSE IF events # {} THEN flush("events")
                  ELSE Rest(quit)
    /\ dirty' = {} /\ events' = {} /\ pending' = FALSE
    /\ UNCHANGED <<stage, row, states, stored, emitted, observed, results>>

InBatch == {o \in Objects : pipe.states[o] # NoState}

\* mutant: the cached acknowledgement is written too
MergedAck(o) == pipe.states[o]
Merged(o) == IF row[o] = NoState THEN pipe.states[o]
             ELSE [pipe.states[o] EXCEPT !.acked = row[o].acked]

\* mutant: a failed batch is given up
NotRedirtied == dirty
Redirtied == dirty \cup InBatch

(* One transaction writes all states, but not the acknowledgements of rows
   that are there.  A row of an object that does not exist breaks the foreign
   key and with it the transaction; a failed batch is dirty again. *)
SaveStates ==
    /\ pipe.pc = "states"
    /\ \/ /\ \A o \in InBatch : Exists(o)
          /\ row' = [o \in Objects |-> IF o \in InBatch THEN Merged(o) ELSE row[o]]
          /\ UNCHANGED <<dirty, troubles>>
       \/ /\ IF \A o \in InBatch : Exists(o) THEN Trouble ELSE UNCHANGED troubles
          /\ dirty' = Redirtied
          /\ UNCHANGED row
    /\ pipe' = IF pipe.events = {} THEN Rest(pipe.quit) ELSE [pipe EXCEPT !.pc = "events"]
    /\ UNCHANGED <<stage, states, pending, events, stored, emitted, observed, results>>

\* mutant: only the month that failed
RequeuedPart(part) == events \cup part
Requeued(part) == events \cup pipe.events

(* Each month has a segment and a transaction of its own, in any order.  An
   event that is stored already breaks the primary key.  A failure requeues
   the whole batch, the months that were written included. *)
WriteMonth(m) ==
    /\ pipe.pc = "events" /\ m \in pipe.months
    /\ LET part == {e \in pipe.events : e.month = m} IN
       \/ /\ part \cap stored = {}
          /\ stored' = stored \cup part
          /\ pipe' = IF pipe.months = {m} THEN Rest(pipe.quit)
                     ELSE [pipe EXCEPT !.months = @ \ {m}]
          /\ UNCHANGED <<events, troubles>>
       \/ /\ IF part \cap stored = {} THEN Trouble ELSE UNCHANGED troubles
          /\ events' = Requeued(part)
          /\ pipe' = Rest(pipe.quit)
          /\ UNCHANGED stored
    /\ UNCHANGED <<stage, row, states, dirty, pending, emitted, observed, results>>

-----------------------------------------------------------------------------
(* The API, and the end of the process *)

MoveOn(o, from, to) == stage[o] = from /\ stage' = [stage EXCEPT ![o] = to]

DropRow(o) == row' = [row EXCEPT ![o] = NoState]

SameResult(a, b) == b # NoState /\ a = [b EXCEPT !.acked = a.acked]
Unsaved(o) == states[o] # NoState /\ ~SameResult(states[o], row[o])

(* Forget drops an object from the working set. *)
Forget(o) ==
    /\ states' = [states EXCEPT ![o] = NoState]
    /\ dirty' = dirty \ {o}
    /\ unsure' = IF Unsaved(o) THEN unsure \cup {o} ELSE unsure
    /\ UNCHANGED <<run, told>>

(* A request deletes the object with its row, then its catalog entry, then
   its place in the working set. *)
ApiDelete(o) ==
    /\ Trouble
    /\ MoveOn(o, "live", "api_row")
    /\ DropRow(o)
    /\ UNCHANGED <<states, dirty, pending, events, stored, emitted, observed, pipe, results>>

ApiUnlist(o) ==
    /\ MoveOn(o, "api_row", "api_catalog")
    /\ UNCHANGED <<row, states, dirty, pending, events, stored, emitted, observed, pipe, troubles, results>>

ApiForget(o) ==
    /\ MoveOn(o, "api_catalog", "gone")
    /\ Forget(o)
    /\ UNCHANGED <<row, pending, events, stored, emitted, pipe, troubles, results>>

(* A bundle forgets the object first, and the catalog is reloaded once the
   bundle is applied. *)
BundleForget(o) ==
    /\ Trouble
    /\ MoveOn(o, "live", "bundle_forget")
    /\ Forget(o)
    /\ UNCHANGED <<row, pending, events, stored, emitted, pipe, results>>

BundleDelete(o) ==
    /\ \/ MoveOn(o, "bundle_forget", "bundle_row") /\ DropRow(o) /\ UNCHANGED troubles
       \/ MoveOn(o, "bundle_forget", "live") /\ Trouble /\ UNCHANGED row
    /\ UNCHANGED <<states, dirty, pending, events, stored, emitted, observed, pipe, results>>

BundleReload(o) ==
    /\ MoveOn(o, "bundle_row", "gone")
    /\ UNCHANGED <<row, states, dirty, pending, events, stored, emitted, observed, pipe, troubles, results>>

(* The acknowledgement of an alert is mirrored onto the row of its object. *)
SetAck(o) ==
    /\ row[o] # NoState
    /\ Trouble
    /\ row' = [row EXCEPT ![o].acked = TRUE]
    /\ UNCHANGED <<stage, states, dirty, pending, events, stored, emitted, observed, pipe, results>>

(* The process ends, in a crash or after its last flush, and starts again:
   the catalog is what the table of objects says, the rest starts empty. *)
Restart ==
    /\ IF pipe = Stopped THEN UNCHANGED troubles ELSE Trouble
    /\ stage' = [o \in Objects |-> IF Exists(o) THEN "live" ELSE "gone"]
    /\ states' = [o \in Objects |-> NoState]
    /\ dirty' = {} /\ pending' = FALSE /\ events' = {}
    /\ emitted' = stored
    /\ unsure' = unsure \cup {o \in Objects : Unsaved(o)}
    /\ pipe' = Idle
    /\ UNCHANGED <<row, stored, run, told, results>>

-----------------------------------------------------------------------------
Run ==
    \/ Process({}) \/ FreshEnough \/ ClearAck
    \/ BeginFlush(FALSE) \/ SaveStates
    \/ \E m \in Months : WriteMonth(m)

Api(o) ==
    \/ ApiDelete(o) \/ ApiUnlist(o) \/ ApiForget(o)
    \/ BundleForget(o) \/ BundleDelete(o) \/ BundleReload(o)
    \/ SetAck(o)

Next ==
    \/ \E o \in Objects : \E in \in Inputs[o] : Receive(o, in)
    \/ Run
    \/ \E failed \in SUBSET Objects \ {{}} : Process(failed)
    \/ BeginFlush(TRUE)
    \/ \E o \in Objects : Api(o)
    \/ Restart

Spec == Init /\ [][Next]_vars

(* The goroutine of the pipeline runs (it is supervised), and a process that
   stopped is started again.  Requests may stall. *)
FairSpec ==
    /\ Spec
    /\ WF_vars(Run)
    /\ WF_vars(pipe = Stopped /\ Restart)

-----------------------------------------------------------------------------
(* Properties *)

TypeOK ==
    /\ stage \in [Objects -> Stages]
    /\ row \in [Objects -> Entry]
    /\ states \in [Objects -> Entry]
    /\ dirty \subseteq Objects
    /\ pending \in BOOLEAN
    /\ events \subseteq Events /\ stored \subseteq Events /\ emitted \subseteq Events
    /\ run \in [Objects -> 0..MaxCheckAttempts]
    /\ told \in [Objects -> States]
    /\ unsure \subseteq Objects
    /\ pipe \in Pipes
    /\ results \in Nat /\ troubles \in Nat

(* Soft and hard states follow the results that arrived in a row, whatever mix
   of active and passive results it is and however often the state goes through
   the table (statemachine.Apply).  Two things make an object unsure, until it
   recovers: it had no row or its row could not be read, so that its state was
   guessed; or results were lost with a process or a Forget before a flush. *)
Sure(o) == o \notin unsure /\ states[o] # NoState

HardWhenCounted == \A o \in Objects : Sure(o) => Counted(states[o], run[o])

(* The hard changes reported are the changes of the hard state: none twice in a
   row, none left out, with the same exception (Apply's HardChange, on which
   process emits). *)
HardChangesTold == \A o \in Objects : Sure(o) => Told(states[o], told[o])

(* The first without the exception, as checks-and-states.md has it: "a problem is
   soft until it has been confirmed maxCheckAttempts times". *)
HardIsConfirmed ==
    \A o \in Objects :
        /\ states[o] # NoState /\ states[o].checked
        /\ states[o].type = "hard" /\ states[o].state # OK
        => run[o] = MaxCheckAttempts

(* No change of the working set is forgotten: it is marked dirty, on its way
   to the table, or in the table (flush: "we must NOT lose the markers"). *)
NothingForgotten ==
    \A o \in Objects :
        states[o] # NoState /\ Exists(o) /\ o \notin dirty
        => \/ ~states[o].checked
           \/ SameResult(states[o], row[o])
           \/ pipe.pc = "states" /\ pipe.states[o] = states[o]

(* No event is dropped while the process lives, although the write of a
   batch may fail half-way (flush, InsertEvents). *)
EventsKept ==
    emitted \subseteq stored \cup events \cup (IF pipe.pc \in {"states", "events"} THEN pipe.events ELSE {})

(* The pipeline's copy of a row never overwrites an acknowledgement; it goes
   only when the object is up again (SaveCheckStates, ClearAck). *)
AckSticky ==
    [][\A o \in Objects :
         row[o] # NoState /\ row'[o] # NoState /\ row[o].acked /\ ~row'[o].acked
         => states[o] = NoState \/ states[o].state = OK]_vars

SavedOrGone(o) == states[o] = NoState \/ SameResult(states[o], row[o]) \/ ~Exists(o)

(* The retry of a failed flush saves the change: a dirty state gets to the
   table in the end, as long as its object exists (the comment in flush). *)
RetrySaves == \A o \in Objects : o \in dirty ~> SavedOrGone(o)
=============================================================================
