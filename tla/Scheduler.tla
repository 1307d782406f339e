------------------------------ MODULE Scheduler ------------------------------
(***************************************************************************)
(* The timing wheel of active checks (scheduler/scheduler.go).              *)
(*                                                                          *)
(* An entry of the wheel is an object with the second it is due.  It stands *)
(* in the slot of that second, modulo the size of the ring.  The goroutine  *)
(* of the wheel visits every slot that the wall clock has passed, sends the *)
(* jobs of the entries that are due to the executor without ever blocking,  *)
(* and moves each entry on to its next slot.  It holds the lock of the      *)
(* wheel from the first slot of a visit to the last, while the executor     *)
(* takes jobs from the queue at any time.                                   *)
(*                                                                          *)
(* The clock counts whole seconds, and is read strictly between two of      *)
(* them: a due time, a whole second, never equals the time of a call.       *)
(***************************************************************************)
EXTENDS Integers, FiniteSets, Sequences

CONSTANTS Objects,
          Slots,       \* wheelSlots: 86400, also the longest interval
          OutCap,      \* capacity of the queue to the executor: 4096
          Intervals,   \* intervals an object may be given
          Splay,       \* hash of an object
          MaxTime,     \* bound on the clock
          BootBy,      \* bound: the wheel is started by then
          MaxChanges   \* bound on changes of the catalog once it is started

ASSUME SchedulerAssumption ==
    /\ {Slots, OutCap} \subseteq Nat \ {0}
    /\ Intervals \subseteq 1..Slots
    /\ Splay \in [Objects -> Nat]
    /\ {MaxTime, BootBy, MaxChanges} \subseteq Nat
    /\ BootBy < Slots

VARIABLES
    now,        \* the wall clock
    entries,    \* the scheduled objects: interval, due second, slot
    wheel,      \* the objects that stand in each slot
    pc,         \* the goroutine: not started, between two visits, or in a slot
    curTime,    \* wheel time: the last second visited
    target,     \* the wall clock as read at the beginning of the visit
    todo,       \* entries of the current slot not looked at yet
    out,        \* the queue to the executor
    last,       \* history: planned time of the last job of an object
    missed,     \* history: entries that were due before the wheel started
    postponed,  \* history: entries that met a full queue
    changes     \* counter

goroutine == <<pc, curTime, target, todo>>
vars == <<now, entries, wheel, goroutine, out, last, missed, postponed, changes>>
-----------------------------------------------------------------------------
NoTime == -1
Unscheduled == [interval |-> 0, due |-> NoTime, slot |-> 0]
Scheduled == {o \in Objects : entries[o].interval > 0}
Ring == 0..(Slots - 1)

TypeOK ==
    /\ now \in Nat
    /\ entries \in [Objects -> [interval : Intervals \cup {0}, due : Nat \cup {NoTime}, slot : Ring]]
    /\ wheel \in [Ring -> SUBSET Objects]
    /\ pc \in {"down", "idle", "slot"}
    /\ curTime \in Nat /\ target \in Nat /\ curTime <= now
    /\ todo \subseteq wheel[curTime % Slots]
    /\ out \in Seq([object : Objects, planned : Nat]) /\ Len(out) <= OutCap
    /\ last \in [Objects -> Nat \cup {NoTime}]
    /\ missed \subseteq Objects /\ postponed \subseteq Objects
    /\ changes \in Nat

Init ==
    /\ now = 0
    /\ entries = [o \in Objects |-> Unscheduled]
    /\ wheel = [k \in Ring |-> {}]
    /\ pc = "down" /\ curTime = 0 /\ target = 0 /\ todo = {}
    /\ out = <<>>
    /\ last = [o \in Objects |-> NoTime]
    /\ missed = {} /\ postponed = {}
    /\ changes = 0
-----------------------------------------------------------------------------
(* The next second of the object's grid after the clock. *)
NextGrid(o, i) == now + 1 + ((Splay[o] - (now + 1)) % i)

Entry(i, due) == [interval |-> i, due |-> due, slot |-> due % Slots]

(* removeLocked, insertLocked: the entry leaves the slot it names. *)
Without(o) == [wheel EXCEPT ![entries[o].slot] = @ \ {o}]

(* A change of the catalog, and the boot, which schedules every object before
   the wheel is started. *)
Changes ==
    \/ pc = "down" /\ UNCHANGED changes
    \/ pc = "idle" /\ changes < MaxChanges /\ changes' = changes + 1

(* Mutant: the old entry stays in its slot. *)
UpsertLeavesOld(o, i) ==
    LET en == Entry(i, NextGrid(o, i)) IN
    /\ Changes
    /\ entries' = [entries EXCEPT ![o] = en]
    /\ wheel' = [wheel EXCEPT ![en.slot] = @ \cup {o}]
    /\ missed' = missed \ {o} /\ postponed' = postponed \ {o}
    /\ UNCHANGED <<now, goroutine, out, last>>

Upsert(o, i) ==
    LET en == Entry(i, NextGrid(o, i)) IN
    /\ Changes
    /\ entries' = [entries EXCEPT ![o] = en]
    /\ wheel' = [Without(o) EXCEPT ![en.slot] = @ \cup {o}]
    /\ missed' = missed \ {o} /\ postponed' = postponed \ {o}
    /\ UNCHANGED <<now, goroutine, out, last>>

Remove(o) ==
    /\ o \in Scheduled
    /\ Changes
    /\ entries' = [entries EXCEPT ![o] = Unscheduled]
    /\ wheel' = Without(o)
    /\ missed' = missed \ {o} /\ postponed' = postponed \ {o}
    /\ UNCHANGED <<now, goroutine, out, last>>

(* Run: the wheel starts at the current second.  The slots of the seconds
   before it are not visited. *)
Start ==
    /\ pc = "down"
    /\ pc' = "idle" /\ curTime' = now
    /\ missed' = {o \in Scheduled : entries[o].due <= now}
    /\ UNCHANGED <<now, entries, wheel, target, todo, out, last, postponed, changes>>
-----------------------------------------------------------------------------
(* advance: every second from curTime to the clock, one slot each. *)
Visit(t) ==
    /\ curTime' = t
    /\ todo' = wheel[t % Slots]
    /\ pc' = "slot"

AdvanceSkips ==  \* mutant: only the slot of the clock is visited
    /\ pc = "idle" /\ curTime < now
    /\ target' = now
    /\ Visit(now)
    /\ UNCHANGED <<now, entries, wheel, out, last, missed, postponed, changes>>

Advance ==
    /\ pc = "idle" /\ curTime < now
    /\ target' = now
    /\ Visit(curTime + 1)
    /\ UNCHANGED <<now, entries, wheel, out, last, missed, postponed, changes>>

NextSlotTooFar ==  \* mutant: one slot more
    /\ pc = "slot" /\ todo = {}
    /\ IF curTime <= target
         THEN Visit(curTime + 1)
         ELSE pc' = "idle" /\ UNCHANGED <<curTime, todo>>
    /\ UNCHANGED <<now, entries, wheel, target, out, last, missed, postponed, changes>>

NextSlot ==
    /\ pc = "slot" /\ todo = {}
    /\ IF curTime < target
         THEN Visit(curTime + 1)
         ELSE pc' = "idle" /\ UNCHANGED <<curTime, todo>>
    /\ UNCHANGED <<now, entries, wheel, target, out, last, missed, postponed, changes>>

Looks(o) == pc = "slot" /\ o \in todo /\ todo' = todo \ {o}
IsDue(o) == entries[o].due <= curTime

(* An entry of a future revolution. *)
Keep(o) ==
    /\ Looks(o) /\ ~IsDue(o)
    /\ UNCHANGED <<now, entries, wheel, pc, curTime, target, out, last, missed, postponed, changes>>

(* The next run counts from the planned time, and catches up with the wheel.
   Mutant: it does not move on. *)
NotMoved(due, i) == IF due < curTime THEN due + i ELSE due

Behind(due, i) == IF due + i < curTime THEN curTime - (due + i) ELSE 0
Following(due, i) == due + i + i * ((Behind(due, i) + i - 1) \div i)

Dispatch(o) ==
    LET old == entries[o]
        en  == Entry(old.interval, Following(old.due, old.interval)) IN
    /\ Looks(o) /\ IsDue(o)
    /\ Len(out) < OutCap
    /\ out' = Append(out, [object |-> o, planned |-> old.due])
    /\ last' = [last EXCEPT ![o] = old.due]
    /\ entries' = [entries EXCEPT ![o] = en]
    /\ wheel' = [wheel EXCEPT ![curTime % Slots] = @ \ {o}, ![en.slot] = @ \cup {o}]
    /\ UNCHANGED <<now, pc, curTime, target, missed, postponed, changes>>

(* The queue is full: the entry is due a second later, and stays where it is. *)
Postpone(o) ==
    /\ Looks(o) /\ IsDue(o)
    /\ Len(out) = OutCap
    /\ entries' = [entries EXCEPT ![o].due = @ + 1]
    /\ postponed' = postponed \cup {o}
    /\ UNCHANGED <<now, wheel, pc, curTime, target, out, last, missed, changes>>
-----------------------------------------------------------------------------
(* The executor takes a job. *)
Take ==
    /\ out # <<>>
    /\ out' = Tail(out)
    /\ UNCHANGED <<now, entries, wheel, goroutine, last, missed, postponed, changes>>

Tick ==
    /\ now < MaxTime
    /\ pc = "down" => now < BootBy
    /\ now' = now + 1
    /\ UNCHANGED <<entries, wheel, goroutine, out, last, missed, postponed, changes>>

Next ==
    \/ Start \/ Advance \/ NextSlot \/ Take \/ Tick
    \/ \E o \in Objects :
          \/ \E i \in Intervals : Upsert(o, i)
          \/ Remove(o) \/ Keep(o) \/ Dispatch(o) \/ Postpone(o)

Spec == Init /\ [][Next]_vars
-----------------------------------------------------------------------------
(* Every scheduled object stands in the slot its entry names, and nowhere
   else: otherwise removeLocked misses it and a removed object goes on being
   checked. *)
WheelAgrees ==
    \A o \in Objects, k \in Ring :
        o \in wheel[k] <=> o \in Scheduled /\ entries[o].slot = k

(* Between two visits no entry is left behind the wheel, except one that met
   a full queue and one whose second passed between its Upsert and the start
   of the wheel; the latter waits for less than a revolution. *)
NotBehind ==
    pc = "idle" =>
        \A o \in Scheduled :
            \/ entries[o].due > curTime
            \/ o \in postponed
            \/ o \in missed /\ curTime - entries[o].due < Slots

(* A job is planned at a second of its object's grid, whatever stalls the
   wheel has had (package comment: "drift-free"). *)
OnGrid ==
    \A o \in Scheduled \ postponed :
        entries[o].due % entries[o].interval = Splay[o] % entries[o].interval

(* The next check of an object is ahead of the wheel and on its grid. *)
OnTime == NotBehind /\ OnGrid

(* An object is never checked twice for one planned time, also when it is
   scheduled anew while the wheel turns. *)
OncePerTime ==
    [][Len(out') > Len(out) => LET job == out'[Len(out')]
                               IN  job.planned > last[job.object]]_vars
=============================================================================
