------------------------------- MODULE Delivery -------------------------------
(***************************************************************************)
(* What the outbox promises, without rows, leases, workers or time: a       *)
(* delivery that was enqueued stays until the provider has taken it or      *)
(* there is no point in sending it any more; it is given up only after      *)
(* MaxAttempts failed tries, and can then be revived.  A delivery that was  *)
(* overdue once, because a worker sat on it longer than it may, keeps the   *)
(* first half of this: it may be tried, given up or come back at any time,  *)
(* but goes away, once and for all, only taken or moot.                     *)
(***************************************************************************)
EXTENDS Naturals

CONSTANTS Items, MaxAttempts

VARIABLES
    state,  \* none, queued, dead, gone
    taken,  \* how often the provider took it
    tries,  \* failed tries since it was enqueued or revived
    moot,   \* deliveries there is no point in sending
    overdue \* deliveries that were overdue once

dvars == <<state, taken, tries, moot, overdue>>

Init ==
    /\ state = [i \in Items |-> "none"]
    /\ taken = [i \in Items |-> 0]
    /\ tries = [i \in Items |-> 0]
    /\ moot = {} /\ overdue = {}

Moves(i, from, to) == state[i] = from /\ state' = [state EXCEPT ![i] = to]

Enqueue(i) == Moves(i, "none", "queued") /\ UNCHANGED <<taken, tries, moot, overdue>>

Expire(i) ==
    /\ state[i] # "none"
    /\ moot' = moot \cup {i}
    /\ UNCHANGED <<state, taken, tries, overdue>>

Delay(S) ==
    /\ \A i \in S : state[i] # "none"
    /\ overdue' = overdue \cup S
    /\ UNCHANGED <<state, taken, tries, moot>>

(* A try: taken, failed, or both when the answer got lost. *)
Try(i) ==
    /\ state[i] = "queued" \/ i \in overdue
    /\ taken' \in {taken, [taken EXCEPT ![i] = @ + 1]}
    /\ tries' \in {tries, [tries EXCEPT ![i] = @ + 1]}
    /\ UNCHANGED <<state, moot, overdue>>

Finish(i) ==
    /\ taken[i] > 0 \/ i \in moot
    /\ Moves(i, "queued", "gone") \/ (i \in overdue /\ Moves(i, "dead", "gone"))
    /\ UNCHANGED <<taken, tries, moot, overdue>>

GiveUp(i) ==
    /\ tries[i] >= MaxAttempts \/ i \in overdue
    /\ Moves(i, "queued", "dead")
    /\ UNCHANGED <<taken, tries, moot, overdue>>

(* A late outcome takes it for queued although it was given up. *)
Resurface(i) ==
    /\ i \in overdue
    /\ Moves(i, "dead", "queued")
    /\ UNCHANGED <<taken, tries, moot, overdue>>

Revive(i) ==
    /\ Moves(i, "dead", "queued")
    /\ tries' = [tries EXCEPT ![i] = 0]
    /\ UNCHANGED <<taken, moot, overdue>>

Next ==
    \/ \E S \in SUBSET Items : Delay(S)
    \/ \E i \in Items :
          \/ Enqueue(i) \/ Expire(i) \/ Try(i)
          \/ Finish(i) \/ GiveUp(i) \/ Resurface(i) \/ Revive(i)

Spec == Init /\ [][Next]_dvars
=============================================================================
