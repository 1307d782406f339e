------------------------------ MODULE CheckState ------------------------------
(***************************************************************************)
(* The check state machine (internal/statemachine) as pure operators: what *)
(* one result makes of the state of an object.  States are numbered as in  *)
(* model/state.go: services 0 OK, 1 WARNING, 2 CRITICAL, 3 UNKNOWN; hosts  *)
(* 0 UP, 1 DOWN, 2 UNREACHABLE.                                            *)
(* The fields are those of a row of check_state the machine decides about. *)
(***************************************************************************)
EXTENDS Integers, FiniteSets, FiniteSetsExt

CONSTANTS
    MaxCheckAttempts,   \* problem results that make a state hard
    FlapWindow,         \* results the flap history remembers (21 in the code)
    FlapLow, FlapHigh   \* thresholds in percent

ASSUME AttemptsAssumption == MaxCheckAttempts \in Nat \ {0}
ASSUME FlapAssumption == /\ FlapWindow \in Nat \ {0, 1}
                         /\ FlapLow \in 1..100 /\ FlapHigh \in FlapLow..100

OK == 0
CRITICAL == 2
UNKNOWN == 3
HostDown == 1
HostUnreachable == 2
States == 0..3
Ages == 0..(FlapWindow - 1)

CheckStates ==
    [state : States, type : {"soft", "hard"}, attempt : 1..MaxCheckAttempts,
     flaps : SUBSET Ages, flapping : BOOLEAN, acked : BOOLEAN,
     checked : BOOLEAN]

(* The state of an object that was never stored ("checked": it has a last
   check). *)
Unchecked ==
    [state |-> UNKNOWN, type |-> "hard", attempt |-> 1, flaps |-> {}, flapping |-> FALSE,
     acked |-> FALSE, checked |-> FALSE]

(* The history of the last results by age, 0 the newest: the bits of
   FlapHistory that are set. *)
RecordFlap(flaps, changed) ==
    ({a + 1 : a \in flaps} \cap Ages) \cup (IF changed THEN {0} ELSE {})

(* The weights 0.8 + 0.4 * i / (FlapWindow - 1), scaled to integers. *)
Weight(age) == 3 * (FlapWindow - 1) - age
Weights(flaps) == MapThenSumSet(Weight, flaps)
AtLeast(flaps, percent) == 100 * Weights(flaps) >= percent * Weights(Ages)

Flapping(was, flaps, detect) ==
    detect /\ IF was THEN AtLeast(flaps, FlapLow) ELSE AtLeast(flaps, FlapHigh)

(* Passive results are hard at once. *)
Attempts(passive) == IF passive THEN 1 ELSE MaxCheckAttempts

\* mutants: one attempt too many; the attempts of a hard problem go on counting
ExhaustedLate(cs, max) == cs.attempt >= max
Exhausted(cs, max) == cs.attempt + 1 >= max
HardAttemptOn(cs, in, max) == cs.attempt + 1
HardAttempt(cs, in, max) == IF in = cs.state THEN max ELSE 1

(* State, type and attempt after a result. *)
AfterResult(cs, in, max) ==
    LET becomes(type, attempt) == [state |-> in, type |-> type, attempt |-> attempt] IN
    IF in = OK THEN becomes("hard", 1)
    ELSE IF cs.state = OK THEN becomes(IF max = 1 THEN "hard" ELSE "soft", 1)
    ELSE IF cs.type = "hard" THEN becomes("hard", HardAttempt(cs, in, max))
    ELSE IF Exhausted(cs, max) THEN becomes("hard", max)
    ELSE becomes("soft", cs.attempt + 1)

Recovered(cs, in) == in = OK /\ cs.state # OK /\ cs.type = "hard"

\* mutant: a problem that is hard at once is no change
HardChangeFromSoft(cs, in, max) ==
    \/ Recovered(cs, in)
    \/ in # OK /\ AfterResult(cs, in, max).type = "hard" /\ cs.type = "soft"

(* A hard state was entered, or a hard problem changed its severity. *)
HardChange(cs, in, max) ==
    \/ Recovered(cs, in)
    \/ /\ in # OK
       /\ AfterResult(cs, in, max).type = "hard"
       /\ cs.state = OK \/ cs.type = "soft" \/ in # cs.state

Apply(cs, in, passive, detect) ==
    LET max == Attempts(passive)
        next == AfterResult(cs, in, max)
        flaps == RecordFlap(cs.flaps, in # cs.state)
    IN [state |-> next.state, type |-> next.type, attempt |-> next.attempt,
        flaps |-> flaps,
        flapping |-> Flapping(cs.flapping, flaps, detect),
        acked |-> cs.acked /\ ~Recovered(cs, in),
        checked |-> TRUE]

(* What an observer counts: the problem results in a row, of which a passive
   one stands for all that are needed. *)
RunAfter(run, in, passive) ==
    IF in = OK THEN 0
    ELSE IF passive \/ run = MaxCheckAttempts THEN MaxCheckAttempts
    ELSE run + 1

(* A state is hard exactly when it is OK or the problem was seen
   maxCheckAttempts times in a row; while it is soft the attempt counts the
   results. *)
Counted(cs, run) ==
    /\ cs.type = "hard" <=> (cs.state = OK \/ run = MaxCheckAttempts)
    /\ cs.type = "soft" => cs.attempt = run
    /\ cs.state = OK <=> run = 0

(* The last hard change that was reported is the hard state: no hard problem
   and no recovery goes unreported, and a soft problem is not reported. *)
Told(cs, told) == told = IF cs.type = "hard" THEN cs.state ELSE OK
=============================================================================
