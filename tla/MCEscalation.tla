----------------------------- MODULE MCEscalation -----------------------------
(* Small instances of Escalation for TLC. *)
EXTENDS Escalation, TLC

Step2(after0, unless0, every0, max0, after1, unless1) ==
    0 :> [after |-> after0, unlessAcked |-> unless0, repeatEvery |-> every0, maxRepeats |-> max0]
 @@ 1 :> [after |-> after1, unlessAcked |-> unless1, repeatEvery |-> 0, maxRepeats |-> 0]

(* At once, then unless acknowledged a second step. *)
ThenSecond == Step2(0, FALSE, 0, 0, 1, TRUE)

(* At once with one repeat, then unless acknowledged a second step. *)
RepeatThenSecond == Step2(0, FALSE, 1, 1, 2, TRUE)

SymmetricNodes == Permutations(Nodes)

(* One crash or one failed call, looked at while the other node rests. *)
AtWork(n) ==
    \/ esc[n].pc # "idle" \/ esc[n].due # {}
    \/ engine[n].pc # "idle" \/ starting[n] # {}

FailuresAlone ==
    \/ crashes + faults = 0
    \/ crashes + faults = 1 /\ Cardinality({n \in Nodes : AtWork(n)}) <= 1
=============================================================================
