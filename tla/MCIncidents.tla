---------------------------- MODULE MCIncidents ----------------------------
(* Small instances of Incidents for TLC. *)
EXTENDS Incidents, TLC

CONSTANTS a1, a2, r1, r2

Two == {a1, a2}
First == {a1}
People == {r1, r2}

B(req, storm, sum, exp, tic, fault, page) ==
    [requests |-> req, storms |-> storm, summaries |-> sum, expiries |-> exp,
     tickets |-> tic, faults |-> fault, page |-> page]

(* What can meet: two requests, a request and a summary against a storm, tickets *)
(* against a request, a storm or an expiry, a fault in the middle, a listing that *)
(* leaves an alert out.                                                      *)
Few == {B(2, 0, 0, 0, 0, 0, 2), B(1, 1, 1, 0, 0, 0, 2), B(0, 1, 0, 0, 1, 0, 2),
        B(1, 0, 0, 0, 2, 0, 2), B(0, 0, 0, 1, 2, 0, 1), B(1, 0, 0, 1, 0, 0, 2),
        B(1, 0, 0, 0, 1, 1, 2), B(0, 0, 0, 1, 1, 1, 2), B(0, 1, 0, 0, 0, 1, 2),
        B(2, 0, 0, 0, 0, 0, 1)}

(* A person closes an incident and the database refuses once; tickets and a       *)
(* recovery.                                                                 *)
OneFault == {B(2, 0, 0, 0, 0, 1, 2)}
TwoTickets == {B(0, 0, 0, 0, 2, 0, 2)}

SymmetricPeople == Permutations(People)
=============================================================================
