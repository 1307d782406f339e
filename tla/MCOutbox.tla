------------------------------- MODULE MCOutbox -------------------------------
(* The small instance of Outbox for TLC: the constants are those of the .cfg
   (no symmetry: the run checks liveness and a refinement). *)
EXTENDS Outbox
=============================================================================
