----------------------------- MODULE MCScheduler -----------------------------
(* Small instances of Scheduler for TLC. *)
EXTENDS Scheduler, TLC

CONSTANTS o1, o2

SmallSplay == o1 :> 0 @@ o2 :> 1
=============================================================================
