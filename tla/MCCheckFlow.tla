----------------------------- MODULE MCCheckFlow -----------------------------
(* Small instances of CheckFlow for TLC: a router with a plugin check and the
   server behind it, which reports itself and is only probed. *)
EXTENDS CheckFlow, TLC

CONSTANTS router, server, exec

ServerBehind == router :> {server} @@ server :> {}
Kinds == router :> exec @@ server :> NoPool
OneWorker == exec :> 1
=============================================================================
