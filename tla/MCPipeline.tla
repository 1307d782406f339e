------------------------------ MODULE MCPipeline ------------------------------
(* Small instances of Pipeline for TLC: a host and the host behind it. *)
EXTENDS Pipeline, TLC

CONSTANTS router, server

Behind == router :> {} @@ server :> {router}
Result(source, state, month) == [source |-> source, state |-> state, month |-> month]

\* The router is checked actively; the server sends its own results, which
\* may carry last month's time.
SomeResults ==
    router :> {Result("scheduler", OK, 2), Result("scheduler", CRITICAL, 2)} @@
    server :> {Result("passive", OK, 1), Result("passive", CRITICAL, 1), Result("freshness", UNKNOWN, 2)}
=============================================================================
