---------------------------- MODULE MCAgentChat ----------------------------
(* Small instances of AgentChat for TLC. *)
EXTENDS AgentChat

(* Two turns that race with each other; a turn of two rounds that is stopped, *)
(* deleted or restarted under, whose provider falls silent or whose database   *)
(* refuses; a proposal decided by two people.                                *)
Budget(t, tool, proposal, stop, delete, restart, fault) ==
    [turns |-> t, tools |-> tool, proposals |-> proposal, stops |-> stop,
     deletes |-> delete, restarts |-> restart, faults |-> fault]

Small ==
    {Budget(2, 0, 0, 1, 0, 0, 0), Budget(1, 3, 0, 1, 1, 1, 1), Budget(1, 1, 1, 0, 0, 1, 0)}
=============================================================================
