------------------------------ MODULE MCEditing ------------------------------
(* Small instances of Editing for TLC. *)
EXTENDS Editing

Budget(saves, updates, applies, deletes, creates, switches, others) ==
    [saves |-> saves, updates |-> updates, applies |-> applies, deletes |-> deletes,
     creates |-> creates, switches |-> switches, others |-> others]

(* Two saves against two changes, or against a change, a deletion and a new      *)
(* document of the same name; a save against an unguarded write and a change,   *)
(* or an unguarded write, a deletion and a new document; a save against switches *)
(* of the customer.                                                          *)
Small ==
    {Budget(2, 2, 0, 0, 0, 0, 0), Budget(2, 1, 0, 1, 1, 0, 0), Budget(1, 1, 1, 1, 0, 0, 0),
     Budget(1, 0, 1, 1, 1, 0, 0), Budget(1, 1, 0, 0, 0, 2, 1)}

OneChange == {Budget(1, 1, 0, 0, 0, 0, 0)}
OneApply == {Budget(1, 1, 1, 0, 0, 0, 0)}

Live == {RoleForm}
Prop == {PolicyDialog}
=============================================================================
