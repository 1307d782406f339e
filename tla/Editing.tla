------------------------------- MODULE Editing -------------------------------
(***************************************************************************)
(* One tab of the web UI edits objects that other people edit too.  The    *)
(* dialog is one of those of Forms; the server checks a save first and     *)
(* writes it later under a guard (PutResource).  Everybody else, another   *)
(* tab of the same browser included, acts through the actions named        *)
(* Elsewhere: under the same guard, or as a bundle and the agent do,       *)
(* without one.                                                            *)
(***************************************************************************)
EXTENDS Naturals, Forms

CONSTANTS
    MaxTenants,  \* customers
    MaxNames,    \* names of objects
    FormsUsed,   \* the forms of Forms that are looked at
    Budgets      \* what may happen at all: [saves, updates, applies, deletes, creates,
                 \* switches, others]

Tenants == 1 .. MaxTenants
Names == 1 .. MaxNames

ASSUME EditingAssumption ==
    /\ MaxTenants \in Nat \ {0} /\ MaxNames \in Nat \ {0}
    /\ FormsUsed \subseteq AllForms
    /\ Budgets \subseteq [saves : Nat, updates : Nat, applies : Nat, deletes : Nat,
                    creates : Nat, switches : Nat, others : Nat]

VARIABLES
    form,         \* the form of the dialog
    rows,         \* the tables resources and objects: per customer and name a row
    clock,        \* the next stamp: contents and ids are told apart by them
    tenant,       \* the active customer, in localStorage: all tabs share it
    cache,        \* per name: what the tab's queries last read
    clicks,       \* GETs of clicked Edit buttons that are not answered yet
    dialog,       \* open, the prop of the parent, the draft of the dialog
    put,          \* the save in flight, and the reads its parts come from
    recounted,    \* ids of rows whose version was not counted on by a write: one that
                  \* brought a row back, or had no guard and came late
    apply,        \* what an unguarded write elsewhere has read, until it writes
    otherTab,     \* whether another tab has switched the customer
    left          \* what is left of the budget

vars ==
    <<form, rows, clock, tenant, cache, clicks, dialog, put, recounted, apply, otherTab, left>>

NoRow == [id |-> 0, version |-> 0, shown |-> 0, hidden |-> 0]
Nothing == [tenant |-> 0, name |-> 0, row |-> NoRow]
Closed == [open |-> FALSE, state |-> Nothing, draft |-> Nothing]
Idle == [stage |-> "idle", tenant |-> 0, name |-> 0, tries |-> 0, env |-> NoRow,
         shown |-> Nothing, rest |-> Nothing, lock |-> Nothing]
Read(x, n) == [tenant |-> x, name |-> n, row |-> rows[x][n]]

(* What the tab has read, and what is stored now. *)
Reads ==
    {cache[n] : n \in Names} \cup {dialog.state, dialog.draft, put.shown, put.rest, put.lock}
Known == Reads \cup {Read(x, n) : x \in Tenants, n \in Names}

(* Mutant: versions count from zero. *)
ZeroVersion == 0

FirstVersion == 1

(* A document written for the first time; a stamp stands for what is in it. *)
NewRow(hidden) == [id |-> clock, version |-> FirstVersion, shown |-> clock, hidden |-> hidden]

Init ==
    /\ form \in FormsUsed
    /\ rows = [x \in Tenants |-> [n \in Names |->
                  LET first == MaxNames * (x - 1) + n
                  IN  [id |-> first, version |-> FirstVersion, shown |-> first, hidden |-> first]]]
    /\ clock = MaxTenants * MaxNames + 1
    /\ tenant = 1
    /\ cache = [n \in Names |-> Nothing]
    /\ clicks = {}
    /\ dialog = Closed
    /\ put = Idle
    /\ recounted = {}
    /\ apply = Nothing
    /\ otherTab = FALSE
    /\ left \in Budgets

-----------------------------------------------------------------------------
(* The tab: opening and closing a dialog.                                  *)

(* The Edit button of a form that fetches on the click; it can be pressed     *)
(* again, or on another row, before the dialog is there.                     *)
Click(n) ==
    /\ form.data = "click" /\ ~dialog.open
    /\ clicks' = clicks \cup {[tenant |-> tenant, name |-> n]}
    /\ UNCHANGED <<form, rows, clock, tenant, cache, dialog, put, recounted, apply, otherTab, left>>

(* The answer: the parent's state is set; a dialog that is already open gets   *)
(* a new prop and keeps its draft (useState looks at the first one only).    *)
Arrive(c) ==
    /\ c \in clicks
    /\ clicks' = clicks \ {c}
    /\ dialog' = IF rows[c.tenant][c.name] = NoRow THEN dialog
                 ELSE [open |-> TRUE, state |-> Read(c.tenant, c.name),
                       draft |-> IF dialog.open THEN dialog.draft ELSE Read(c.tenant, c.name)]
    /\ UNCHANGED <<form, rows, clock, tenant, cache, put, recounted, apply, otherTab, left>>

(* A list or a document is fetched, or fetched anew: on the first use, on the  *)
(* next one when it is stale by then, after a save or a check now, when the   *)
(* network is back.  An error keeps the old data, and so does the page of an  *)
(* object that was deleted, whatever has its name now.                       *)
Fetch(n) ==
    /\ form.data # "click" /\ rows[tenant][n] # NoRow
    /\ form.by = "id" /\ dialog.draft # Nothing => rows[tenant][n].id = dialog.draft.row.id
    /\ cache' = [cache EXCEPT ![n] = Read(tenant, n)]
    /\ UNCHANGED <<form, rows, clock, tenant, clicks, dialog, put, recounted, apply, otherTab, left>>

(* The draft is taken once, from what the cache holds. *)
Open(n) ==
    /\ form.data # "click" /\ ~dialog.open /\ cache[n] # Nothing
    /\ dialog' = [open |-> TRUE, state |-> Nothing, draft |-> cache[n]]
    /\ UNCHANGED <<form, rows, clock, tenant, cache, clicks, put, recounted, apply, otherTab, left>>

(* A blank document, or a duplicate under a fresh name. *)
New ==
    /\ ~dialog.open /\ ~form.again
    /\ dialog' = [Closed EXCEPT !.open = TRUE]
    /\ UNCHANGED <<form, rows, clock, tenant, cache, clicks, put, recounted, apply, otherTab, left>>

Cancel ==
    /\ dialog.open
    /\ dialog' = Closed
    /\ UNCHANGED <<form, rows, clock, tenant, cache, clicks, put, recounted, apply, otherTab, left>>

(* The Delete button of the dialog names the parent's object, no version. *)
Remove ==
    /\ left.deletes > 0 /\ left' = [left EXCEPT !.deletes = @ - 1]
    /\ dialog.open /\ dialog.state # Nothing
    /\ rows' = [rows EXCEPT ![tenant][dialog.state.name] = NoRow]
    /\ dialog' = Closed
    /\ UNCHANGED <<form, clock, tenant, cache, clicks, put, recounted, apply, otherTab>>

(* Mutant: the cached reads of the customer before stay. *)
KeptCache == cache

FreshCache == [n \in Names |-> Nothing]

(* Another customer: the cache is dropped and the page left. *)
Switch(x) ==
    /\ left.switches > 0 /\ left' = [left EXCEPT !.switches = @ - 1]
    /\ tenant' = x
    /\ cache' = FreshCache
    /\ dialog' = Closed
    /\ clicks' = {}
    /\ UNCHANGED <<form, rows, clock, put, recounted, apply, otherTab>>

-----------------------------------------------------------------------------
(* The tab: saving.                                                        *)

(* The read a part of the document comes from when the button is pressed. *)
From(where) ==
    IF where = "draft" THEN dialog.draft
    ELSE IF where = "prop" THEN dialog.state
    ELSE IF where = "query" /\ dialog.draft # Nothing THEN cache[dialog.draft.name]
    ELSE Nothing

(* The save button: with a version a PUT, without one a POST; a document that  *)
(* is only read at this moment is asked for first.                           *)
Save(n) ==
    /\ left.saves > 0 /\ left' = [left EXCEPT !.saves = @ - 1]
    /\ dialog.open /\ put.stage = "idle"
    /\ dialog.draft # Nothing => n = dialog.draft.name
    /\ put' = [Idle EXCEPT
                 !.stage = IF form.lock = "save" /\ dialog.draft # Nothing THEN "get" ELSE "sent",
                 !.tenant = tenant, !.name = n, !.shown = dialog.draft,
                 !.rest = From(form.rest), !.lock = From(form.lock)]
    /\ UNCHANGED <<form, rows, clock, tenant, cache, clicks, dialog, recounted, apply, otherTab>>

(* The GET of a save: the document and its version are taken from it, and the *)
(* PUT is sent for the customer who is active by now.                        *)
Freshen ==
    /\ put.stage = "get"
    /\ put' = IF rows[put.tenant][put.name] = NoRow THEN [put EXCEPT !.stage = "refused"]
              ELSE [put EXCEPT !.stage = "sent", !.tenant = tenant,
                               !.rest = Read(put.tenant, put.name),
                               !.lock = Read(put.tenant, put.name)]
    /\ UNCHANGED <<form, rows, clock, tenant, cache, clicks, dialog, recounted, apply, otherTab, left>>

(* The answer: a save that went through closes the dialog, whichever is open   *)
(* by now; a conflict is tried again by a form that does, once.              *)
Answer ==
    \/ /\ put.stage = "ok"
       /\ dialog' = Closed
       /\ put' = Idle
    \/ /\ put.stage = "conflict" /\ form.again /\ put.tries = 0
       /\ put' = [put EXCEPT !.stage = "get", !.tenant = tenant, !.tries = 1]
       /\ UNCHANGED dialog
    \/ /\ put.stage \in {"refused", "conflict"}
       /\ put.stage = "conflict" => ~form.again \/ put.tries = 1
       /\ put' = Idle
       /\ UNCHANGED dialog

ReadAnswer ==
    /\ Answer
    /\ UNCHANGED <<form, rows, clock, tenant, cache, clicks, recounted, apply, otherTab, left>>

-----------------------------------------------------------------------------
(* The server: a look at the row, then the guarded write, by name           *)
(* (PutResource) or by id (PUT /objects/{id}, UpdateObject).               *)

Target == rows[put.tenant][put.name]
Creates == put.lock = Nothing
IsThere(row) == row # NoRow /\ (form.by = "id" => row.id = put.lock.row.id)

(* Mutant: a write leaves the version as it was. *)
SameVersion(v) == v

NextVersion(v) == v + 1

(* A row with new contents under its old id. *)
Changed(row, shown, hidden) ==
    [row EXCEPT !.version = NextVersion(@), !.shown = shown, !.hidden = hidden]

(* The look decides between 404, 409 and going on; it fixes the id and the    *)
(* version that are written later.  That of an object only looks for it, and  *)
(* a new object is inserted without a look.                                  *)
LookAtObject ==
    /\ put.stage = "sent" /\ form.by = "id"
    /\ put' = [put EXCEPT !.stage = IF Creates \/ IsThere(Target) THEN "write" ELSE "refused",
                          !.env = NewRow(0)]
    /\ clock' = clock + 1
    /\ UNCHANGED <<form, rows, tenant, cache, clicks, dialog, recounted, apply, otherTab, left>>

Check ==
    /\ put.stage = "sent" /\ form.by = "name"
    /\ put' = IF Creates
              THEN [put EXCEPT !.stage = IF Target = NoRow THEN "write" ELSE "refused",
                               !.env = NewRow(0)]
              ELSE [put EXCEPT !.stage = IF Target = NoRow THEN "refused"
                                         ELSE IF Target.version # put.lock.row.version THEN "conflict"
                                         ELSE "write",
                               !.env = [Target EXCEPT !.version = NextVersion(@)]]
    /\ clock' = clock + 1
    /\ UNCHANGED <<form, rows, tenant, cache, clicks, dialog, recounted, apply, otherTab, left>>

(* ON CONFLICT DO NOTHING. *)
IsFree(row) == row = NoRow

(* The INSERT of a POST. *)
WriteNew ==
    /\ put.stage = "write" /\ Creates
    /\ IF IsFree(Target)
       THEN /\ rows' = [rows EXCEPT ![put.tenant][put.name] =
                           [id |-> put.env.id, version |-> FirstVersion, shown |-> clock,
                            hidden |-> put.rest.row.hidden]]
            /\ put' = [put EXCEPT !.stage = "ok"]
       ELSE /\ put' = [put EXCEPT !.stage = "refused"]
            /\ UNCHANGED rows
    /\ clock' = clock + 1
    /\ UNCHANGED <<form, tenant, cache, clicks, dialog, recounted, apply, otherTab, left>>

(* Mutant: the guard of the write is left to the look before it. *)
AnyVersion(row) == row # NoRow

(* ON CONFLICT DO UPDATE ... WHERE version = If-Match. *)
StillAt(row) == row.version = put.lock.row.version

(* The primary key. *)
Taken(id) == \E x \in Tenants, n \in Names : rows[x][n].id = id

(* The upsert of a PUT.  A row that was deleted since the look has no conflict: *)
(* it is inserted again, with its old id.                                    *)
WriteOld ==
    /\ put.stage = "write" /\ ~Creates /\ form.by = "name"
    /\ \/ /\ Target # NoRow /\ StillAt(Target)
          /\ rows' = [rows EXCEPT ![put.tenant][put.name] =
                         [id |-> @.id, version |-> put.env.version, shown |-> clock,
                          hidden |-> put.rest.row.hidden]]
          /\ put' = [put EXCEPT !.stage = "ok"]
          /\ UNCHANGED recounted
       \/ /\ Target = NoRow /\ ~Taken(put.env.id)
          /\ rows' = [rows EXCEPT ![put.tenant][put.name] =
                         [id |-> put.env.id, version |-> put.env.version, shown |-> clock,
                          hidden |-> put.rest.row.hidden]]
          /\ put' = [put EXCEPT !.stage = "ok"]
          /\ recounted' = recounted \cup {put.env.id}
       \/ /\ IF Target = NoRow THEN Taken(put.env.id) ELSE ~StillAt(Target)
          /\ put' = [put EXCEPT !.stage = IF Target = NoRow THEN "refused" ELSE "conflict"]
          /\ UNCHANGED <<rows, recounted>>
    /\ clock' = clock + 1
    /\ UNCHANGED <<form, tenant, cache, clicks, dialog, apply, otherTab, left>>

(* UPDATE ... WHERE id AND version: no row is 404 or 409.                     *)
UpdateObject ==
    /\ put.stage = "write" /\ ~Creates /\ form.by = "id"
    /\ IF IsThere(Target) /\ StillAt(Target)
       THEN /\ rows' = [rows EXCEPT ![put.tenant][put.name] =
                           Changed(Target, clock, put.rest.row.hidden)]
            /\ put' = [put EXCEPT !.stage = "ok"]
       ELSE /\ put' = [put EXCEPT !.stage = IF IsThere(Target) THEN "conflict" ELSE "refused"]
            /\ UNCHANGED rows
    /\ clock' = clock + 1
    /\ UNCHANGED <<form, tenant, cache, clicks, dialog, recounted, apply, otherTab, left>>

-----------------------------------------------------------------------------
(* Everybody else.                                                         *)

(* Somebody saves a change of some fields under the guard, or of an object,    *)
(* whose version is counted by the UPDATE.                                   *)
UpdateElsewhere(x, n) ==
    /\ left.updates > 0 /\ left' = [left EXCEPT !.updates = @ - 1]
    /\ rows[x][n] # NoRow
    /\ \E s \in {clock, rows[x][n].shown}, h \in {clock, rows[x][n].hidden} :
          rows' = [rows EXCEPT ![x][n] = Changed(rows[x][n], s, h)]
    /\ clock' = clock + 1
    /\ UNCHANGED <<form, tenant, cache, clicks, dialog, put, recounted, apply, otherTab>>

(* A bundle, the agent, the demo: PutResource reads the row ...               *)
ReadElsewhere(x, n) ==
    /\ left.applies > 0 /\ left' = [left EXCEPT !.applies = @ - 1]
    /\ form.by = "name" /\ apply = Nothing
    /\ apply' = Read(x, n)
    /\ UNCHANGED <<form, rows, clock, tenant, cache, clicks, dialog, put, recounted, otherTab>>

(* ... and later writes the version after the one it read, over whatever is    *)
(* there by then.                                                            *)
Upserted(old) ==
    {[id |-> IF old # NoRow THEN old.id ELSE IF apply.row # NoRow THEN apply.row.id ELSE clock,
      version |-> NextVersion(apply.row.version), shown |-> clock, hidden |-> h] :
        h \in {clock, apply.row.hidden}}

WriteElsewhere ==
    /\ apply # Nothing
    /\ LET old == rows[apply.tenant][apply.name] IN
       \/ \E row \in Upserted(old) :
             /\ old = NoRow => ~Taken(row.id)
             /\ rows' = [rows EXCEPT ![apply.tenant][apply.name] = row]
             /\ recounted' = IF \/ old = NoRow /\ apply.row = NoRow
                                \/ old # NoRow /\ row.version = old.version + 1
                             THEN recounted ELSE recounted \cup {row.id}
       \/ /\ old = NoRow /\ Taken(apply.row.id)
          /\ UNCHANGED <<rows, recounted>>
    /\ apply' = Nothing
    /\ clock' = clock + 1
    /\ UNCHANGED <<form, tenant, cache, clicks, dialog, put, otherTab, left>>

DeleteElsewhere(x, n) ==
    /\ left.deletes > 0 /\ left' = [left EXCEPT !.deletes = @ - 1]
    /\ rows[x][n] # NoRow
    /\ rows' = [rows EXCEPT ![x][n] = NoRow]
    /\ UNCHANGED <<form, clock, tenant, cache, clicks, dialog, put, recounted, apply, otherTab>>

(* A deleted name is used again: its versions start anew, under an id of its    *)
(* own or, if the document carries one, under that of an earlier document.    *)
CreateElsewhere(x, n) ==
    /\ left.creates > 0 /\ left' = [left EXCEPT !.creates = @ - 1]
    /\ rows[x][n] = NoRow
    /\ \/ /\ rows' = [rows EXCEPT ![x][n] = NewRow(clock)]
          /\ UNCHANGED recounted
       \/ \E r \in Reads \ {Nothing} :
             /\ form.by = "name" /\ ~Taken(r.row.id)
             /\ rows' = [rows EXCEPT ![x][n] = [NewRow(clock) EXCEPT !.id = r.row.id]]
             /\ recounted' = recounted \cup {r.row.id}
    /\ clock' = clock + 1
    /\ UNCHANGED <<form, tenant, cache, clicks, dialog, put, apply, otherTab>>

(* Another tab writes the same localStorage: this one is not told. *)
SwitchElsewhere(x) ==
    /\ left.others > 0 /\ left' = [left EXCEPT !.others = @ - 1]
    /\ tenant' = x
    /\ otherTab' = TRUE
    /\ UNCHANGED <<form, rows, clock, cache, clicks, dialog, put, recounted, apply>>

Dialog(n) == Click(n) \/ Fetch(n) \/ Open(n) \/ Save(n)

Elsewhere(x, n) ==
    \/ UpdateElsewhere(x, n) \/ ReadElsewhere(x, n)
    \/ DeleteElsewhere(x, n) \/ CreateElsewhere(x, n)

Next ==
    \/ New \/ Cancel \/ Remove
    \/ Freshen \/ ReadAnswer \/ Check \/ LookAtObject \/ WriteNew \/ WriteOld \/ UpdateObject
    \/ WriteElsewhere
    \/ \E n \in Names : Dialog(n)
    \/ \E c \in clicks : Arrive(c)
    \/ \E x \in Tenants : Switch(x) \/ SwitchElsewhere(x)
    \/ \E x \in Tenants, n \in Names : Elsewhere(x, n)

Spec == Init /\ [][Next]_vars

-----------------------------------------------------------------------------
(* Type invariant. *)
RowType == [id : Nat, version : Nat, shown : Nat, hidden : Nat]
ReadType == [tenant : 0 .. MaxTenants, name : 0 .. MaxNames, row : RowType]
Stages == {"idle", "get", "sent", "write", "ok", "conflict", "refused"}

IsRow(row) == row \in RowType /\ (row = NoRow \/ (row.version > 0 /\ row.id > 0))

TypeOK ==
    /\ form \in FormsUsed
    /\ rows \in [Tenants -> [Names -> RowType]]
    /\ \A x \in Tenants, n \in Names : IsRow(rows[x][n])
    /\ clock \in Nat \ {0}
    /\ tenant \in Tenants
    /\ cache \in [Names -> ReadType]
    /\ clicks \subseteq [tenant : Tenants, name : Names]
    /\ dialog.open \in BOOLEAN /\ dialog.state \in ReadType /\ dialog.draft \in ReadType
    /\ put.stage \in Stages /\ put.tries \in 0 .. 1 /\ put.env \in RowType
    /\ put.stage # "idle" => put.tenant \in Tenants /\ put.name \in Names
    /\ put.shown \in ReadType /\ put.rest \in ReadType /\ put.lock \in ReadType
    /\ recounted \subseteq Nat
    /\ apply \in ReadType
    /\ otherTab \in BOOLEAN
    /\ left \in [saves : Nat, updates : Nat, applies : Nat, deletes : Nat, creates : Nat,
                switches : Nat, others : Nat]

SameVersionOf(r, s) ==
    /\ r.tenant = s.tenant /\ r.name = s.name
    /\ r.row.id = s.row.id /\ r.row.version = s.row.version
    /\ r.row.id \notin recounted

(* A version tells the contents of a document apart, whoever writes it and     *)
(* however often it is deleted and made anew, with one exception by name: a   *)
(* document whose version was not counted on, because a write brought it back  *)
(* under its old id or an unguarded one came late (ETag, PutResource).        *)
EtagIdentifies ==
    \A r, s \in Known : SameVersionOf(r, s) => r.row = s.row

(* A save that goes through over a row that is still the one it read. *)
Overwrites == put.stage = "write" /\ ~Creates /\ put'.stage = "ok" /\ Target # NoRow
IsTheOneRead ==
    /\ put.lock.tenant = put.tenant /\ put.lock.name = put.name
    /\ put.lock.row.id = Target.id /\ Target.id \notin recounted

(* A part of a save that comes from the same read as its If-Match replaces     *)
(* exactly what the user saw, whatever the dialog and whatever happens between *)
(* the look and the write, unless the version of the document was not counted *)
(* on; and a save that creates replaces nothing (resourceApi.update,          *)
(* PutResource, UpdateObject, POST).                                         *)
OneReadIsSafe ==
    [][/\ Overwrites /\ IsTheOneRead =>
            /\ put.shown = put.lock => Target.shown = put.shown.row.shown
            /\ put.rest = put.lock => Target.hidden = put.rest.row.hidden
       /\ put.stage = "write" /\ Creates /\ put'.stage = "ok" => Target = NoRow]_vars

(* The comment: "requireIfMatch enforces the lost-update guard for mutating     *)
(* handlers" (api.go): what the user saw under the version of the If-Match is  *)
(* what a save replaces.                                                     *)
IfMatchGuards ==
    [][Overwrites /\ put.shown = put.lock => Target.shown = put.shown.row.shown]_vars

(* A save goes to the customer whose document was edited, unless another tab   *)
(* switched, or the switch came between the two requests of one save          *)
(* (TenantSwitcher, api).                                                    *)
RightCustomer ==
    put.stage # "idle" /\ ~otherTab /\ form.lock # "save" /\ put.tries = 0 =>
        \A r \in {put.shown, put.lock} : r # Nothing => r.tenant = put.tenant

(* The comment: "the form loads the current version via resourceApi.get and    *)
(* PUTs with that etag; a 409/412 conflict surfaces" (Roles.tsx): nobody's     *)
(* change of the fields on screen is overwritten unseen.                      *)
NoLostUpdate ==
    [][Overwrites => Target.shown = put.shown.row.shown]_vars
=============================================================================
