-------------------------------- MODULE Forms --------------------------------
(***************************************************************************)
(* How the dialogs of the web UI edit a stored object.  A dialog shows a   *)
(* draft of some fields and saves a whole document under an If-Match; the  *)
(* dialogs differ in where each part comes from:                           *)
(*   data   of the draft: a GET on the click, the query of the dialog, a   *)
(*          row of the list;                                               *)
(*   rest   the fields the dialog does not show;                           *)
(*   lock   the read whose version goes into If-Match;                     *)
(*   again  whether a conflict is answered by a GET and a second PUT;      *)
(*   by     what the PUT names: the name of a document, or the id of an    *)
(*          object of the catalog.                                         *)
(* "prop" is what the parent passes now, "query" what the cache holds now, *)
(* "save" a GET at the time of saving.                                     *)
(***************************************************************************)

Form(data, rest, lock, again) ==
    [data |-> data, rest |-> rest, lock |-> lock, again |-> again, by |-> "name"]

ById(form) == [form EXCEPT !.by = "id"]

(* The parent fetches the object and its version together, on the click. *)
RuleDialog     == Form("click", "draft", "prop", FALSE)
PolicyDialog   == Form("click", "draft", "prop", FALSE)
ScheduleDialog == Form("click", "draft", "prop", FALSE)
MenuDialog     == Form("click", "draft", "prop", FALSE)
GroupDialog    == Form("click", "draft", "prop", FALSE)
ProfileDialog  == Form("click", "draft", "prop", FALSE)

(* The fields are states of their own, seeded once; the rest of the document  *)
(* and the version follow the query.                                         *)
ContactForm == Form("query", "query", "query", FALSE)
RoleForm    == Form("query", "query", "query", FALSE)
AdminGroupForm == Form("query", "query", "query", FALSE)
ChannelForm == Form("query", "query", "query", FALSE)
SourceForm  == Form("query", "query", "query", FALSE)

(* The draft is the whole document; the version follows the query. *)
WebhookForm == Form("query", "draft", "query", FALSE)
SiteDialog  == Form("query", "draft", "query", FALSE)

(* The document is built from the fields alone. *)
TemplateDialog     == Form("query", "dropped", "query", FALSE)
CheckCommandDialog == Form("query", "dropped", "query", FALSE)
TimePeriodDialog   == Form("query", "dropped", "query", FALSE)

(* The row of the list is edited; the document is fetched anew to save it. *)
ReportDialog   == Form("list", "save", "save", FALSE)
BusinessDialog == Form("list", "save", "save", FALSE)

(* The widgets of a dashboard; on a conflict the save is tried again. *)
DashboardEditor == Form("query", "query", "query", TRUE)

(* Hosts and services: from the list a row is edited that is kept since the   *)
(* click, on the page of an object what its query holds by now.              *)
ObjectListDialog == ById(Form("list", "draft", "draft", FALSE))
ObjectPageDialog == ById(Form("query", "draft", "query", FALSE))

AllForms ==
    {RuleDialog, PolicyDialog, ScheduleDialog, MenuDialog, GroupDialog, ProfileDialog,
     ContactForm, RoleForm, AdminGroupForm, ChannelForm, SourceForm,
     WebhookForm, SiteDialog,
     TemplateDialog, CheckCommandDialog, TimePeriodDialog,
     ReportDialog, BusinessDialog, DashboardEditor,
     ObjectListDialog, ObjectPageDialog}
=============================================================================
