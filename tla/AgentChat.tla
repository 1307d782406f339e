------------------------------ MODULE AgentChat ------------------------------
(***************************************************************************)
(* The agent chat: the page that shows one turn at a time, the handler     *)
(* that streams a turn, the rows it leaves behind, and the approval of the *)
(* actions a turn proposes.  One action is one database call of a handler, *)
(* one chunk that arrives, or one callback of the page.                    *)
(***************************************************************************)
EXTENDS Naturals, Sequences

CONSTANTS
    MaxChats,    \* bound on the chats of a behaviour
    Approvers,   \* people with an approval queue open
    MaxRounds,   \* provider rounds of one turn (pol.maxRounds())
    MaxTurns,    \* bound on the turns of a behaviour
    Budgets      \* what may happen at all: [turns, tools, proposals, stops, deletes,
                 \* restarts, faults]

ASSUME AgentChatAssumption ==
    /\ MaxChats \in Nat /\ MaxRounds \in Nat \ {0} /\ MaxTurns \in Nat
    /\ Budgets \subseteq [turns : 0 .. MaxTurns, tools : Nat, proposals : Nat,
                    stops : Nat, deletes : Nat, restarts : Nat, faults : Nat]

VARIABLES
    page,      \* the React state of the page: open chat, pending turn, abortRef
    turns,     \* every turn ever started, seen from both ends
    chunks,    \* per turn: chunks on their way to the page
    chats,     \* ids of the rows of ai_chats
    messages,  \* rows of ai_chat_messages
    busy,      \* per chat: the turn in the map chatStreams, or 0
    clock,     \* the next UUIDv7
    action,    \* the row of ai_actions: its status and how often its tool ran
    approval,  \* per approver: where the request to approve stands
    left       \* what is left of the budget

vars == <<page, turns, chunks, chats, messages, busy, clock, action, approval, left>>

Chats == 1 .. MaxChats
NoChat == 0   \* the empty chatId: a chat that does not exist yet
Started == 1 .. Len(turns)
NoPending == [own |-> 0, status |-> "none", parts |-> <<>>]
streaming == page.pending.status = "streaming"

Turn(c, trigger, target, client) ==
    [chat |-> c, trigger |-> trigger, target |-> target, client |-> client,
     server |-> IF client = "reading" THEN "store" ELSE "none",
     round |-> 0, spoke |-> FALSE, id |-> 0,
     kept |-> FALSE, aborted |-> FALSE, left |-> FALSE, broken |-> FALSE]

Chunk(type, t) == [type |-> type, turn |-> t]

Init ==
    /\ page = [chat |-> NoChat, pending |-> NoPending, abort |-> 0]
    /\ turns = <<>>
    /\ chunks = <<>>
    /\ chats = {}
    /\ messages = {}
    /\ busy = [c \in Chats |-> 0]
    /\ clock = 1
    /\ action = [status |-> "none", runs |-> 0]
    /\ approval = [p \in Approvers |-> "idle"]
    /\ left \in Budgets

-----------------------------------------------------------------------------
(* The fold of the stream into the message (uistream.ts).                  *)

(* The newest part of type text that still has its key (findByKey). *)
IsNewest(i, parts) ==
    parts[i].open /\ \A j \in i + 1 .. Len(parts) : ~parts[j].open

(* A part remembers whose words it holds; text ids are the same in every     *)
(* step and every turn (txt_0, blk_0), so a delta goes to the newest key.    *)
FoldParts(parts, c) ==
    IF c.type = "text-start" THEN Append(parts, [open |-> TRUE, of |-> {}])
    ELSE IF c.type = "tool" THEN Append(parts, [open |-> FALSE, of |-> {c.turn}])
    ELSE [i \in 1 .. Len(parts) |->
            [open |-> parts[i].open /\ c.type # "finish-step",
             of   |-> IF c.type = "text-delta" /\ IsNewest(i, parts)
                      THEN parts[i].of \cup {c.turn} ELSE parts[i].of]]

FoldStatus(status, c) ==
    IF c.type = "error" THEN "error"
    ELSE IF c.type = "finish" /\ status = "streaming" THEN "done" ELSE status

reduceChunk(msg, c) ==
    [msg EXCEPT !.parts = FoldParts(@, c), !.status = FoldStatus(@, c)]

(* What ends a fetch: the last event, a refusal, a broken connection. *)
Ending == {"DONE", "refused", "broken"}

-----------------------------------------------------------------------------
(* The page (AgentChat.tsx).                                               *)

(* Mutant: the parts of the turn before stay. *)
keepParts(t) == [own |-> t, status |-> "streaming", parts |-> page.pending.parts]

emptyStreamingMessage(t) == [own |-> t, status |-> "streaming", parts |-> <<>>]

(* setPending and abortRef at the start of runTurn; the turn posts. *)
RunTurn(c, t) ==
    page' = [chat |-> c, abort |-> t, pending |-> emptyStreamingMessage(t)]

(* The page moves on: turns that are not over yet are left behind.  Nothing    *)
(* in the code notes it; it is recorded for the properties.                  *)
Leave(ts) ==
    [t \in DOMAIN ts |-> [ts[t] EXCEPT !.left = @ \/ ts[t].client # "over"]]

(* Enter or the send button, while no turn is streaming. *)
CanSend == ~streaming /\ left.turns > 0

Spend == left' = [left EXCEPT !.turns = @ - 1]

Send ==
    /\ CanSend /\ page.chat # NoChat
    /\ turns' = Append(Leave(turns), Turn(page.chat, "submit-message", 0, "reading"))
    /\ chunks' = Append(chunks, <<>>)
    /\ RunTurn(page.chat, Len(turns) + 1)
    /\ Spend
    /\ UNCHANGED <<chats, messages, busy, clock, action, approval>>

(* Without a chat one is created first; until it is there the page neither   *)
(* streams nor has emptied its input.                                        *)
SendFirst ==
    /\ CanSend /\ page.chat = NoChat
    /\ turns' = Append(Leave(turns), Turn(NoChat, "submit-message", 0, "creating"))
    /\ chunks' = Append(chunks, <<>>)
    /\ Spend
    /\ UNCHANGED <<page, chats, messages, busy, clock, action, approval>>

(* CreateAIChat and its answer: setChatId, whatever is open by now. *)
Created(t, c) ==
    /\ turns[t].client = "creating"
    /\ \A u \in Started : turns[u].chat < c
    /\ c > 1 => \E u \in Started : turns[u].chat = c - 1
    /\ chats' = chats \cup {c}
    /\ turns' = [turns EXCEPT ![t].chat = c, ![t].client = "reading", ![t].server = "store"]
    /\ RunTurn(c, t)
    /\ UNCHANGED <<chunks, messages, busy, clock, action, approval, left>>

Assistant(c) == {m \in messages : m.chat = c /\ m.role = "assistant"}

(* The button of the last answer. *)
Regenerate ==
    /\ CanSend /\ Assistant(page.chat) # {}
    /\ \E m \in Assistant(page.chat) :
         /\ \A n \in Assistant(page.chat) : n.id <= m.id
         /\ turns' = Append(Leave(turns), Turn(page.chat, "regenerate-message", m.id, "reading"))
    /\ chunks' = Append(chunks, <<>>)
    /\ RunTurn(page.chat, Len(turns) + 1)
    /\ Spend
    /\ UNCHANGED <<chats, messages, busy, clock, action, approval>>

(* A chat of the list, the open one too, or the button for a new one: nothing *)
(* is aborted.                                                               *)
Open(c) ==
    /\ c \in chats \cup {NoChat}
    /\ page' = [page EXCEPT !.chat = c, !.pending = NoPending]
    /\ turns' = Leave(turns)
    /\ UNCHANGED <<chunks, chats, messages, busy, clock, action, approval, left>>

(* The stop button, shown while streaming: abortRef.current?.abort(). *)
Stop ==
    /\ left.stops > 0 /\ left' = [left EXCEPT !.stops = @ - 1]
    /\ streaming /\ page.abort # 0
    /\ ~turns[page.abort].aborted
    /\ turns' = [turns EXCEPT ![page.abort].aborted = TRUE]
    /\ UNCHANGED <<page, chunks, chats, messages, busy, clock, action, approval>>

(* onChunk: folded into whatever message is pending now. *)
Receive(t) ==
    /\ turns[t].client = "reading" /\ chunks[t] # <<>>
    /\ Head(chunks[t]).type \notin Ending
    /\ chunks' = [chunks EXCEPT ![t] = Tail(@)]
    /\ page' = IF page.pending = NoPending THEN page
               ELSE [page EXCEPT !.pending = reduceChunk(@, Head(chunks[t]))]
    /\ UNCHANGED <<turns, chats, messages, busy, clock, action, approval, left>>

(* streamChat returns or throws: catch, and the start of finally. *)
Ends(t) ==
    /\ turns[t].client = "reading"
    /\ turns[t].aborted \/ (chunks[t] # <<>> /\ Head(chunks[t]).type \in Ending)
    /\ page' = [page EXCEPT !.abort = 0,
                  !.pending = IF ~turns[t].aborted /\ Head(chunks[t]).type # "DONE"
                                 /\ @ # NoPending
                              THEN [@ EXCEPT !.status = "error"] ELSE @]
    /\ turns' = [turns EXCEPT ![t].client = "closing"]
    /\ chunks' = [chunks EXCEPT ![t] = <<>>]
    /\ UNCHANGED <<chats, messages, busy, clock, action, approval, left>>

(* Mutant: only an answer that finished is cleared. *)
AfterDone(pending) == IF pending.status = "done" THEN NoPending ELSE pending

(* The queries are fetched anew, then the pending message goes away unless   *)
(* it carries an error.                                                      *)
AfterTurn(pending) == IF pending.status = "error" THEN pending ELSE NoPending

Settle(t) ==
    /\ turns[t].client = "closing"
    /\ turns' = [turns EXCEPT ![t].client = "over"]
    /\ page' = [page EXCEPT !.pending = AfterTurn(@)]
    /\ UNCHANGED <<chunks, chats, messages, busy, clock, action, approval, left>>

CanDelete == left.deletes > 0
SpendDelete == left' = [left EXCEPT !.deletes = @ - 1]

(* The chat and its messages go; an open stream of it goes on. *)
DeleteChat(c) ==
    /\ CanDelete /\ c \in chats
    /\ chats' = chats \ {c}
    /\ messages' = {m \in messages : m.chat # c}
    /\ page' = IF page.chat = c THEN [page EXCEPT !.chat = NoChat] ELSE page
    /\ SpendDelete
    /\ UNCHANGED <<turns, chunks, busy, clock, action, approval>>

DeleteMessage(m) ==
    /\ CanDelete /\ m.chat = page.chat
    /\ messages' = messages \ {m}
    /\ SpendDelete
    /\ UNCHANGED <<page, turns, chunks, chats, busy, clock, action, approval>>

-----------------------------------------------------------------------------
(* The handler of POST /ai/chat (aichat.go, agentloop.go).                 *)

(* What a handler does: server moves on and writes to whoever still reads. *)
Emit(t, cs) ==
    chunks' = IF turns[t].client = "reading"
              THEN [chunks EXCEPT ![t] = @ \o cs] ELSE chunks

Says(types, t) == [i \in 1 .. Len(types) |-> Chunk(types[i], t)]

(* A problem response instead of a stream; also what a cancelled request gets. *)
Refuse(t) ==
    /\ turns' = [turns EXCEPT ![t].server = "gone"]
    /\ Emit(t, Says(<<"refused">>, t))

(* The database may refuse, too. *)
Fault == left.faults > 0 /\ left' = [left EXCEPT !.faults = @ - 1]
Fails(cause) == (cause /\ UNCHANGED left) \/ Fault

(* The chat is looked up and the user message appended; without the chat, once *)
(* the request is cancelled or when the database refuses, there is none.      *)
StoreUser(t) ==
    /\ turns[t].server = "store" /\ turns[t].trigger = "submit-message"
    /\ \/ /\ turns[t].chat \in chats
          /\ messages' = messages \cup
                {[chat |-> turns[t].chat, id |-> clock, role |-> "user", turn |-> t]}
          /\ clock' = clock + 1
          /\ turns' = [turns EXCEPT ![t].server = "list"]
          /\ UNCHANGED <<chunks, left>>
       \/ /\ Fails(turns[t].chat \notin chats \/ turns[t].aborted)
          /\ Refuse(t)
          /\ UNCHANGED <<messages, clock>>
    /\ UNCHANGED <<page, chats, busy, action, approval>>

(* DeleteAIChatMessagesFrom: the answer and everything after it. *)
CutFrom(t) ==
    /\ turns[t].server = "store" /\ turns[t].trigger = "regenerate-message"
    /\ \/ /\ turns[t].chat \in chats
          /\ messages' = {m \in messages : m.chat = turns[t].chat => m.id < turns[t].target}
          /\ turns' = [turns EXCEPT ![t].server = "list"]
          /\ UNCHANGED <<chunks, left>>
       \/ /\ Fails(turns[t].chat \notin chats \/ turns[t].aborted)
          /\ Refuse(t)
          /\ UNCHANGED messages
    /\ UNCHANGED <<page, chats, busy, clock, action, approval>>

(* The history in the order of ids must end with a user message. *)
EndsWithUser(c) ==
    \E m \in messages : /\ m.chat = c /\ m.role = "user"
                        /\ \A n \in messages : n.chat = c => n.id <= m.id

ListHistory(t) ==
    /\ turns[t].server = "list"
    /\ \/ /\ EndsWithUser(turns[t].chat)
          /\ turns' = [turns EXCEPT ![t].server = "claim"]
          /\ UNCHANGED <<chunks, left>>
       \/ /\ Fails(~EndsWithUser(turns[t].chat) \/ turns[t].aborted)
          /\ Refuse(t)
    /\ UNCHANGED <<page, chats, messages, busy, clock, action, approval>>

(* How a turn fails inside the stream: an error, then the end. *)
Failed == <<"error", "finish-error", "DONE">>

(* chatStreams.LoadOrStore: one stream per chat. *)
Free(t) == busy[turns[t].chat] = 0

Busy(t) ==
    /\ turns[t].server = "claim" /\ ~Free(t)
    /\ turns' = [turns EXCEPT ![t].server = "gone"]
    /\ Emit(t, Says(Failed, t))
    /\ UNCHANGED <<page, chats, messages, busy, clock, action, approval, left>>

(* The id of the answer is taken before anything is streamed.  (The chunks    *)
(* start and start-step change nothing on the page and are left out.)        *)
Claim(t) ==
    /\ turns[t].server = "claim" /\ Free(t)
    /\ busy' = [busy EXCEPT ![turns[t].chat] = t]
    /\ turns' = [turns EXCEPT ![t].server = "round", ![t].id = clock]
    /\ clock' = clock + 1
    /\ UNCHANGED <<page, chunks, chats, messages, action, approval, left>>

(* Once it has answered with its headers nothing bounds how long a provider    *)
(* stays silent: the stream has no deadline, only the context of the request. *)
Stalls(t) ==
    /\ turns[t].server = "round"
    /\ Fault
    /\ turns' = [turns EXCEPT ![t].server = "stalled"]
    /\ UNCHANGED <<page, chunks, chats, messages, busy, clock, action, approval>>

(* It goes on or breaks off. *)
Resumes(t) ==
    /\ turns[t].server = "stalled"
    /\ turns' = [turns EXCEPT ![t].server = "round"]
    /\ UNCHANGED <<page, chunks, chats, messages, busy, clock, action, approval, left>>

(* Text of the round: streamed at once, kept by StreamRound until it returns. *)
Speaks(t) ==
    /\ turns[t].server = "round" /\ ~turns[t].spoke
    /\ turns' = [turns EXCEPT ![t].spoke = TRUE]
    /\ Emit(t, Says(<<"text-start", "text-delta">>, t))
    /\ UNCHANGED <<page, chats, messages, busy, clock, action, approval, left>>

(* A round that calls no tool is the last one. *)
LastRound(t) ==
    /\ turns[t].server = "round"
    /\ turns' = [turns EXCEPT ![t].server = "persist", ![t].kept = @ \/ turns[t].spoke]
    /\ Emit(t, Says(<<"finish-step">>, t))
    /\ UNCHANGED <<page, chats, messages, busy, clock, action, approval, left>>

(* Mutant: one round too many. *)
IsPastLast(t) == turns[t].round = MaxRounds

IsLast(t) == turns[t].round + 1 = MaxRounds

(* A round that calls a tool: it runs, or is proposed; the turn goes on, at   *)
(* most for MaxRounds.                                                       *)
ToolRound(t) ==
    /\ turns[t].server = "round"
    /\ left.tools > 0
    /\ \/ /\ left' = [left EXCEPT !.tools = @ - 1]
          /\ UNCHANGED action
       \/ /\ left.proposals > 0 /\ action.status = "none"
          /\ left' = [left EXCEPT !.tools = @ - 1, !.proposals = @ - 1]
          /\ action' = [action EXCEPT !.status = "proposed"]
    /\ turns' = [turns EXCEPT ![t].server = IF IsLast(t) THEN "persist" ELSE "round",
                              ![t].round = @ + 1, ![t].spoke = FALSE, ![t].kept = TRUE]
    /\ Emit(t, Says(IF IsLast(t) THEN <<"tool", "finish-step", "error">>
                    ELSE <<"tool", "finish-step">>, t))
    /\ UNCHANGED <<page, chats, messages, busy, clock, approval>>

(* Mutant: a round that says nothing counts as an empty answer. *)
SilentRound(t) == ~turns[t].spoke

(* Nothing but the step-start of the first round (len(parts) <= 1). *)
NoPartsYet(t) == turns[t].round = 0

(* StreamRound fails: the provider, the budget, or the client has gone.  In   *)
(* the first round there is nothing but the step-start, and nothing is kept.  *)
RoundFails(t) ==
    /\ turns[t].server = "round"
    /\ \/ /\ NoPartsYet(t)
          /\ turns' = [turns EXCEPT ![t].server = "gone"]
          /\ busy' = [busy EXCEPT ![turns[t].chat] = 0]
          /\ Emit(t, Says(Failed, t))
       \/ /\ ~NoPartsYet(t)
          /\ turns' = [turns EXCEPT ![t].server = "persist"]
          /\ Emit(t, Says(IF turns[t].aborted THEN <<>> ELSE <<"error">>, t))
          /\ UNCHANGED busy
    /\ UNCHANGED <<page, chats, messages, clock, action, approval, left>>

(* persist, under a context of its own: the row, then the end of the stream.  *)
Persist(t) ==
    /\ turns[t].server = "persist" /\ turns[t].chat \in chats
    /\ messages' = messages \cup
          {[chat |-> turns[t].chat, id |-> turns[t].id, role |-> "assistant", turn |-> t]}
    /\ busy' = [busy EXCEPT ![turns[t].chat] = 0]
    /\ turns' = [turns EXCEPT ![t].server = "stored"]
    /\ Emit(t, Says(<<"finish", "DONE">>, t))
    /\ UNCHANGED <<page, chats, clock, action, approval, left>>

(* The chat was deleted meanwhile, the database refuses the row or does not    *)
(* answer within ten seconds: nothing is tried again.                        *)
PersistFails(t) ==
    /\ turns[t].server = "persist"
    /\ Fails(turns[t].chat \notin chats)
    /\ busy' = [busy EXCEPT ![turns[t].chat] = 0]
    /\ turns' = [turns EXCEPT ![t].server = "lost"]
    /\ Emit(t, Says(Failed, t))
    /\ UNCHANGED <<page, chats, messages, clock, action, approval>>

-----------------------------------------------------------------------------
(* Approvals (api/ai.go, service.go).                                      *)

(* Mutant: the decision does not look at the status. *)
AnyStatus == action.status # "none"

(* DecideAIAction only moves a proposal: the second decision gets a 404. *)
Undecided == action.status = "proposed"

Approve(p) ==
    /\ approval[p] = "idle" /\ Undecided
    /\ action' = [action EXCEPT !.status = "approved"]
    /\ approval' = [approval EXCEPT ![p] = "execute"]
    /\ UNCHANGED <<page, turns, chunks, chats, messages, busy, clock, left>>

Deny(p) ==
    /\ approval[p] = "idle" /\ Undecided
    /\ action' = [action EXCEPT !.status = "denied"]
    /\ UNCHANGED <<page, turns, chunks, chats, messages, busy, clock, approval, left>>

(* ExecuteApproved: the row is read again, the approver's permission looked   *)
(* at, the tool run.                                                         *)
Execute(p) ==
    /\ approval[p] = "execute" /\ action.status = "approved"
    /\ action' = [action EXCEPT !.runs = @ + 1]
    /\ approval' = [approval EXCEPT ![p] = "finish"]
    /\ UNCHANGED <<page, turns, chunks, chats, messages, busy, clock, left>>

(* No permission, an unknown tool, a request that was cancelled: the action   *)
(* stays approved.                                                           *)
ExecuteRefused(p) ==
    /\ approval[p] = "execute"
    /\ approval' = [approval EXCEPT ![p] = "idle"]
    /\ UNCHANGED <<page, turns, chunks, chats, messages, busy, clock, action, left>>

(* FinishAIAction, whose error is dropped. *)
Finish(p) ==
    /\ approval[p] = "finish"
    /\ \E s \in {"executed", "failed", action.status} : action' = [action EXCEPT !.status = s]
    /\ approval' = [approval EXCEPT ![p] = "idle"]
    /\ UNCHANGED <<page, turns, chunks, chats, messages, busy, clock, left>>

-----------------------------------------------------------------------------
(* The process restarts: handlers and chatStreams are gone, connections break. *)
Running == {"store", "list", "claim", "round", "stalled", "persist"}

Restart ==
    /\ left.restarts > 0
    /\ left' = [left EXCEPT !.restarts = @ - 1]
    /\ turns' = [t \in DOMAIN turns |-> IF turns[t].server \in Running
                     THEN [turns[t] EXCEPT !.server = "gone", !.broken = TRUE] ELSE turns[t]]
    /\ chunks' = [t \in DOMAIN turns |-> IF turns[t].server \in Running /\ turns[t].client = "reading"
                     THEN Append(chunks[t], Chunk("broken", t)) ELSE chunks[t]]
    /\ busy' = [c \in Chats |-> 0]
    /\ approval' = [p \in Approvers |-> "idle"]
    /\ UNCHANGED <<page, chats, messages, clock, action>>

Handler(t) ==
    \/ StoreUser(t) \/ CutFrom(t) \/ ListHistory(t) \/ Busy(t) \/ Claim(t)
    \/ Speaks(t) \/ LastRound(t) \/ ToolRound(t) \/ RoundFails(t)
    \/ Persist(t) \/ PersistFails(t)

Reader(t) == Receive(t) \/ Ends(t) \/ Settle(t)

Approval(p) == Approve(p) \/ Deny(p) \/ Execute(p) \/ ExecuteRefused(p) \/ Finish(p)

Next ==
    \/ Send \/ SendFirst \/ Regenerate \/ Stop \/ Restart
    \/ \E t \in Started : \/ Handler(t) \/ Stalls(t) \/ Resumes(t) \/ Reader(t)
                          \/ \E c \in Chats : Created(t, c)
    \/ \E c \in Chats \cup {NoChat} : Open(c)
    \/ \E c \in Chats : DeleteChat(c)
    \/ \E m \in messages : DeleteMessage(m)
    \/ \E p \in Approvers : Approval(p)

(* The database and the tools answer, callbacks run.  A provider that stalls     *)
(* need not go on, unless the request is cancelled: then StreamRound returns.  *)
Goes(t) == t \in Started /\ (Handler(t) \/ (turns[t].aborted /\ Resumes(t)))

Fairness ==
    \A t \in 1 .. MaxTurns : WF_vars(Goes(t)) /\ WF_vars(t \in Started /\ Reader(t))

Spec == Init /\ [][Next]_vars /\ Fairness

-----------------------------------------------------------------------------
(* Type invariant. *)
TurnType ==
    [chat : Chats \cup {NoChat}, trigger : {"submit-message", "regenerate-message"},
     target : Nat, client : {"creating", "reading", "closing", "over"},
     server : Running \cup {"none", "gone", "lost", "stored"}, round : 0 .. MaxRounds,
     spoke : BOOLEAN, id : Nat, kept : BOOLEAN,
     aborted : BOOLEAN, left : BOOLEAN, broken : BOOLEAN]

ChunkTypes ==
    {"text-start", "text-delta", "tool", "finish-step",
     "error", "finish", "finish-error"} \cup Ending

TypeOK ==
    /\ page.chat \in Chats \cup {NoChat}
    /\ page.abort \in 0 .. Len(turns)
    /\ page.pending.own \in 0 .. Len(turns)
    /\ page.pending.status \in {"none", "streaming", "done", "error"}
    /\ page.pending.parts \in Seq([open : BOOLEAN, of : SUBSET (1 .. Len(turns))])
    /\ turns \in Seq(TurnType)
    /\ Len(turns) + left.turns <= MaxTurns
    /\ chunks \in [1 .. Len(turns) -> Seq([type : ChunkTypes, turn : 1 .. Len(turns)])]
    /\ chats \subseteq Chats
    /\ messages \subseteq [chat : Chats, id : Nat, role : {"user", "assistant"}, turn : 1 .. Len(turns)]
    /\ busy \in [Chats -> 0 .. Len(turns)]
    /\ clock \in Nat \ {0}
    /\ action.status \in {"none", "proposed", "approved", "denied", "executed", "failed"}
    /\ action.runs \in Nat
    /\ approval \in [Approvers -> {"idle", "execute", "finish"}]
    /\ left \in [turns : Nat, tools : Nat, proposals : Nat, stops : Nat, deletes : Nat,
               restarts : Nat, faults : Nat]

(* What the tools of a turn did goes into the transcript: after a finished round *)
(* no stop, no error of the provider and no second turn ends the handler before *)
(* it has tried to store its message; only a restart does (StreamChat).  The    *)
(* attempt itself may fail: such a turn is lost (persist).                    *)
WorkKept ==
    \A t \in Started :
        turns[t].kept /\ turns[t].server = "gone" => turns[t].broken

(* What the manual says: persistence always happens, as long as the chat is there *)
(* and the process runs.                                                     *)
PersistenceAlwaysHappens ==
    \A t \in Started :
        turns[t].kept /\ turns[t].server \in {"gone", "lost"} =>
            turns[t].chat \notin chats \/ turns[t].broken

(* As long as the user waits for every turn to settle before the next step,   *)
(* the page shows the words of the turn in flight and nothing else, and the   *)
(* stop button stops that turn (runTurn, setPending, abortRef).               *)
PendingIsTheTurn ==
    (\A t \in Started : ~turns[t].left) =>
        /\ \A i \in 1 .. Len(page.pending.parts) : page.pending.parts[i].of \subseteq {page.pending.own}
        /\ streaming /\ turns[page.pending.own].client = "reading" => page.abort = page.pending.own

(* However many people decide at once, and wherever a request dies, a         *)
(* proposal runs at most once, and only when it was approved (DecideAIAction, *)
(* ExecuteApproved).                                                          *)
RunsOnce ==
    /\ action.runs <= 1
    /\ action.runs = 1 => action.status \in {"approved", "executed", "failed"}

(* At most one handler answers in a chat at a time (ErrChatBusy). *)
OneStream ==
    \A t, u \in Started :
        /\ {turns[t].server, turns[u].server} \subseteq {"round", "stalled", "persist"}
        /\ turns[t].chat = turns[u].chat
        => t = u

(* One answer at a time, on the server and on the page (StreamChat, runTurn). *)
OneAnswer == OneStream /\ PendingIsTheTurn

(* The provider is silent and the user has not pressed the stop button. *)
Silent ==
    /\ streaming
    /\ turns[page.pending.own].server = "stalled" /\ ~turns[page.pending.own].aborted

(* The page hangs in no turn but one whose provider never speaks again while the *)
(* user does not stop it: whatever else the provider, the user or a restart does, *)
(* the composer is unlocked again (runTurn, finally).                         *)
Unlocks == (streaming ~> ~streaming) \/ <>[]Silent

(* What the comment of streamHTTPClient says: contexts bound the total time. *)
EveryTurnEnds == streaming ~> ~streaming

=============================================================================
