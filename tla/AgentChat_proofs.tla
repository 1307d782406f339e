-------------------------- MODULE AgentChat_proofs --------------------------
(***************************************************************************)
(* What AgentChat promises, for every number of chats, turns, rounds and   *)
(* approvers.                                                              *)
(***************************************************************************)
EXTENDS AgentChat, SequenceTheorems, TLAPS

-----------------------------------------------------------------------------
(* The inductive invariant.                                                 *)

Word == [open : BOOLEAN, of : SUBSET Started]

(* A message that is pending belongs to a turn. *)
MessageType == [own : Started, status : {"streaming", "done", "error"}, parts : Seq(Word)]

PageType == [chat : Chats \cup {NoChat}, pending : {NoPending} \cup MessageType,
             abort : 0 .. Len(turns)]

ActionType == [status : {"none", "proposed", "approved", "denied", "executed", "failed"},
               runs : Nat]

LeftType ==
    [turns : Nat, tools : Nat, proposals : Nat, stops : Nat, deletes : Nat, restarts : Nat,
     faults : Nat]

MessageRows == [chat : Chats, id : Nat, role : {"user", "assistant"}, turn : Started]

ChunkOf(t) == [type : ChunkTypes, turn : {t}]

Typed ==
    /\ page \in PageType
    /\ turns \in Seq(TurnType)
    /\ Len(turns) + left.turns <= MaxTurns
    /\ chunks \in Seq(Seq([type : ChunkTypes, turn : Nat])) /\ Len(chunks) = Len(turns)
    /\ chats \subseteq Chats
    /\ messages \subseteq MessageRows
    /\ busy \in [Chats -> 0 .. Len(turns)]
    /\ clock \in Nat \ {0}
    /\ action \in ActionType
    /\ approval \in [Approvers -> {"idle", "execute", "finish"}]
    /\ left \in LeftType

(* What is on its way to the page belongs to the turn it is sent for. *)
OwnChunks == \A t \in Started : chunks[t] \in Seq(ChunkOf(t))

(* How far a handler is: something is kept from the end of its first round on. *)
AtPlace(turn) ==
    /\ turn.server = "none" <=> turn.client = "creating"
    /\ turn.chat \in (IF turn.server = "none" THEN {NoChat} ELSE Chats)
    /\ turn.server \in {"none", "store", "list", "claim"} => turn.round = 0 /\ ~turn.kept
    /\ turn.server \in {"round", "stalled"} =>
            turn.round < MaxRounds /\ (turn.kept <=> turn.round > 0)

InPlace == \A t \in Started : AtPlace(turns[t])

(* The map chatStreams names the handler that answers in a chat. *)
Answering(turn) == turn.server \in {"round", "stalled", "persist"}

Claimed == \A t \in Started : Answering(turns[t]) => busy[turns[t].chat] = t

NothingLeft == \A t \in Started : ~turns[t].left

(* As long as nothing is left behind, the turn in flight is the last one, and   *)
(* the pending message and the stop button are its own.                      *)
OnlyTheLast ==
    NothingLeft => \A t \in Started :
        /\ turns[t].client # "over" => t = Len(turns)
        /\ turns[t].client = "reading" => page.pending.own = t /\ page.abort = t

OwnWords ==
    NothingLeft =>
        \A i \in 1 .. Len(page.pending.parts) : page.pending.parts[i].of \subseteq {page.pending.own}

(* One approver at most is between the decision and its result. *)
OneApprover ==
    /\ \A p, q \in Approvers : approval[p] # "idle" /\ approval[q] # "idle" => p = q
    /\ \A p \in Approvers :
        /\ approval[p] = "execute" => action.status = "approved" /\ action.runs = 0
        /\ approval[p] = "finish" => action.status = "approved" /\ action.runs = 1
    /\ action.status \in {"none", "proposed"} =>
            action.runs = 0 /\ \A p \in Approvers : approval[p] = "idle"

ChatInv ==
    /\ Typed /\ OwnChunks /\ InPlace /\ Claimed /\ WorkKept
    /\ OnlyTheLast /\ OwnWords /\ OneApprover /\ RunsOnce

-----------------------------------------------------------------------------
(* Sequences of turns and of chunks.                                        *)

LEMMA IsSequence ==
    ASSUME NEW S, NEW n \in Nat, NEW f, f = [i \in 1 .. n |-> f[i]], \A i \in 1 .. n : f[i] \in S
    PROVE  f \in Seq(S) /\ Len(f) = n
OBVIOUS

(* What Leave changes: nothing but the mark of the turns that are not over. *)
LEMMA Leaving ==
    ASSUME NEW ts \in Seq(TurnType)
    PROVE  /\ Leave(ts) \in Seq(TurnType) /\ Len(Leave(ts)) = Len(ts)
           /\ \A t \in 1 .. Len(ts) :
                /\ Leave(ts)[t].chat = ts[t].chat /\ Leave(ts)[t].client = ts[t].client
                /\ Leave(ts)[t].server = ts[t].server /\ Leave(ts)[t].round = ts[t].round
                /\ Leave(ts)[t].kept = ts[t].kept /\ Leave(ts)[t].broken = ts[t].broken
                /\ (Leave(ts)[t].left <=> ts[t].left \/ ts[t].client # "over")
<1> DEFINE l == Leave(ts)
<1>1. l = [t \in 1 .. Len(ts) |-> l[t]]
  BY DEF Leave
<1>2. ASSUME NEW t \in 1 .. Len(ts)
      PROVE  /\ l[t] = [ts[t] EXCEPT !.left = ts[t].left \/ ts[t].client # "over"]
             /\ ts[t] \in TurnType
  BY DEF Leave
<1>3. ASSUME NEW t \in 1 .. Len(ts)
      PROVE  /\ l[t] \in TurnType
             /\ l[t].chat = ts[t].chat /\ l[t].client = ts[t].client
             /\ l[t].server = ts[t].server /\ l[t].round = ts[t].round
             /\ l[t].kept = ts[t].kept /\ l[t].broken = ts[t].broken
             /\ (l[t].left <=> ts[t].left \/ ts[t].client # "over")
  <2> DEFINE b == ts[t].left \/ ts[t].client # "over"
  <2>1. ts[t] \in TurnType /\ b \in BOOLEAN
    BY <1>2
  <2>2. l[t] = [ts[t] EXCEPT !.left = b]
    BY <1>2
  <2> HIDE DEF l, b
  <2>3. l[t] \in TurnType /\ (l[t].left <=> b)
    BY <2>1, <2>2 DEF TurnType
  <2>4. /\ l[t].chat = ts[t].chat /\ l[t].client = ts[t].client
        /\ l[t].server = ts[t].server /\ l[t].round = ts[t].round
        /\ l[t].kept = ts[t].kept /\ l[t].broken = ts[t].broken
    BY <2>1, <2>2 DEF TurnType
  <2> QED
    BY <2>3, <2>4 DEF b
<1>4. l \in Seq(TurnType) /\ Len(l) = Len(ts)
  <2> HIDE DEF l
  <2> QED
    BY <1>1, <1>3, IsSequence
<1> QED
  BY <1>3, <1>4

(* A handler that only moves on. *)
LEMMA MovesOn ==
    ASSUME turns \in Seq(TurnType), NEW t \in Started,
           NEW s \in Running \cup {"none", "gone", "lost", "stored"},
           turns' = [turns EXCEPT ![t].server = s]
    PROVE  /\ turns' \in Seq(TurnType) /\ Len(turns') = Len(turns)
           /\ \A u \in Started : u # t => turns'[u] = turns[u]
           /\ turns'[t].server = s
           /\ turns'[t].chat = turns[t].chat /\ turns'[t].client = turns[t].client
           /\ turns'[t].round = turns[t].round /\ turns'[t].kept = turns[t].kept
           /\ turns'[t].left = turns[t].left /\ turns'[t].broken = turns[t].broken
<1> DEFINE new == [turns[t] EXCEPT !.server = s]
<1>1. turns[t] \in TurnType /\ turns' = [turns EXCEPT ![t] = new]
  BY DEF Started
<1>2. /\ new \in TurnType /\ new.server = s
      /\ new.chat = turns[t].chat /\ new.client = turns[t].client
      /\ new.round = turns[t].round /\ new.kept = turns[t].kept
      /\ new.left = turns[t].left /\ new.broken = turns[t].broken
  BY <1>1 DEF TurnType
<1> HIDE DEF new
<1> QED
  BY <1>1, <1>2, ExceptSeq DEF Started

LEMMA SaysIs ==
    ASSUME NEW types \in Seq(ChunkTypes), NEW t
    PROVE  Says(types, t) \in Seq(ChunkOf(t))
<1> DEFINE s == Says(types, t)
<1>1. s = [i \in 1 .. Len(types) |-> s[i]] /\ Len(types) \in Nat
  BY DEF Says
<1>2. \A i \in 1 .. Len(types) : s[i] \in ChunkOf(t)
  BY DEF Says, Chunk, ChunkOf
<1> HIDE DEF s
<1>3. s \in Seq(ChunkOf(t))
  BY <1>1, <1>2, IsSequence
<1> QED
  BY <1>3 DEF s

ChunksTyped ==
    /\ chunks \in Seq(Seq([type : ChunkTypes, turn : Nat])) /\ Len(chunks) = Len(turns)
    /\ OwnChunks

LEMMA AnyChunk ==
    ASSUME NEW t \in Nat
    PROVE  Seq(ChunkOf(t)) \subseteq Seq([type : ChunkTypes, turn : Nat])
<1>1. ChunkOf(t) \subseteq [type : ChunkTypes, turn : Nat]
  BY DEF ChunkOf
<1> QED
  BY <1>1, SeqMonotonic

(* What is written for one turn. *)
LEMMA Written ==
    ASSUME ChunksTyped, turns \in Seq(TurnType), NEW t \in Started, NEW cs \in Seq(ChunkOf(t)),
           chunks' = [chunks EXCEPT ![t] = cs], Len(turns') = Len(turns)
    PROVE  ChunksTyped'
<1>1. cs \in Seq([type : ChunkTypes, turn : Nat]) /\ Started' = Started
  <2>1. t \in Nat
    BY DEF Started
  <2>2. Seq(ChunkOf(t)) \subseteq Seq([type : ChunkTypes, turn : Nat])
    BY <2>1, AnyChunk
  <2> QED
    BY <2>2 DEF Started
<1>2. /\ chunks' \in Seq(Seq([type : ChunkTypes, turn : Nat])) /\ Len(chunks') = Len(chunks)
      /\ \A u \in Started : chunks'[u] = IF u = t THEN cs ELSE chunks[u]
  BY <1>1, ExceptSeq DEF ChunksTyped, Started
<1>3. \A u \in Started : chunks'[u] \in Seq(ChunkOf(u))
  BY <1>2 DEF ChunksTyped, OwnChunks
<1> QED
  BY <1>1, <1>2, <1>3 DEF ChunksTyped, OwnChunks

LEMMA Emitted ==
    ASSUME ChunksTyped, turns \in Seq(TurnType), NEW t \in Started, NEW types \in Seq(ChunkTypes),
           Emit(t, Says(types, t)), Len(turns') = Len(turns)
    PROVE  ChunksTyped'
<1>1. CASE turns[t].client = "reading"
  <2>1. chunks[t] \in Seq(ChunkOf(t)) /\ Says(types, t) \in Seq(ChunkOf(t))
    BY SaysIs DEF ChunksTyped, OwnChunks
  <2> DEFINE cs == chunks[t] \o Says(types, t)
  <2>2. cs \in Seq(ChunkOf(t))
    BY <2>1, ConcatProperties
  <2>3. chunks' = [chunks EXCEPT ![t] = cs]
    BY <1>1 DEF Emit
  <2> HIDE DEF cs
  <2> QED
    BY <2>2, <2>3, Written
<1>2. CASE turns[t].client # "reading"
  BY <1>2 DEF Emit, ChunksTyped, OwnChunks, Started
<1> QED
  BY <1>1, <1>2

-----------------------------------------------------------------------------
(* The steps of a handler.                                                  *)

LEMMA TurnIs ==
    ASSUME ChatInv, NEW t \in Started
    PROVE  /\ turns \in Seq(TurnType) /\ Len(turns) \in Nat /\ t \in Nat \ {0}
           /\ turns[t] \in TurnType /\ AtPlace(turns[t]) /\ ChunksTyped
BY DEF ChatInv, Typed, InPlace, ChunksTyped, Started

(* What the steps of a handler have in common: one turn moves, with its own     *)
(* chunks and its own entry in chatStreams.                                  *)
LEMMA HandlerStep ==
    ASSUME ChatInv, NEW t \in Started,
           turns' \in Seq(TurnType), Len(turns') = Len(turns),
           \A u \in Started : u # t => turns'[u] = turns[u],
           turns'[t].chat = turns[t].chat, turns'[t].client = turns[t].client,
           turns'[t].left = turns[t].left,
           AtPlace(turns'[t]),
           turns'[t].kept /\ turns'[t].server = "gone" => turns'[t].broken,
           busy' \in [Chats -> 0 .. Len(turns)],
           \A c \in Chats : busy'[c] = busy[c] \/ (c = turns[t].chat /\ busy[c] \in {0, t}),
           Answering(turns'[t]) => busy'[turns[t].chat] = t,
           ChunksTyped',
           messages' \subseteq MessageRows, clock' \in Nat \ {0},
           left' \in LeftType, left'.turns = left.turns,
           action' = action \/ (action.status = "none" /\ action' = [action EXCEPT !.status = "proposed"]),
           UNCHANGED <<page, chats, approval>>
    PROVE  ChatInv'
<1>1. Started' = Started /\ (NothingLeft' <=> NothingLeft)
      /\ \A u \in Started : /\ turns'[u].chat = turns[u].chat
                            /\ turns'[u].client = turns[u].client
                            /\ turns'[u].left = turns[u].left
  BY DEF Started, NothingLeft
<1>2. /\ action' \in ActionType /\ action'.runs = action.runs
      /\ action' = action \/ (action.status = "none" /\ action'.status = "proposed")
  BY DEF ChatInv, Typed, ActionType
<1>3. Typed' /\ OwnChunks'
  <2>1. PageType' = PageType /\ MessageRows' = MessageRows
    BY <1>1 DEF PageType, MessageType, MessageRows, Word
  <2> QED
    BY <1>2, <2>1 DEF ChatInv, Typed, ChunksTyped
<1>5. InPlace' /\ WorkKept'
  BY <1>1 DEF ChatInv, InPlace, WorkKept
<1>6. Claimed'
  <2>1. ASSUME NEW u \in Started, Answering(turns'[u]), u # t
        PROVE  busy'[turns'[u].chat] = u
    <3>1. Answering(turns[u]) /\ turns'[u].chat = turns[u].chat
      BY <2>1
    <3>2. busy[turns[u].chat] = u /\ turns[u].chat \in Chats /\ u # 0
      BY <3>1, TurnIs DEF ChatInv, Claimed, AtPlace, Answering
    <3> QED
      BY <2>1, <3>1, <3>2
  <2> QED
    BY <1>1, <2>1 DEF Claimed
<1>7. OnlyTheLast' /\ OwnWords'
  BY <1>1 DEF ChatInv, OnlyTheLast, OwnWords
<1>8. OneApprover' /\ RunsOnce'
  BY <1>2 DEF ChatInv, OneApprover, RunsOnce
<1> QED
  BY <1>3, <1>5, <1>6, <1>7, <1>8 DEF ChatInv

(* A handler that moves on from one place to the next, or gives up. *)
LEMMA MoveStep ==
    ASSUME ChatInv, NEW t \in Started,
           NEW s \in {"list", "claim", "round", "stalled", "persist", "stored", "gone", "lost"},
           turns' = [turns EXCEPT ![t].server = s],
           turns[t].server # "none",
           s \in {"list", "claim"} => turns[t].server \in {"store", "list"},
           s \in {"round", "stalled"} => turns[t].server \in {"round", "stalled"},
           s = "persist" => Answering(turns[t]),
           s = "gone" => ~turns[t].kept,
           \/ busy' = busy
           \/ /\ busy' = [busy EXCEPT ![turns[t].chat] = 0]
              /\ Answering(turns[t]) /\ s \in {"stored", "gone", "lost"},
           NEW types \in Seq(ChunkTypes), chunks' = chunks \/ Emit(t, Says(types, t)),
           messages' \subseteq MessageRows, clock' \in Nat \ {0},
           left' = left \/ (left' \in LeftType /\ left'.turns = left.turns),
           UNCHANGED <<page, chats, action, approval>>
    PROVE  ChatInv'
<1>1. /\ turns \in Seq(TurnType) /\ AtPlace(turns[t]) /\ ChunksTyped
      /\ busy \in [Chats -> 0 .. Len(turns)] /\ Len(turns) \in Nat
  BY TurnIs DEF ChatInv, Typed
<1>2. /\ turns' \in Seq(TurnType) /\ Len(turns') = Len(turns)
      /\ \A u \in Started : u # t => turns'[u] = turns[u]
      /\ turns'[t].server = s
      /\ turns'[t].chat = turns[t].chat /\ turns'[t].client = turns[t].client
      /\ turns'[t].round = turns[t].round /\ turns'[t].kept = turns[t].kept
      /\ turns'[t].left = turns[t].left /\ turns'[t].broken = turns[t].broken
  BY <1>1, MovesOn DEF Running
<1>3. AtPlace(turns'[t])
  BY <1>1, <1>2 DEF AtPlace, Answering
<1>4. ChunksTyped'
  <2>1. CASE chunks' = chunks
    BY <1>1, <1>2, <2>1 DEF ChunksTyped, OwnChunks, Started
  <2> QED
    BY <1>1, <1>2, <2>1, Emitted
<1>5. /\ busy' \in [Chats -> 0 .. Len(turns)]
      /\ \A c \in Chats : busy'[c] = busy[c] \/ (c = turns[t].chat /\ busy[c] \in {0, t})
  BY <1>1 DEF ChatInv, Claimed
<1>6. Answering(turns'[t]) => busy'[turns[t].chat] = t
  BY <1>2 DEF ChatInv, Claimed, Answering
<1>7. left' \in LeftType /\ left'.turns = left.turns
  BY DEF ChatInv, Typed
<1> QED
  BY <1>2, <1>3, <1>4, <1>5, <1>6, <1>7, HandlerStep

LEMMA TypesAre ==
    /\ <<"refused">> \in Seq(ChunkTypes) /\ <<>> \in Seq(ChunkTypes)
    /\ <<"error">> \in Seq(ChunkTypes) /\ <<"finish-step">> \in Seq(ChunkTypes)
    /\ <<"finish", "DONE">> \in Seq(ChunkTypes) /\ <<"text-start", "text-delta">> \in Seq(ChunkTypes)
    /\ <<"tool", "finish-step">> \in Seq(ChunkTypes)
    /\ <<"tool", "finish-step", "error">> \in Seq(ChunkTypes)
    /\ Failed \in Seq(ChunkTypes)
BY DEF ChunkTypes, Ending, Failed

(* Something fails, and a fault is spent or not. *)
LEMMA FaultIs ==
    ASSUME ChatInv, left' = left \/ Fault
    PROVE  left' = left \/ (left' \in LeftType /\ left'.turns = left.turns)
<1>1. CASE Fault
  <2>1. left.faults > 0 /\ left' = [left EXCEPT !.faults = left.faults - 1] /\ left \in LeftType
    BY <1>1 DEF Fault, ChatInv, Typed
  <2>2. left.faults - 1 \in Nat
    BY <2>1 DEF LeftType
  <2> QED
    BY <2>1, <2>2 DEF LeftType
<1> QED
  BY <1>1

LEMMA RefuseStep ==
    ASSUME ChatInv, NEW t \in Started, Refuse(t), turns[t].server \in {"store", "list"},
           left' = left \/ Fault,
           UNCHANGED <<page, chats, messages, busy, clock, action, approval>>
    PROVE  ChatInv'
<1>1. messages \subseteq MessageRows /\ clock \in Nat \ {0} /\ ~turns[t].kept
  BY TurnIs DEF ChatInv, Typed, AtPlace
<1>2. turns' = [turns EXCEPT ![t].server = "gone"] /\ Emit(t, Says(<<"refused">>, t))
  BY DEF Refuse
<1> QED
  BY <1>1, <1>2, FaultIs, MoveStep, TypesAre

LEMMA Prepares ==
    ASSUME ChatInv, NEW t \in Started, StoreUser(t) \/ CutFrom(t) \/ ListHistory(t)
    PROVE  ChatInv'
<1>1. /\ messages \subseteq MessageRows /\ clock \in Nat \ {0} /\ turns[t].chat \in Chats
      /\ turns[t].server \in {"store", "list"}
  BY TurnIs DEF ChatInv, Typed, AtPlace, StoreUser, CutFrom, ListHistory
<1>2. CASE StoreUser(t)
  <2>1. CASE Refuse(t) /\ UNCHANGED <<messages, clock>>
    BY <1>1, <1>2, <2>1, RefuseStep DEF StoreUser, Fails
  <2>2. CASE ~(Refuse(t) /\ UNCHANGED <<messages, clock>>)
    <3>1. /\ messages' = messages \cup
                {[chat |-> turns[t].chat, id |-> clock, role |-> "user", turn |-> t]}
          /\ clock' = clock + 1 /\ turns' = [turns EXCEPT ![t].server = "list"]
          /\ chunks' = chunks /\ UNCHANGED <<page, chats, busy, action, approval, left>>
      BY <1>2, <2>2 DEF StoreUser
    <3>2. messages' \subseteq MessageRows /\ clock' \in Nat \ {0}
      BY <1>1, <3>1 DEF MessageRows
    <3> QED
      BY <1>1, <3>1, <3>2, MoveStep, TypesAre
  <2> QED
    BY <2>1, <2>2
<1>3. CASE CutFrom(t)
  <2>1. CASE Refuse(t) /\ UNCHANGED messages
    BY <1>1, <1>3, <2>1, RefuseStep DEF CutFrom, Fails
  <2>2. CASE ~(Refuse(t) /\ UNCHANGED messages)
    <3>1. /\ messages' \subseteq messages
          /\ turns' = [turns EXCEPT ![t].server = "list"]
          /\ chunks' = chunks /\ UNCHANGED <<page, chats, clock, busy, action, approval, left>>
      BY <1>3, <2>2 DEF CutFrom
    <3> QED
      BY <1>1, <3>1, MoveStep, TypesAre
  <2> QED
    BY <2>1, <2>2
<1>4. CASE ListHistory(t)
  <2>1. CASE Refuse(t)
    BY <1>1, <1>4, <2>1, RefuseStep DEF ListHistory, Fails
  <2>2. CASE ~Refuse(t)
    BY <1>1, <1>4, <2>2, MoveStep, TypesAre DEF ListHistory
  <2> QED
    BY <2>1, <2>2
<1> QED
  BY <1>2, <1>3, <1>4

LEMMA BusyStep ==
    ASSUME ChatInv, NEW t \in Started, Busy(t)
    PROVE  ChatInv'
<1>1. messages \subseteq MessageRows /\ clock \in Nat \ {0} /\ ~turns[t].kept
  BY TurnIs DEF ChatInv, Typed, AtPlace, Busy
<1> QED
  BY <1>1, MoveStep, TypesAre DEF Busy

LEMMA StallStep ==
    ASSUME ChatInv, NEW t \in Started, Stalls(t) \/ Resumes(t)
    PROVE  ChatInv'
<1>1. /\ messages \subseteq MessageRows /\ clock \in Nat \ {0}
      /\ UNCHANGED <<page, chunks, chats, messages, busy, clock, action, approval>>
      /\ left' = left \/ Fault
  BY DEF ChatInv, Typed, Stalls, Resumes
<1> QED
  BY <1>1, FaultIs, MoveStep, TypesAre DEF Stalls, Resumes

LEMMA RoundFailsStep ==
    ASSUME ChatInv, NEW t \in Started, RoundFails(t)
    PROVE  ChatInv'
<1>1. /\ messages \subseteq MessageRows /\ clock \in Nat \ {0} /\ AtPlace(turns[t])
      /\ turns[t].server = "round" /\ Answering(turns[t])
      /\ UNCHANGED <<page, chats, messages, clock, action, approval, left>>
  BY TurnIs DEF ChatInv, Typed, RoundFails, Answering
<1>2. CASE NoPartsYet(t)
  <2>1. ~turns[t].kept
    BY <1>1, <1>2 DEF AtPlace, NoPartsYet
  <2>2. /\ turns' = [turns EXCEPT ![t].server = "gone"]
        /\ busy' = [busy EXCEPT ![turns[t].chat] = 0] /\ Emit(t, Says(Failed, t))
    BY <1>2 DEF RoundFails
  <2> QED
    BY <1>1, <2>1, <2>2, MoveStep, TypesAre
<1>3. CASE ~NoPartsYet(t)
  <2>1. /\ turns' = [turns EXCEPT ![t].server = "persist"] /\ busy' = busy
        /\ Emit(t, Says(IF turns[t].aborted THEN <<>> ELSE <<"error">>, t))
    BY <1>3 DEF RoundFails
  <2>2. (IF turns[t].aborted THEN <<>> ELSE <<"error">>) \in Seq(ChunkTypes)
    BY TypesAre
  <2> QED
    BY <1>1, <2>1, <2>2, MoveStep
<1> QED
  BY <1>2, <1>3

LEMMA PersistStep ==
    ASSUME ChatInv, NEW t \in Started, Persist(t) \/ PersistFails(t)
    PROVE  ChatInv'
<1>1. /\ messages \subseteq MessageRows /\ clock \in Nat \ {0} /\ turns[t] \in TurnType
      /\ turns[t].server = "persist" /\ Answering(turns[t]) /\ turns[t].chat \in Chats
  BY TurnIs DEF ChatInv, Typed, Persist, PersistFails, Answering, AtPlace
<1>2. CASE Persist(t)
  <2>1. turns[t].id \in Nat
    BY <1>1 DEF TurnType
  <2>2. messages' \subseteq MessageRows
    BY <1>1, <1>2, <2>1 DEF Persist, MessageRows
  <2> QED
    BY <1>1, <1>2, <2>2, MoveStep, TypesAre DEF Persist
<1>3. CASE PersistFails(t)
  <2>1. left' = left \/ Fault
    BY <1>3 DEF PersistFails, Fails
  <2> QED
    BY <1>1, <1>3, <2>1, FaultIs, MoveStep, TypesAre DEF PersistFails
<1> QED
  BY <1>2, <1>3

(* A turn that changes as a whole. *)
LEMMA Becomes ==
    ASSUME turns \in Seq(TurnType), NEW t \in Started, NEW new \in TurnType,
           turns' = [turns EXCEPT ![t] = new]
    PROVE  /\ turns' \in Seq(TurnType) /\ Len(turns') = Len(turns) /\ turns'[t] = new
           /\ \A u \in Started : u # t => turns'[u] = turns[u]
BY ExceptSeq DEF Started

LEMMA ClaimStep ==
    ASSUME ChatInv, NEW t \in Started, Claim(t)
    PROVE  ChatInv'
<1> DEFINE new == [turns[t] EXCEPT !.server = "round", !.id = clock]
<1>1. /\ turns \in Seq(TurnType) /\ turns[t] \in TurnType /\ AtPlace(turns[t]) /\ ChunksTyped
      /\ turns[t].server = "claim" /\ clock \in Nat \ {0} /\ messages \subseteq MessageRows
      /\ busy \in [Chats -> 0 .. Len(turns)] /\ left \in LeftType /\ MaxRounds \in Nat \ {0}
  BY TurnIs, AgentChatAssumption DEF ChatInv, Typed, Claim
<1>2. /\ new \in TurnType /\ new.server = "round" /\ new.chat = turns[t].chat
      /\ new.client = turns[t].client /\ new.left = turns[t].left
      /\ new.round = turns[t].round /\ new.kept = turns[t].kept
  BY <1>1 DEF TurnType, Running
<1>3. turns' = [turns EXCEPT ![t] = new]
  BY <1>1 DEF Claim
<1> HIDE DEF new
<1>4. /\ turns' \in Seq(TurnType) /\ Len(turns') = Len(turns) /\ turns'[t] = new
      /\ \A u \in Started : u # t => turns'[u] = turns[u]
  BY <1>1, <1>2, <1>3, Becomes
<1>5. AtPlace(new) /\ turns[t].chat \in Chats
  BY <1>1, <1>2 DEF AtPlace
<1>6. /\ busy' \in [Chats -> 0 .. Len(turns)] /\ busy'[turns[t].chat] = t
      /\ \A c \in Chats : busy'[c] = busy[c] \/ (c = turns[t].chat /\ busy[c] \in {0, t})
  BY <1>1, <1>5 DEF Claim, Free, Started
<1>7. ChunksTyped' /\ clock' \in Nat \ {0}
      /\ UNCHANGED <<page, chats, messages, action, approval, left>>
  BY <1>1, <1>4 DEF Claim, ChunksTyped, OwnChunks, Started
<1> QED
  BY <1>1, <1>2, <1>4, <1>5, <1>6, <1>7, HandlerStep

LEMMA SpeaksStep ==
    ASSUME ChatInv, NEW t \in Started, Speaks(t)
    PROVE  ChatInv'
<1> DEFINE new == [turns[t] EXCEPT !.spoke = TRUE]
<1>1. /\ turns \in Seq(TurnType) /\ turns[t] \in TurnType /\ AtPlace(turns[t]) /\ ChunksTyped
      /\ turns[t].server = "round" /\ Answering(turns[t])
      /\ clock \in Nat \ {0} /\ messages \subseteq MessageRows
      /\ busy \in [Chats -> 0 .. Len(turns)] /\ left \in LeftType
  BY TurnIs DEF ChatInv, Typed, Speaks, Answering
<1>2. /\ new \in TurnType /\ new.server = "round" /\ new.chat = turns[t].chat
      /\ new.client = turns[t].client /\ new.left = turns[t].left
      /\ new.round = turns[t].round /\ new.kept = turns[t].kept
  BY <1>1 DEF TurnType
<1>3. turns' = [turns EXCEPT ![t] = new]
  BY <1>1 DEF Speaks
<1> HIDE DEF new
<1>4. /\ turns' \in Seq(TurnType) /\ Len(turns') = Len(turns) /\ turns'[t] = new
      /\ \A u \in Started : u # t => turns'[u] = turns[u]
  BY <1>1, <1>2, <1>3, Becomes
<1>5. AtPlace(new)
  BY <1>1, <1>2 DEF AtPlace
<1>6. /\ ChunksTyped' /\ busy[turns[t].chat] = t
      /\ UNCHANGED <<page, chats, messages, busy, clock, action, approval, left>>
  BY <1>1, <1>4, Emitted, TypesAre DEF Speaks, ChatInv, Claimed
<1> QED
  BY <1>1, <1>2, <1>4, <1>5, <1>6, HandlerStep

LEMMA LastRoundStep ==
    ASSUME ChatInv, NEW t \in Started, LastRound(t)
    PROVE  ChatInv'
<1> DEFINE b == turns[t].kept \/ turns[t].spoke
           new == [turns[t] EXCEPT !.server = "persist", !.kept = b]
<1>1. /\ turns \in Seq(TurnType) /\ turns[t] \in TurnType /\ AtPlace(turns[t]) /\ ChunksTyped
      /\ turns[t].server = "round" /\ Answering(turns[t]) /\ b \in BOOLEAN
      /\ clock \in Nat \ {0} /\ messages \subseteq MessageRows
      /\ busy \in [Chats -> 0 .. Len(turns)] /\ left \in LeftType
  BY TurnIs DEF ChatInv, Typed, LastRound, Answering
<1>2. turns' = [turns EXCEPT ![t] = new]
  BY <1>1 DEF LastRound
<1> HIDE DEF b
<1>3. /\ new \in TurnType /\ new.server = "persist" /\ new.chat = turns[t].chat
      /\ new.client = turns[t].client /\ new.left = turns[t].left
  BY <1>1 DEF TurnType, Running
<1> HIDE DEF new
<1>4. /\ turns' \in Seq(TurnType) /\ Len(turns') = Len(turns) /\ turns'[t] = new
      /\ \A u \in Started : u # t => turns'[u] = turns[u]
  BY <1>1, <1>2, <1>3, Becomes
<1>5. AtPlace(new)
  BY <1>1, <1>3 DEF AtPlace
<1>6. /\ ChunksTyped' /\ busy[turns[t].chat] = t
      /\ UNCHANGED <<page, chats, messages, busy, clock, action, approval, left>>
  BY <1>1, <1>4, Emitted, TypesAre DEF LastRound, ChatInv, Claimed
<1> QED
  BY <1>1, <1>3, <1>4, <1>5, <1>6, HandlerStep

LEMMA ToolRoundStep ==
    ASSUME ChatInv, NEW t \in Started, ToolRound(t)
    PROVE  ChatInv'
<1> DEFINE s == IF IsLast(t) THEN "persist" ELSE "round"
           new == [turns[t] EXCEPT !.server = s, !.round = turns[t].round + 1,
                                   !.spoke = FALSE, !.kept = TRUE]
           types == IF IsLast(t) THEN <<"tool", "finish-step", "error">> ELSE <<"tool", "finish-step">>
<1>1. /\ turns \in Seq(TurnType) /\ turns[t] \in TurnType /\ AtPlace(turns[t]) /\ ChunksTyped
      /\ turns[t].server = "round" /\ Answering(turns[t])
      /\ clock \in Nat \ {0} /\ messages \subseteq MessageRows
      /\ busy \in [Chats -> 0 .. Len(turns)] /\ left \in LeftType /\ MaxRounds \in Nat \ {0}
  BY TurnIs, AgentChatAssumption DEF ChatInv, Typed, ToolRound, Answering
<1>2. turns[t].round \in Nat /\ turns[t].round < MaxRounds
  BY <1>1 DEF TurnType, AtPlace
<1>3. turns' = [turns EXCEPT ![t] = new] /\ Emit(t, Says(types, t)) /\ types \in Seq(ChunkTypes)
  BY <1>1, TypesAre DEF ToolRound
<1>4. s \in {"persist", "round"} /\ (s = "round" => turns[t].round + 1 < MaxRounds)
  BY <1>1, <1>2 DEF IsLast
<1> HIDE DEF s, types
<1>5. /\ new \in TurnType /\ new.server = s /\ new.chat = turns[t].chat
      /\ new.client = turns[t].client /\ new.left = turns[t].left
      /\ new.round = turns[t].round + 1 /\ new.kept = TRUE
  <2> DEFINE r == turns[t].round + 1
  <2>1. r \in 0 .. MaxRounds /\ s \in Running
    BY <1>1, <1>2, <1>4 DEF Running
  <2> HIDE DEF r
  <2>2. new = [turns[t] EXCEPT !.server = s, !.round = r, !.spoke = FALSE, !.kept = TRUE]
    BY DEF r
  <2> HIDE DEF new
  <2>3. new \in TurnType
    BY <1>1, <2>1, <2>2 DEF TurnType
  <2>4. /\ new.server = s /\ new.chat = turns[t].chat /\ new.client = turns[t].client
        /\ new.left = turns[t].left /\ new.round = r /\ new.kept = TRUE
    BY <1>1, <2>2 DEF TurnType
  <2> QED
    BY <2>3, <2>4 DEF r
<1> HIDE DEF new
<1>6. /\ turns' \in Seq(TurnType) /\ Len(turns') = Len(turns) /\ turns'[t] = new
      /\ \A u \in Started : u # t => turns'[u] = turns[u]
  BY <1>1, <1>3, <1>5, Becomes
<1>7. AtPlace(new)
  BY <1>1, <1>2, <1>4, <1>5 DEF AtPlace
<1>8. ChunksTyped' /\ busy[turns[t].chat] = t
      /\ UNCHANGED <<page, chats, messages, busy, clock, approval>>
  BY <1>1, <1>3, <1>6, Emitted DEF ToolRound, ChatInv, Claimed
<1>9. left' \in LeftType /\ left'.turns = left.turns
  <2>1. left.tools \in Nat /\ left.tools > 0 /\ left.proposals \in Nat
    BY <1>1 DEF ToolRound, LeftType
  <2>2. CASE left' = [left EXCEPT !.tools = left.tools - 1]
    <3>1. left.tools - 1 \in Nat
      BY <2>1
    <3> QED
      BY <1>1, <2>2, <3>1 DEF LeftType
  <2>3. CASE /\ left.proposals > 0
             /\ left' = [left EXCEPT !.tools = left.tools - 1, !.proposals = left.proposals - 1]
    <3>1. left.tools - 1 \in Nat /\ left.proposals - 1 \in Nat
      BY <2>1, <2>3
    <3> QED
      BY <1>1, <2>3, <3>1 DEF LeftType
  <2> QED
    BY <2>2, <2>3 DEF ToolRound
<1>10. action' = action \/ (action.status = "none" /\ action' = [action EXCEPT !.status = "proposed"])
  BY DEF ToolRound
<1> QED
  BY <1>1, <1>4, <1>5, <1>6, <1>7, <1>8, <1>9, <1>10, HandlerStep

LEMMA HandlerKeeps ==
    ASSUME ChatInv, NEW t \in Started, Handler(t)
    PROVE  ChatInv'
BY Prepares, BusyStep, ClaimStep, SpeaksStep, LastRoundStep, ToolRoundStep, RoundFailsStep,
   PersistStep DEF Handler

-----------------------------------------------------------------------------
(* The steps of the page.                                                   *)

LEMMA TypesGrow ==
    ASSUME turns \in Seq(TurnType), turns' \in Seq(TurnType), Len(turns) <= Len(turns')
    PROVE  /\ Started \subseteq Started' /\ PageType \subseteq PageType'
           /\ MessageRows \subseteq MessageRows'
<1>1. Started \subseteq Started' /\ 0 .. Len(turns) \subseteq 0 .. Len(turns')
  BY DEF Started
<1>2. Word \subseteq Word'
  BY <1>1 DEF Word
<1>3. Seq(Word) \subseteq Seq(Word)'
  BY <1>2, SeqMonotonic
<1>4. MessageType \subseteq MessageType'
  BY <1>1, <1>3 DEF MessageType
<1> QED
  BY <1>1, <1>4 DEF PageType, MessageRows

LEMMA Empty ==
    /\ \A S : <<>> \in Seq(S)
    /\ NoPending.parts = <<>> /\ NoPending.own = 0 /\ NoPending.status = "none"
BY DEF NoPending

(* A turn is added, and those that are not over are left behind. *)
LEMMA AddStep ==
    ASSUME ChatInv, CanSend, Spend, NEW tn \in TurnType, AtPlace(tn),
           tn.client \in {"reading", "creating"}, ~tn.left, tn.server \in {"none", "store"},
           turns' = Append(Leave(turns), tn), chunks' = Append(chunks, <<>>),
           (page' = page /\ tn.client = "creating") \/ RunTurn(tn.chat, Len(turns) + 1),
           UNCHANGED <<chats, messages, busy, clock, action, approval>>
    PROVE  ChatInv'
<1> DEFINE n == Len(turns)
<1>1. /\ turns \in Seq(TurnType) /\ n \in Nat /\ Started = 1 .. n
      /\ Leave(turns) \in Seq(TurnType) /\ Len(Leave(turns)) = n
  BY Leaving DEF ChatInv, Typed, Started
<1>2. /\ turns' \in Seq(TurnType) /\ Len(turns') = n + 1 /\ turns'[n + 1] = tn
      /\ \A t \in 1 .. n : turns'[t] = Leave(turns)[t]
      /\ Started' = 1 .. n + 1
  BY <1>1 DEF Started
<1>3. \A t \in 1 .. n :
         /\ turns'[t].chat = turns[t].chat /\ turns'[t].client = turns[t].client
         /\ turns'[t].server = turns[t].server /\ turns'[t].round = turns[t].round
         /\ turns'[t].kept = turns[t].kept /\ turns'[t].broken = turns[t].broken
         /\ (turns'[t].left <=> turns[t].left \/ turns[t].client # "over")
  BY <1>1, <1>2, Leaving
<1>4. /\ Started \subseteq Started' /\ PageType \subseteq PageType' /\ MessageRows \subseteq MessageRows'
  BY <1>1, <1>2, TypesGrow
<1>5. /\ chunks' \in Seq(Seq([type : ChunkTypes, turn : Nat])) /\ Len(chunks') = n + 1
      /\ chunks'[n + 1] = <<>> /\ \A t \in 1 .. n : chunks'[t] = chunks[t]
  <2>1. /\ chunks \in Seq(Seq([type : ChunkTypes, turn : Nat])) /\ Len(chunks) = n
        /\ <<>> \in Seq([type : ChunkTypes, turn : Nat])
    BY Empty DEF ChatInv, Typed
  <2> QED
    BY <1>1, <2>1
<1>6. left' \in LeftType /\ left'.turns = left.turns - 1 /\ left.turns \in Nat \ {0}
  <2>1. left \in LeftType /\ left.turns > 0 /\ left' = [left EXCEPT !.turns = left.turns - 1]
    BY DEF ChatInv, Typed, CanSend, Spend
  <2>2. left.turns \in Nat \ {0}
    BY <2>1 DEF LeftType
  <2>3. left.turns - 1 \in Nat
    BY <2>2
  <2> QED
    BY <2>1, <2>2, <2>3 DEF LeftType
<1>7. /\ OwnChunks' /\ InPlace' /\ Claimed' /\ WorkKept'
      /\ OneApprover' /\ RunsOnce' /\ n + 1 + left'.turns <= MaxTurns
      /\ messages' \subseteq MessageRows' /\ busy' \in [Chats -> 0 .. n + 1]
      /\ \A t \in Started' : t = n + 1 \/ t \in Started
  <2>1. \A t \in Started' : t = n + 1 \/ t \in Started
    BY <1>1, <1>2
  <2>2. OwnChunks'
    <3>1. \A t \in 1 .. n : chunks'[t] \in Seq(ChunkOf(t))
      BY <1>1, <1>5 DEF ChatInv, OwnChunks
    <3>2. chunks'[n + 1] \in Seq(ChunkOf(n + 1))
      BY <1>5, Empty
    <3> QED
      BY <1>1, <2>1, <3>1, <3>2 DEF OwnChunks, ChunkOf
  <2>3. InPlace'
    BY <1>1, <1>2, <1>3, <2>1 DEF ChatInv, InPlace, AtPlace
  <2>4. Claimed'
    BY <1>1, <1>2, <1>3, <2>1 DEF ChatInv, Claimed, Answering
  <2>8. WorkKept'
    BY <1>1, <1>2, <1>3, <2>1 DEF ChatInv, WorkKept
  <2>5. OneApprover' /\ RunsOnce'
    BY DEF ChatInv, OneApprover, RunsOnce
  <2>6. /\ n + 1 + left'.turns <= MaxTurns
        /\ messages' \subseteq MessageRows' /\ busy' \in [Chats -> 0 .. n + 1]
    BY <1>1, <1>4, <1>6, AgentChatAssumption DEF ChatInv, Typed
  <2> QED
    BY <2>1, <2>2, <2>3, <2>4, <2>5, <2>6, <2>8
<1>8. CASE page' = page /\ tn.client = "creating"
  <2>1. page' \in PageType'
    BY <1>4, <1>8 DEF ChatInv, Typed
  <2>2. NothingLeft' => NothingLeft /\ \A t \in 1 .. n : turns'[t].client = "over"
    BY <1>1, <1>3, <1>4 DEF NothingLeft
  <2>3. OnlyTheLast' /\ OwnWords'
    BY <1>7, <1>1, <1>2, <1>8, <2>2 DEF OnlyTheLast, OwnWords, ChatInv
  <2> QED
    BY <1>7, <1>2, <1>5, <1>6, <2>1, <2>3 DEF ChatInv, Typed
<1>9. CASE RunTurn(tn.chat, n + 1)
  <2>1. page' = [chat |-> tn.chat, abort |-> n + 1, pending |-> emptyStreamingMessage(n + 1)]
    BY <1>9 DEF RunTurn
  <2>2. emptyStreamingMessage(n + 1) \in MessageType' /\ tn.chat \in Chats \cup {NoChat}
    BY <1>1, <1>2, Empty DEF MessageType, emptyStreamingMessage, TurnType
  <2>3. page' \in PageType'
    BY <1>1, <1>2, <2>1, <2>2 DEF PageType
  <2>4. page'.abort = n + 1 /\ page'.pending.own = n + 1 /\ page'.pending.parts = <<>>
    BY <2>1 DEF emptyStreamingMessage
  <2>5. NothingLeft' => \A t \in 1 .. n : turns'[t].client = "over"
    BY <1>1, <1>3, <1>4 DEF NothingLeft
  <2>6. OnlyTheLast' /\ OwnWords'
    BY <1>7, <1>1, <1>2, <2>4, <2>5 DEF OnlyTheLast, OwnWords
  <2> QED
    BY <1>7, <1>2, <1>5, <1>6, <2>3, <2>6 DEF ChatInv, Typed
<1> QED
  BY <1>8, <1>9

LEMMA TurnFields ==
    ASSUME NEW c \in Chats \cup {NoChat}, NEW trigger \in {"submit-message", "regenerate-message"},
           NEW target \in Nat, NEW client \in {"creating", "reading"},
           c \in (IF client = "creating" THEN {NoChat} ELSE Chats)
    PROVE  LET tn == Turn(c, trigger, target, client) IN
           /\ tn \in TurnType /\ AtPlace(tn) /\ tn.client = client /\ ~tn.left
           /\ tn.server \in {"none", "store"} /\ tn.chat = c
BY AgentChatAssumption DEF Turn, TurnType, AtPlace, Running

LEMMA SendStep ==
    ASSUME ChatInv, Send \/ SendFirst \/ Regenerate
    PROVE  ChatInv'
<1>1. page.chat \in Chats \cup {NoChat} /\ messages \subseteq MessageRows /\ NoChat \in Nat
  BY DEF ChatInv, Typed, PageType, NoChat
<1>2. CASE Send
  <2> DEFINE tn == Turn(page.chat, "submit-message", 0, "reading")
  <2>1. page.chat \in Chats
    BY <1>1, <1>2 DEF Send
  <2>2. /\ tn \in TurnType /\ AtPlace(tn) /\ tn.client = "reading" /\ ~tn.left
        /\ tn.server \in {"none", "store"} /\ tn.chat = page.chat
    BY <2>1, TurnFields
  <2>3. turns' = Append(Leave(turns), tn) /\ CanSend /\ Spend /\ chunks' = Append(chunks, <<>>)
        /\ RunTurn(page.chat, Len(turns) + 1)
        /\ UNCHANGED <<chats, messages, busy, clock, action, approval>>
    BY <1>2 DEF Send
  <2> HIDE DEF tn
  <2> QED
    BY <2>2, <2>3, AddStep
<1>3. CASE SendFirst
  <2> DEFINE tn == Turn(NoChat, "submit-message", 0, "creating")
  <2>1. /\ tn \in TurnType /\ AtPlace(tn) /\ tn.client = "creating" /\ ~tn.left
        /\ tn.server \in {"none", "store"}
    BY TurnFields
  <2>2. turns' = Append(Leave(turns), tn) /\ CanSend /\ Spend /\ chunks' = Append(chunks, <<>>)
        /\ UNCHANGED <<page, chats, messages, busy, clock, action, approval>>
    BY <1>3 DEF SendFirst
  <2> HIDE DEF tn
  <2> QED
    BY <2>1, <2>2, AddStep
<1>4. CASE Regenerate
  <2>1. PICK m \in Assistant(page.chat) :
            turns' = Append(Leave(turns), Turn(page.chat, "regenerate-message", m.id, "reading"))
    BY <1>4 DEF Regenerate
  <2> DEFINE tn == Turn(page.chat, "regenerate-message", m.id, "reading")
  <2>2. page.chat \in Chats /\ m.id \in Nat
    BY <1>1, <2>1 DEF Assistant, MessageRows
  <2>3. /\ tn \in TurnType /\ AtPlace(tn) /\ tn.client = "reading" /\ ~tn.left
        /\ tn.server \in {"none", "store"} /\ tn.chat = page.chat
    BY <2>2, TurnFields
  <2>4. turns' = Append(Leave(turns), tn) /\ CanSend /\ Spend /\ chunks' = Append(chunks, <<>>)
        /\ RunTurn(page.chat, Len(turns) + 1)
        /\ UNCHANGED <<chats, messages, busy, clock, action, approval>>
    BY <1>4, <2>1 DEF Regenerate
  <2> HIDE DEF tn
  <2> QED
    BY <2>3, <2>4, AddStep
<1> QED
  BY <1>2, <1>3, <1>4

LEMMA CreatedStep ==
    ASSUME ChatInv, NEW t \in Started, NEW c \in Chats, Created(t, c)
    PROVE  ChatInv'
<1> DEFINE new == [turns[t] EXCEPT !.chat = c, !.client = "reading", !.server = "store"]
<1>1. /\ turns \in Seq(TurnType) /\ turns[t] \in TurnType /\ AtPlace(turns[t]) /\ ChunksTyped
      /\ turns[t].client = "creating" /\ turns[t].server = "none"
      /\ \A u \in Started : turns[u].chat < c
      /\ UNCHANGED <<chunks, messages, busy, clock, action, approval, left>>
      /\ chats' = chats \cup {c}
  BY TurnIs DEF Created, AtPlace
<1>2. /\ new \in TurnType /\ new.server = "store" /\ new.chat = c /\ new.client = "reading"
      /\ new.left = turns[t].left /\ new.round = turns[t].round /\ new.kept = turns[t].kept
  BY <1>1 DEF TurnType, Running
<1>3. turns' = [turns EXCEPT ![t] = new]
  BY <1>1 DEF Created
<1> HIDE DEF new
<1>4. /\ turns' \in Seq(TurnType) /\ Len(turns') = Len(turns) /\ turns'[t] = new
      /\ \A u \in Started : u # t => turns'[u] = turns[u]
      /\ Started' = Started
  BY <1>1, <1>2, <1>3, Becomes DEF Started
<1>5. /\ page' = [chat |-> c, abort |-> t, pending |-> emptyStreamingMessage(t)]
      /\ page'.abort = t /\ page'.pending.own = t /\ page'.pending.parts = <<>>
  BY DEF Created, RunTurn, emptyStreamingMessage
<1>6. Typed' /\ OwnChunks'
  <2>1. emptyStreamingMessage(t) \in MessageType'
    BY <1>4, Empty DEF MessageType, emptyStreamingMessage
  <2>2. page' \in PageType'
    BY <1>1, <1>4, <1>5, <2>1 DEF PageType, Started
  <2>3. MessageRows' = MessageRows
    BY <1>4 DEF MessageRows
  <2> QED
    BY <1>1, <1>4, <2>2, <2>3 DEF ChatInv, Typed, OwnChunks
<1>8. InPlace'
  BY <1>1, <1>2, <1>4 DEF ChatInv, InPlace, AtPlace
<1>9. Claimed'
  BY <1>1, <1>2, <1>4 DEF ChatInv, Claimed, Answering
<1>10. WorkKept'
  BY <1>2, <1>4 DEF ChatInv, WorkKept
<1>11. OnlyTheLast' /\ OwnWords'
  <2>1. NothingLeft' <=> NothingLeft
    BY <1>2, <1>4 DEF NothingLeft
  <2>2. NothingLeft => t = Len(turns)
    BY <1>1 DEF ChatInv, OnlyTheLast
  <2> QED
    BY <1>2, <1>4, <1>5, <2>1, <2>2 DEF ChatInv, OnlyTheLast, OwnWords
<1>12. OneApprover' /\ RunsOnce'
  BY <1>1 DEF ChatInv, OneApprover, RunsOnce
<1> QED
  BY <1>6, <1>8, <1>9, <1>10, <1>11, <1>12 DEF ChatInv

(* What the other steps of the page have in common: no handler moves. *)
LEMMA PageStep ==
    ASSUME ChatInv, turns' \in Seq(TurnType), Len(turns') = Len(turns),
           \A u \in Started :
                /\ turns'[u].chat = turns[u].chat /\ turns'[u].server = turns[u].server
                /\ turns'[u].round = turns[u].round /\ turns'[u].kept = turns[u].kept
                /\ turns'[u].broken = turns[u].broken
                /\ turns'[u].client = "creating" <=> turns[u].client = "creating",
           page' \in PageType, ChunksTyped', OnlyTheLast', OwnWords',
           left' \in LeftType, left'.turns = left.turns,
           messages' \subseteq messages, chats' \subseteq chats,
           UNCHANGED <<busy, clock, action, approval>>
    PROVE  ChatInv'
<1>1. Started' = Started /\ PageType' = PageType /\ MessageRows' = MessageRows
  BY DEF Started, PageType, MessageType, MessageRows, Word
<1>2. Typed' /\ OwnChunks'
  BY <1>1 DEF ChatInv, Typed, ChunksTyped
<1>4. InPlace'
  BY <1>1 DEF ChatInv, InPlace, AtPlace
<1>5. Claimed' /\ WorkKept'
  BY <1>1 DEF ChatInv, Claimed, Answering, WorkKept
<1>6. OneApprover' /\ RunsOnce'
  BY DEF ChatInv, OneApprover, RunsOnce
<1> QED
  BY <1>2, <1>4, <1>5, <1>6 DEF ChatInv

LEMMA PageIs ==
    ASSUME ChatInv
    PROVE  /\ turns \in Seq(TurnType) /\ Len(turns) \in Nat /\ ChunksTyped /\ page \in PageType
           /\ page.chat \in Chats \cup {NoChat} /\ page.abort \in 0 .. Len(turns)
           /\ page.pending \in {NoPending} \cup MessageType
           /\ left \in LeftType /\ left.deletes \in Nat /\ left.stops \in Nat
BY DEF ChatInv, Typed, ChunksTyped, PageType, LeftType

LEMMA OpenStep ==
    ASSUME ChatInv, NEW c \in Chats \cup {NoChat}, Open(c)
    PROVE  ChatInv'
<1>1. /\ page' = [page EXCEPT !.chat = c, !.pending = NoPending] /\ turns' = Leave(turns)
      /\ UNCHANGED <<chunks, chats, messages, busy, clock, action, approval, left>>
  BY DEF Open
<1>2. /\ turns' \in Seq(TurnType) /\ Len(turns') = Len(turns)
      /\ \A u \in Started :
            /\ turns'[u].chat = turns[u].chat /\ turns'[u].server = turns[u].server
            /\ turns'[u].round = turns[u].round /\ turns'[u].kept = turns[u].kept
            /\ turns'[u].broken = turns[u].broken /\ turns'[u].client = turns[u].client
            /\ (turns'[u].left <=> turns[u].left \/ turns[u].client # "over")
  BY <1>1, PageIs, Leaving DEF Started
<1>3. Started' = Started /\ ChunksTyped'
  BY <1>1, <1>2, PageIs DEF Started, ChunksTyped, OwnChunks
<1>4. page' \in PageType /\ page'.pending = NoPending
  BY <1>1, PageIs DEF PageType
<1>5. NothingLeft' => \A u \in Started : turns'[u].client = "over"
  BY <1>2, <1>3 DEF NothingLeft
<1>6. OnlyTheLast' /\ OwnWords'
  BY <1>3, <1>4, <1>5, Empty DEF OnlyTheLast, OwnWords
<1> QED
  BY <1>1, <1>2, <1>3, <1>4, <1>6, PageStep, PageIs

(* The page gets a chunk, reaches the end of the stream, or is done with a turn. *)
LEMMA ClientMoves ==
    ASSUME turns \in Seq(TurnType), NEW t \in Started,
           NEW s \in {"creating", "reading", "closing", "over"},
           turns' = [turns EXCEPT ![t].client = s]
    PROVE  /\ turns' \in Seq(TurnType) /\ Len(turns') = Len(turns) /\ Started' = Started
           /\ turns'[t].client = s
           /\ \A u \in Started :
                /\ u # t => turns'[u] = turns[u]
                /\ turns'[u].chat = turns[u].chat /\ turns'[u].server = turns[u].server
                /\ turns'[u].round = turns[u].round /\ turns'[u].kept = turns[u].kept
                /\ turns'[u].left = turns[u].left /\ turns'[u].broken = turns[u].broken
<1> DEFINE new == [turns[t] EXCEPT !.client = s]
<1>1. turns[t] \in TurnType /\ turns' = [turns EXCEPT ![t] = new]
  BY DEF Started
<1>2. /\ new \in TurnType /\ new.client = s
      /\ new.chat = turns[t].chat /\ new.server = turns[t].server
      /\ new.round = turns[t].round /\ new.kept = turns[t].kept
      /\ new.left = turns[t].left /\ new.broken = turns[t].broken
  BY <1>1 DEF TurnType
<1> HIDE DEF new
<1>3. /\ turns' \in Seq(TurnType) /\ Len(turns') = Len(turns) /\ turns'[t] = new
      /\ \A u \in Started : u # t => turns'[u] = turns[u]
  BY <1>1, <1>2, Becomes
<1>4. ASSUME NEW u \in Started
      PROVE  /\ turns'[u].chat = turns[u].chat /\ turns'[u].server = turns[u].server
             /\ turns'[u].round = turns[u].round /\ turns'[u].kept = turns[u].kept
             /\ turns'[u].left = turns[u].left /\ turns'[u].broken = turns[u].broken
  BY <1>2, <1>3
<1> QED
  BY <1>2, <1>3, <1>4 DEF Started

LEMMA Folded ==
    ASSUME NEW msg \in MessageType, NEW c \in [type : ChunkTypes, turn : Started]
    PROVE  /\ reduceChunk(msg, c) \in MessageType /\ reduceChunk(msg, c).own = msg.own
           /\ \A i \in 1 .. Len(reduceChunk(msg, c).parts) :
                \/ reduceChunk(msg, c).parts[i].of \subseteq {c.turn}
                \/ i \in 1 .. Len(msg.parts)
                   /\ reduceChunk(msg, c).parts[i].of \subseteq msg.parts[i].of \cup {c.turn}
<1> DEFINE p == FoldParts(msg.parts, c)
           s == FoldStatus(msg.status, c)
<1>1. /\ msg.parts \in Seq(Word) /\ msg.own \in Started /\ c.turn \in Started
      /\ msg.status \in {"streaming", "done", "error"}
  BY DEF MessageType
<1>2. s \in {"streaming", "done", "error"}
  BY <1>1 DEF FoldStatus
<1>3. /\ p \in Seq(Word)
      /\ \A i \in 1 .. Len(p) :
            \/ p[i].of \subseteq {c.turn}
            \/ i \in 1 .. Len(msg.parts) /\ p[i].of \subseteq msg.parts[i].of \cup {c.turn}
  <2>1. ASSUME NEW w \in Word, w.of \subseteq {c.turn}, p = Append(msg.parts, w)
        PROVE  /\ p \in Seq(Word)
               /\ \A i \in 1 .. Len(p) :
                     \/ p[i].of \subseteq {c.turn}
                     \/ /\ i \in 1 .. Len(msg.parts)
                        /\ p[i].of \subseteq msg.parts[i].of \cup {c.turn}
    <3>1. \A i \in 1 .. Len(p) : p[i] = w \/ (i \in 1 .. Len(msg.parts) /\ p[i] = msg.parts[i])
      BY <1>1, <2>1
    <3> QED
      BY <1>1, <2>1, <3>1
  <2>2. CASE c.type = "text-start"
    <3>1. [open |-> TRUE, of |-> {}] \in Word
      BY DEF Word
    <3> QED
      BY <2>1, <2>2, <3>1 DEF FoldParts
  <2>3. CASE c.type = "tool"
    <3>1. [open |-> FALSE, of |-> {c.turn}] \in Word
      BY <1>1 DEF Word
    <3> QED
      BY <2>1, <2>3, <3>1 DEF FoldParts
  <2>4. CASE c.type \notin {"text-start", "tool"}
    <3>1. p = [i \in 1 .. Len(msg.parts) |-> p[i]] /\ Len(msg.parts) \in Nat
      <4> DEFINE e(i) == [open |-> msg.parts[i].open /\ c.type # "finish-step",
                          of |-> IF c.type = "text-delta" /\ IsNewest(i, msg.parts)
                                 THEN msg.parts[i].of \cup {c.turn} ELSE msg.parts[i].of]
      <4>1. p = [i \in 1 .. Len(msg.parts) |-> e(i)]
        BY <2>4 DEF FoldParts
      <4> HIDE DEF e, p
      <4> QED
        BY <1>1, <4>1
    <3>2. ASSUME NEW i \in 1 .. Len(msg.parts)
          PROVE  p[i] \in Word /\ p[i].of \subseteq msg.parts[i].of \cup {c.turn}
      <4> DEFINE o == msg.parts[i].open /\ c.type # "finish-step"
                 f == IF c.type = "text-delta" /\ IsNewest(i, msg.parts)
                      THEN msg.parts[i].of \cup {c.turn} ELSE msg.parts[i].of
      <4>1. p[i] = [open |-> o, of |-> f]
        BY <2>4 DEF FoldParts
      <4>2. msg.parts[i] \in Word
        BY <1>1
      <4>3. msg.parts[i].of \subseteq Started
        BY <4>2 DEF Word
      <4>4. o \in BOOLEAN /\ f \subseteq Started /\ f \subseteq msg.parts[i].of \cup {c.turn}
        BY <1>1, <4>3
      <4> HIDE DEF o, f, p
      <4> QED
        BY <4>1, <4>4 DEF Word
    <3> HIDE DEF p
    <3>3. p \in Seq(Word) /\ Len(p) = Len(msg.parts)
      BY <3>1, <3>2, IsSequence
    <3> QED
      BY <3>2, <3>3
  <2> QED
    BY <2>2, <2>3, <2>4
<1>4. reduceChunk(msg, c) = [msg EXCEPT !.parts = p, !.status = s]
  BY DEF reduceChunk
<1> HIDE DEF p, s
<1>5. reduceChunk(msg, c) \in MessageType /\ reduceChunk(msg, c).own = msg.own
  BY <1>2, <1>3, <1>4 DEF MessageType
<1>6. reduceChunk(msg, c).parts = p
  BY <1>4 DEF MessageType
<1> QED
  BY <1>3, <1>5, <1>6

LEMMA ReceiveStep ==
    ASSUME ChatInv, NEW t \in Started, Receive(t)
    PROVE  ChatInv'
<1> DEFINE c == Head(chunks[t])
<1>1. /\ chunks[t] \in Seq(ChunkOf(t)) /\ chunks[t] # <<>> /\ turns[t].client = "reading"
      /\ chunks' = [chunks EXCEPT ![t] = Tail(chunks[t])]
      /\ UNCHANGED <<turns, chats, messages, busy, clock, action, approval, left>>
      /\ page' = IF page.pending = NoPending THEN page
                 ELSE [page EXCEPT !.pending = reduceChunk(page.pending, c)]
  <2>1. chunks[t] \in Seq(ChunkOf(t))
    BY DEF ChatInv, OwnChunks
  <2> QED
    BY <2>1 DEF Receive
<1>2. c \in [type : ChunkTypes, turn : Started] /\ c.turn = t /\ Tail(chunks[t]) \in Seq(ChunkOf(t))
  <2>1. c \in ChunkOf(t) /\ Tail(chunks[t]) \in Seq(ChunkOf(t))
    BY <1>1, HeadTailProperties
  <2> HIDE DEF c
  <2> QED
    BY <2>1 DEF ChunkOf
<1>3. ChunksTyped'
  BY <1>1, <1>2, PageIs, Written
<1>4. Started' = Started /\ (NothingLeft' <=> NothingLeft)
  BY <1>1 DEF Started, NothingLeft
<1>5. NothingLeft => page.pending.own = t
  BY <1>1 DEF ChatInv, OnlyTheLast
<1>6. page' \in PageType /\ page'.abort = page.abort /\ page'.pending.own = page.pending.own
      /\ OwnWords'
  <2>1. CASE page.pending = NoPending
    BY <1>1, <1>4, <2>1, PageIs DEF ChatInv, OwnWords
  <2>2. CASE page.pending # NoPending
    <3> DEFINE m == reduceChunk(page.pending, c)
    <3>1. page.pending \in MessageType /\ page \in PageType
      BY <2>2, PageIs
    <3>2. /\ m \in MessageType /\ m.own = page.pending.own
          /\ \A i \in 1 .. Len(m.parts) :
                \/ m.parts[i].of \subseteq {t}
                \/ i \in 1 .. Len(page.pending.parts)
                   /\ m.parts[i].of \subseteq page.pending.parts[i].of \cup {t}
      BY <1>2, <3>1, Folded
    <3>3. page' = [page EXCEPT !.pending = m]
      BY <1>1, <2>2
    <3> HIDE DEF m
    <3>4. page' \in PageType /\ page'.pending = m /\ page'.abort = page.abort
      BY <3>1, <3>2, <3>3 DEF PageType
    <3>5. OwnWords'
      BY <1>4, <1>5, <3>2, <3>4 DEF ChatInv, OwnWords
    <3> QED
      BY <3>2, <3>4, <3>5
  <2> QED
    BY <2>1, <2>2
<1>7. OnlyTheLast'
  BY <1>1, <1>4, <1>6 DEF ChatInv, OnlyTheLast
<1> QED
  BY <1>1, <1>3, <1>6, <1>7, PageStep, PageIs

LEMMA EndsStep ==
    ASSUME ChatInv, NEW t \in Started, Ends(t)
    PROVE  ChatInv'
<1>1. /\ turns[t].client = "reading" /\ turns' = [turns EXCEPT ![t].client = "closing"]
      /\ chunks' = [chunks EXCEPT ![t] = <<>>]
      /\ UNCHANGED <<chats, messages, busy, clock, action, approval, left>>
      /\ \/ page' = [page EXCEPT !.abort = 0]
         \/ /\ page.pending # NoPending
            /\ page' = [page EXCEPT !.abort = 0, !.pending = [page.pending EXCEPT !.status = "error"]]
  <2>1. page' = [page EXCEPT !.abort = 0,
                  !.pending = IF ~turns[t].aborted /\ Head(chunks[t]).type # "DONE"
                                 /\ page.pending # NoPending
                              THEN [page.pending EXCEPT !.status = "error"] ELSE page.pending]
    BY DEF Ends
  <2>2. [page EXCEPT !.abort = 0, !.pending = page.pending] = [page EXCEPT !.abort = 0]
    BY PageIs DEF PageType
  <2> QED
    BY <2>1, <2>2 DEF Ends
<1>2. /\ turns' \in Seq(TurnType) /\ Len(turns') = Len(turns) /\ Started' = Started
      /\ turns'[t].client = "closing"
      /\ \A u \in Started :
            /\ u # t => turns'[u] = turns[u]
            /\ turns'[u].chat = turns[u].chat /\ turns'[u].server = turns[u].server
            /\ turns'[u].round = turns[u].round /\ turns'[u].kept = turns[u].kept
            /\ turns'[u].left = turns[u].left /\ turns'[u].broken = turns[u].broken
  BY <1>1, ClientMoves, PageIs
<1>3. ChunksTyped'
  BY <1>1, <1>2, PageIs, Empty, Written
<1>4. page' \in PageType /\ page'.pending.parts = page.pending.parts
      /\ page'.pending.own = page.pending.own
  <2>1. CASE page' = [page EXCEPT !.abort = 0]
    BY <2>1, PageIs DEF PageType
  <2>2. CASE /\ page.pending # NoPending
             /\ page' = [page EXCEPT !.abort = 0, !.pending = [page.pending EXCEPT !.status = "error"]]
    <3> DEFINE m == [page.pending EXCEPT !.status = "error"]
    <3>1. page.pending \in MessageType
      BY <2>2, PageIs
    <3>2. m \in MessageType /\ m.parts = page.pending.parts /\ m.own = page.pending.own
      BY <3>1 DEF MessageType
    <3> HIDE DEF m
    <3>3. page' = [page EXCEPT !.abort = 0, !.pending = m]
      BY <2>2 DEF m
    <3>4. page \in PageType /\ Len(turns) \in Nat
      BY PageIs
    <3>5. page' \in PageType
      <4>1. page.chat \in Chats \cup {NoChat} /\ m \in {NoPending} \cup MessageType
            /\ 0 \in 0 .. Len(turns)
        BY <3>2, <3>4, PageIs
      <4> QED
        BY <3>3, <3>4, <4>1 DEF PageType
    <3>6. page'.pending = m
      BY <3>3, <3>4 DEF PageType
    <3> QED
      BY <3>2, <3>5, <3>6
  <2> QED
    BY <1>1, <2>1, <2>2
<1>5. NothingLeft' <=> NothingLeft
  BY <1>2 DEF NothingLeft
<1>6. NothingLeft => t = Len(turns)
  BY <1>1 DEF ChatInv, OnlyTheLast
<1>7. OnlyTheLast' /\ OwnWords'
  BY <1>2, <1>4, <1>5, <1>6 DEF ChatInv, OnlyTheLast, OwnWords
<1>8. \A u \in Started : turns'[u].client = "creating" <=> turns[u].client = "creating"
  BY <1>1, <1>2
<1> QED
  BY <1>1, <1>2, <1>3, <1>4, <1>7, <1>8, PageStep, PageIs

LEMMA SettleStep ==
    ASSUME ChatInv, NEW t \in Started, Settle(t)
    PROVE  ChatInv'
<1>1. /\ turns[t].client = "closing" /\ turns' = [turns EXCEPT ![t].client = "over"]
      /\ UNCHANGED <<chunks, chats, messages, busy, clock, action, approval, left>>
      /\ page' = [page EXCEPT !.pending = AfterTurn(page.pending)]
      /\ AfterTurn(page.pending) \in {page.pending, NoPending}
  BY DEF Settle, AfterTurn
<1>2. /\ turns' \in Seq(TurnType) /\ Len(turns') = Len(turns) /\ Started' = Started
      /\ turns'[t].client = "over"
      /\ \A u \in Started :
            /\ u # t => turns'[u] = turns[u]
            /\ turns'[u].chat = turns[u].chat /\ turns'[u].server = turns[u].server
            /\ turns'[u].round = turns[u].round /\ turns'[u].kept = turns[u].kept
            /\ turns'[u].left = turns[u].left /\ turns'[u].broken = turns[u].broken
  BY <1>1, ClientMoves, PageIs
<1>3. ChunksTyped'
  BY <1>1, <1>2, PageIs DEF ChunksTyped, OwnChunks
<1>4. page' \in PageType /\ page'.pending \in {page.pending, NoPending}
  BY <1>1, PageIs DEF PageType
<1>5. NothingLeft' <=> NothingLeft
  BY <1>2 DEF NothingLeft
<1>6. NothingLeft => t = Len(turns)
  BY <1>1 DEF ChatInv, OnlyTheLast
<1>7. OnlyTheLast'
  BY <1>2, <1>5, <1>6 DEF ChatInv, OnlyTheLast
<1>8. OwnWords'
  BY <1>4, <1>5, Empty DEF ChatInv, OwnWords
<1>9. \A u \in Started : turns'[u].client = "creating" <=> turns[u].client = "creating"
  BY <1>1, <1>2
<1> QED
  BY <1>1, <1>2, <1>3, <1>4, <1>7, <1>8, <1>9, PageStep, PageIs

LEMMA StopStep ==
    ASSUME ChatInv, Stop
    PROVE  ChatInv'
<1> DEFINE t == page.abort
           new == [turns[t] EXCEPT !.aborted = TRUE]
<1>1. /\ t \in Started /\ turns \in Seq(TurnType) /\ turns[t] \in TurnType
      /\ turns' = [turns EXCEPT ![t] = new]
      /\ UNCHANGED <<page, chunks, chats, messages, busy, clock, action, approval>>
  <2>1. t \in Started /\ turns \in Seq(TurnType)
    BY PageIs DEF Stop, Started
  <2>2. turns[t] \in TurnType
    BY <2>1 DEF Started
  <2> QED
    BY <2>1, <2>2 DEF Stop
<1>2. /\ new \in TurnType /\ new.client = turns[t].client
      /\ new.chat = turns[t].chat /\ new.server = turns[t].server
      /\ new.round = turns[t].round /\ new.kept = turns[t].kept
      /\ new.left = turns[t].left /\ new.broken = turns[t].broken
  BY <1>1 DEF TurnType
<1> HIDE DEF new, t
<1>3. /\ turns' \in Seq(TurnType) /\ Len(turns') = Len(turns) /\ turns'[t] = new
      /\ \A u \in Started : u # t => turns'[u] = turns[u]
      /\ Started' = Started
  BY <1>1, <1>2, Becomes DEF Started
<1>4. ASSUME NEW u \in Started
      PROVE  /\ turns'[u].chat = turns[u].chat /\ turns'[u].server = turns[u].server
             /\ turns'[u].round = turns[u].round /\ turns'[u].kept = turns[u].kept
             /\ turns'[u].broken = turns[u].broken /\ turns'[u].client = turns[u].client
             /\ turns'[u].left = turns[u].left
  BY <1>1, <1>2, <1>3
<1>5. OnlyTheLast' /\ OwnWords' /\ ChunksTyped'
  <2>1. NothingLeft' <=> NothingLeft
    BY <1>3, <1>4 DEF NothingLeft
  <2>2. OnlyTheLast'
    BY <1>1, <1>3, <1>4, <2>1 DEF ChatInv, OnlyTheLast
  <2>3. OwnWords'
    BY <1>1, <2>1 DEF ChatInv, OwnWords
  <2>4. ChunksTyped'
    BY <1>1, <1>3, PageIs DEF ChunksTyped, OwnChunks
  <2> QED
    BY <2>2, <2>3, <2>4
<1>6. left' \in LeftType /\ left'.turns = left.turns
  <2>1. left' = [left EXCEPT !.stops = left.stops - 1] /\ left.stops - 1 \in Nat
    BY PageIs DEF Stop
  <2> QED
    BY <2>1, PageIs DEF LeftType
<1> QED
  BY <1>1, <1>3, <1>4, <1>5, <1>6, PageStep, PageIs

LEMMA DeleteStep ==
    ASSUME ChatInv,
           \/ \E c \in Chats : DeleteChat(c)
           \/ \E m \in messages : DeleteMessage(m)
    PROVE  ChatInv'
<1>1. /\ messages' \subseteq messages /\ chats' \subseteq chats
      /\ page' = page \/ page' = [page EXCEPT !.chat = NoChat]
      /\ left.deletes > 0 /\ left' = [left EXCEPT !.deletes = left.deletes - 1]
      /\ UNCHANGED <<turns, chunks, busy, clock, action, approval>>
  BY DEF DeleteChat, DeleteMessage, CanDelete, SpendDelete
<1>2. page' \in PageType /\ page'.pending = page.pending /\ page'.abort = page.abort
  BY <1>1, PageIs DEF PageType
<1>3. Started' = Started /\ ChunksTyped'
  BY <1>1, PageIs DEF Started, ChunksTyped, OwnChunks
<1>4. OnlyTheLast' /\ OwnWords'
  BY <1>1, <1>2, <1>3 DEF ChatInv, OnlyTheLast, OwnWords, NothingLeft
<1>5. left' \in LeftType /\ left'.turns = left.turns
  <2>1. left.deletes - 1 \in Nat
    BY <1>1, PageIs
  <2> QED
    BY <1>1, <2>1, PageIs DEF LeftType
<1> QED
  BY <1>1, <1>2, <1>3, <1>4, <1>5, PageStep, PageIs

-----------------------------------------------------------------------------
(* Restarts and approvals.                                                  *)

LEMMA RestartStep ==
    ASSUME ChatInv, Restart
    PROVE  ChatInv'
<1> DEFINE Fate(t) == IF turns[t].server \in Running
                      THEN [turns[t] EXCEPT !.server = "gone", !.broken = TRUE] ELSE turns[t]
           Rest(t) == IF turns[t].server \in Running /\ turns[t].client = "reading"
                      THEN Append(chunks[t], Chunk("broken", t)) ELSE chunks[t]
<1>1. /\ turns \in Seq(TurnType) /\ Len(turns) \in Nat /\ DOMAIN turns = Started
      /\ Started = 1 .. Len(turns) /\ ChunksTyped
  BY PageIs DEF Started
<1>2. /\ turns' = [t \in 1 .. Len(turns) |-> Fate(t)]
      /\ chunks' = [t \in 1 .. Len(turns) |-> Rest(t)]
  BY <1>1 DEF Restart
<1>3. ASSUME NEW t \in Started
      PROVE  /\ Fate(t) \in TurnType
             /\ Fate(t).chat = turns[t].chat /\ Fate(t).client = turns[t].client
             /\ Fate(t).round = turns[t].round /\ Fate(t).kept = turns[t].kept
             /\ Fate(t).left = turns[t].left
             /\ \/ turns[t].server \notin Running /\ Fate(t) = turns[t]
                \/ turns[t].server \in Running /\ Fate(t).server = "gone" /\ Fate(t).broken
  <2>1. turns[t] \in TurnType
    BY TurnIs
  <2>2. CASE turns[t].server \in Running
    BY <2>1, <2>2 DEF TurnType
  <2> QED
    BY <2>1, <2>2
<1>4. ASSUME NEW t \in Started
      PROVE  /\ Rest(t) \in Seq(ChunkOf(t))
             /\ Rest(t) \in Seq([type : ChunkTypes, turn : Nat])
  <2>1. chunks[t] \in Seq(ChunkOf(t)) /\ Chunk("broken", t) \in ChunkOf(t) /\ t \in Nat
    BY <1>1 DEF ChunksTyped, OwnChunks, Chunk, ChunkOf, ChunkTypes, Ending
  <2>2. Append(chunks[t], Chunk("broken", t)) \in Seq(ChunkOf(t))
    BY <2>1
  <2> QED
    BY <2>1, <2>2, AnyChunk
<1> HIDE DEF Fate, Rest
<1>5. /\ turns' \in Seq(TurnType) /\ Len(turns') = Len(turns) /\ Started' = Started
      /\ \A t \in Started : turns'[t] = Fate(t)
  <2>1. turns' = [t \in 1 .. Len(turns) |-> turns'[t]] /\ \A t \in Started : turns'[t] = Fate(t)
    BY <1>1, <1>2
  <2>2. turns' \in Seq(TurnType) /\ Len(turns') = Len(turns)
    BY <1>1, <1>3, <2>1, IsSequence
  <2> QED
    BY <2>1, <2>2 DEF Started
<1>6. /\ chunks' \in Seq(Seq([type : ChunkTypes, turn : Nat])) /\ Len(chunks') = Len(turns)
      /\ \A t \in Started : chunks'[t] = Rest(t)
  <2>1. chunks' = [t \in 1 .. Len(turns) |-> chunks'[t]] /\ \A t \in Started : chunks'[t] = Rest(t)
    BY <1>1, <1>2
  <2> DEFINE S == Seq([type : ChunkTypes, turn : Nat])
  <2>2. \A t \in 1 .. Len(turns) : chunks'[t] \in S
    BY <1>1, <1>4, <2>1
  <2> HIDE DEF S
  <2>3. chunks' \in Seq(S) /\ Len(chunks') = Len(turns)
    BY <1>1, <2>1, <2>2, IsSequence
  <2> QED
    BY <2>1, <2>3 DEF S
<1>7. /\ left' \in LeftType /\ left'.turns = left.turns
      /\ busy' = [c \in Chats |-> 0] /\ approval' = [p \in Approvers |-> "idle"]
      /\ UNCHANGED <<page, chats, messages, clock, action>>
  <2>1. left' = [left EXCEPT !.restarts = left.restarts - 1] /\ left.restarts > 0
    BY DEF Restart
  <2>2. left \in LeftType /\ left.restarts \in Nat
    BY PageIs DEF LeftType
  <2>3. left.restarts - 1 \in Nat
    BY <2>1, <2>2
  <2> QED
    BY <2>1, <2>2, <2>3 DEF Restart, LeftType
<1>8. Typed' /\ OwnChunks'
  <2>1. PageType' = PageType /\ MessageRows' = MessageRows
    BY <1>5 DEF PageType, MessageType, MessageRows, Word
  <2>2. OwnChunks'
    BY <1>4, <1>5, <1>6 DEF OwnChunks, ChunkOf
  <2>3. busy' \in [Chats -> 0 .. Len(turns)]
        /\ approval' \in [Approvers -> {"idle", "execute", "finish"}]
    BY <1>1, <1>7
  <2> QED
    BY <1>5, <1>6, <1>7, <2>1, <2>2, <2>3 DEF ChatInv, Typed
<1>9. InPlace'
  BY <1>3, <1>5, <1>7 DEF ChatInv, InPlace, AtPlace, Running
<1>10. Claimed' /\ WorkKept'
  BY <1>3, <1>5, <1>7 DEF ChatInv, Claimed, Answering, Running, WorkKept
<1>11. OnlyTheLast' /\ OwnWords'
  BY <1>3, <1>5, <1>7 DEF ChatInv, OnlyTheLast, OwnWords, NothingLeft
<1>12. OneApprover' /\ RunsOnce'
  BY <1>7 DEF ChatInv, OneApprover, RunsOnce
<1> QED
  BY <1>8, <1>9, <1>10, <1>11, <1>12 DEF ChatInv

LEMMA ApprovalStep ==
    ASSUME ChatInv, NEW p \in Approvers, Approval(p)
    PROVE  ChatInv'
<1>1. /\ UNCHANGED <<page, turns, chunks, chats, messages, busy, clock, left>>
      /\ action \in ActionType /\ action.runs \in Nat
      /\ approval \in [Approvers -> {"idle", "execute", "finish"}]
      /\ OneApprover /\ RunsOnce
  BY DEF Approval, Approve, Deny, Execute, ExecuteRefused, Finish, ChatInv, Typed, ActionType
<1>2. /\ action' \in ActionType /\ approval' \in [Approvers -> {"idle", "execute", "finish"}]
      /\ OneApprover' /\ RunsOnce'
  <2>1. CASE Approve(p)
    <3>1. /\ action.status = "proposed" /\ action' = [action EXCEPT !.status = "approved"]
          /\ approval' = [approval EXCEPT ![p] = "execute"]
      BY <2>1 DEF Approve, Undecided
    <3>2. action' \in ActionType /\ action'.status = "approved" /\ action'.runs = 0
      BY <1>1, <3>1 DEF ActionType, OneApprover
    <3>3. \A q \in Approvers : approval'[q] = IF q = p THEN "execute" ELSE "idle"
      BY <1>1, <3>1 DEF OneApprover
    <3> QED
      BY <1>1, <3>1, <3>2, <3>3 DEF OneApprover, RunsOnce
  <2>2. CASE Deny(p)
    <3>1. /\ action.status = "proposed" /\ action' = [action EXCEPT !.status = "denied"]
          /\ approval' = approval
      BY <2>2 DEF Deny, Undecided
    <3>2. action' \in ActionType /\ action'.status = "denied" /\ action'.runs = 0
      BY <1>1, <3>1 DEF ActionType, OneApprover
    <3> QED
      BY <1>1, <3>1, <3>2 DEF OneApprover, RunsOnce
  <2>3. CASE Execute(p)
    <3>1. /\ action.status = "approved" /\ action' = [action EXCEPT !.runs = action.runs + 1]
          /\ approval[p] = "execute" /\ approval' = [approval EXCEPT ![p] = "finish"]
      BY <2>3 DEF Execute
    <3>2. action' \in ActionType /\ action'.status = "approved" /\ action'.runs = 1
      BY <1>1, <3>1 DEF ActionType, OneApprover
    <3>3. \A q \in Approvers : approval'[q] = IF q = p THEN "finish" ELSE "idle"
      BY <1>1, <3>1 DEF OneApprover
    <3> QED
      BY <1>1, <3>1, <3>2, <3>3 DEF OneApprover, RunsOnce
  <2>4. CASE ExecuteRefused(p)
    <3>1. action' = action /\ approval' = [approval EXCEPT ![p] = "idle"]
      BY <2>4 DEF ExecuteRefused
    <3>2. \A q \in Approvers : approval'[q] = IF q = p THEN "idle" ELSE approval[q]
      BY <1>1, <3>1
    <3> QED
      BY <1>1, <3>1, <3>2 DEF OneApprover, RunsOnce
  <2>5. CASE Finish(p)
    <3>1. PICK s \in {"executed", "failed", action.status} : action' = [action EXCEPT !.status = s]
      BY <2>5 DEF Finish
    <3>2. approval[p] = "finish" /\ approval' = [approval EXCEPT ![p] = "idle"]
      BY <2>5 DEF Finish
    <3>3. action.status = "approved" /\ action.runs = 1
      BY <1>1, <3>2 DEF OneApprover
    <3>4. action' \in ActionType /\ action'.runs = 1
          /\ action'.status \in {"executed", "failed", "approved"}
      BY <1>1, <3>1, <3>3 DEF ActionType
    <3>5. \A q \in Approvers : approval'[q] = "idle"
      BY <1>1, <3>2 DEF OneApprover
    <3> QED
      BY <1>1, <3>2, <3>4, <3>5 DEF OneApprover, RunsOnce
  <2> QED
    BY <2>1, <2>2, <2>3, <2>4, <2>5 DEF Approval
<1>3. Started' = Started /\ PageType' = PageType /\ MessageRows' = MessageRows
      /\ (NothingLeft' <=> NothingLeft)
  BY <1>1 DEF Started, PageType, MessageType, MessageRows, Word, NothingLeft
<1>4. Typed' /\ OwnChunks'
  BY <1>1, <1>2, <1>3 DEF ChatInv, Typed, OwnChunks
<1>5. InPlace' /\ Claimed' /\ WorkKept' /\ OnlyTheLast' /\ OwnWords'
  BY <1>1, <1>3 DEF ChatInv, InPlace, Claimed, WorkKept, OnlyTheLast, OwnWords
<1> QED
  BY <1>2, <1>4, <1>5 DEF ChatInv

-----------------------------------------------------------------------------
(* The theorems.                                                            *)

LEMMA ChatInit ==
    ASSUME Init
    PROVE  ChatInv
<1>1. /\ turns = <<>> /\ Len(turns) = 0 /\ Started = {} /\ chunks = <<>> /\ chats = {}
      /\ messages = {} /\ page = [chat |-> NoChat, pending |-> NoPending, abort |-> 0]
      /\ action = [status |-> "none", runs |-> 0]
  BY DEF Init, Started
<1>2. left \in LeftType /\ Len(turns) + left.turns <= MaxTurns
  <2>1. left \in [turns : 0 .. MaxTurns, tools : Nat, proposals : Nat, stops : Nat,
                  deletes : Nat, restarts : Nat, faults : Nat]
    BY AgentChatAssumption DEF Init
  <2> QED
    BY <1>1, <2>1, AgentChatAssumption DEF LeftType
<1>3. Typed
  <2>1. page \in PageType /\ action \in ActionType
    BY <1>1 DEF PageType, ActionType
  <2>2. /\ turns \in Seq(TurnType) /\ Len(chunks) = Len(turns)
        /\ chunks \in Seq(Seq([type : ChunkTypes, turn : Nat]))
    BY <1>1
  <2>3. /\ busy \in [Chats -> 0 .. Len(turns)] /\ clock \in Nat \ {0}
        /\ approval \in [Approvers -> {"idle", "execute", "finish"}]
    BY <1>1 DEF Init
  <2> QED
    BY <1>1, <1>2, <2>1, <2>2, <2>3 DEF Typed
<1>4. OwnChunks /\ InPlace /\ Claimed /\ WorkKept /\ OnlyTheLast
  BY <1>1 DEF OwnChunks, InPlace, Claimed, WorkKept, OnlyTheLast
<1>5. OwnWords /\ OneApprover /\ RunsOnce
  <2>1. page.pending.parts = <<>>
    BY <1>1 DEF NoPending
  <2> QED
    BY <1>1, <2>1 DEF OwnWords, OneApprover, RunsOnce, Init
<1> QED
  BY <1>3, <1>4, <1>5 DEF ChatInv

LEMMA ChatStep ==
    ASSUME ChatInv, [Next]_vars
    PROVE  ChatInv'
<1>1. CASE Next
  <2>1. ASSUME NEW t \in Started, Reader(t)
        PROVE  ChatInv'
    BY <2>1, ReceiveStep, EndsStep, SettleStep DEF Reader
  <2> QED
    BY <1>1, <2>1, SendStep, StopStep, RestartStep, HandlerKeeps, StallStep, CreatedStep, OpenStep,
       DeleteStep, ApprovalStep DEF Next
<1>2. CASE UNCHANGED vars
  <2>1. /\ Started' = Started /\ PageType' = PageType /\ MessageRows' = MessageRows
        /\ (NothingLeft' <=> NothingLeft)
    BY <1>2 DEF vars, Started, PageType, MessageType, MessageRows, Word, NothingLeft
  <2>2. Typed' /\ OwnChunks'
    BY <1>2, <2>1 DEF vars, ChatInv, Typed, OwnChunks
  <2> QED
    BY <1>2, <2>1, <2>2
       DEF vars, ChatInv, InPlace, Claimed, WorkKept, OnlyTheLast, OwnWords,
           OneApprover, RunsOnce
<1> QED
  BY <1>1, <1>2

LEMMA ChatCorrect == Spec => []ChatInv
<1>1. Init => ChatInv
  BY ChatInit
<1>2. ChatInv /\ [Next]_vars => ChatInv'
  BY ChatStep
<1> QED
  BY <1>1, <1>2, PTL DEF Spec

(* The page, the handlers and the rows stay of their kinds, whatever is        *)
(* stopped, deleted or restarted under a turn: no turn has more rounds than    *)
(* pol.maxRounds() allows, and every chunk belongs to a turn that started.    *)
THEOREM TypeCorrect == Spec => []TypeOK
<1>1. ChatInv => TypeOK
  <2> SUFFICES ASSUME ChatInv PROVE TypeOK
    OBVIOUS
  <2>1. /\ turns \in Seq(TurnType) /\ Len(turns) \in Nat /\ page \in PageType
        /\ page.pending \in {NoPending} \cup MessageType
        /\ Started = 1 .. Len(turns)
    BY PageIs DEF Started
  <2>2. /\ page.chat \in Chats \cup {NoChat} /\ page.abort \in 0 .. Len(turns)
        /\ page.pending.own \in 0 .. Len(turns)
        /\ page.pending.status \in {"none", "streaming", "done", "error"}
        /\ page.pending.parts \in Seq([open : BOOLEAN, of : SUBSET (1 .. Len(turns))])
    <3>1. CASE page.pending = NoPending
      BY <2>1, <3>1, PageIs, Empty
    <3>2. CASE page.pending \in MessageType
      BY <2>1, <3>2, PageIs DEF MessageType, Word
    <3> QED
      BY <2>1, <3>1, <3>2
  <2>3. chunks \in [1 .. Len(turns) -> Seq([type : ChunkTypes, turn : 1 .. Len(turns)])]
    <3>1. ASSUME NEW t \in 1 .. Len(turns)
          PROVE  chunks[t] \in Seq([type : ChunkTypes, turn : 1 .. Len(turns)])
      <4>1. ChunkOf(t) \subseteq [type : ChunkTypes, turn : 1 .. Len(turns)]
        BY DEF ChunkOf
      <4>2. chunks[t] \in Seq(ChunkOf(t))
        BY <2>1 DEF ChatInv, OwnChunks
      <4> QED
        BY <4>1, <4>2, SeqMonotonic
    <3>2. chunks \in Seq(Seq([type : ChunkTypes, turn : Nat])) /\ Len(chunks) = Len(turns)
      BY DEF ChatInv, Typed
    <3>3. chunks = [t \in 1 .. Len(turns) |-> chunks[t]]
      BY <3>2
    <3> QED
      BY <3>1, <3>3
  <2>4. action.runs \in Nat
        /\ action.status \in {"none", "proposed", "approved", "denied", "executed", "failed"}
    BY DEF ChatInv, Typed, ActionType
  <2> QED
    BY <2>1, <2>2, <2>3, <2>4 DEF ChatInv, Typed, TypeOK, MessageRows, LeftType
<1> QED
  BY <1>1, ChatCorrect, PTL

(* Whatever stops, fails or goes away after the first finished round, the        *)
(* handler gets to the write of its message, for every number of rounds and    *)
(* turns (StreamChat, persist): only a restart of the process comes before it.  *)
(* That write is tried once and may fail.                                     *)
THEOREM WorkIsKept == Spec => []WorkKept
<1>1. ChatInv => WorkKept
  BY DEF ChatInv
<1> QED
  BY <1>1, ChatCorrect, PTL

(* One answer at a time: chatStreams lets one handler of a chat through, and on  *)
(* the page the pending message and the stop button are those of the turn in   *)
(* flight (StreamChat, runTurn), for every number of chats and turns.         *)
THEOREM AnswersOneByOne == Spec => []OneAnswer
<1>1. ChatInv => OneStream
  <2> SUFFICES ASSUME ChatInv, NEW t \in Started, NEW u \in Started,
                      Answering(turns[t]), Answering(turns[u]), turns[t].chat = turns[u].chat
               PROVE  t = u
    BY DEF OneStream, Answering
  <2> QED
    BY DEF ChatInv, Claimed
<1>2. ChatInv => PendingIsTheTurn
  <2> SUFFICES ASSUME ChatInv, NothingLeft
               PROVE  /\ \A i \in 1 .. Len(page.pending.parts) :
                            page.pending.parts[i].of \subseteq {page.pending.own}
                      /\ streaming /\ turns[page.pending.own].client = "reading" =>
                            page.abort = page.pending.own
    BY DEF PendingIsTheTurn, NothingLeft
  <2>1. streaming => page.pending.own \in Started
    BY PageIs, Empty DEF streaming, MessageType
  <2> QED
    BY <2>1 DEF ChatInv, OwnWords, OnlyTheLast
<1> QED
  BY <1>1, <1>2, ChatCorrect, PTL DEF OneAnswer

(* A proposal runs at most once and only when it was approved, however many      *)
(* people decide at the same time and wherever a request or the process dies   *)
(* between the decision, the tool and its result (DecideAIAction,              *)
(* ExecuteApproved).                                                          *)
THEOREM ApprovedOnce == Spec => []RunsOnce
<1>1. ChatInv => RunsOnce
  BY DEF ChatInv
<1> QED
  BY <1>1, ChatCorrect, PTL
=============================================================================
