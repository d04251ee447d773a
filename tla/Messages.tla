------------------------------ MODULE Messages ------------------------------
(***************************************************************************)
(* The message operations of the engine (packages/core/src/chatpack.ts)    *)
(* over the storage contract (packages/adapter-memory/src/index.ts):       *)
(* sendMessage, forwardMessage, editMessage, deleteMessage, addReaction    *)
(* and removeReaction.                                                     *)
(*                                                                         *)
(* Every operation is an async function.  Each awaited storage call is one *)
(* atomic step, and any other request may run between two of them, so a    *)
(* request is a small process: a program counter, its arguments, and what  *)
(* it has read so far.  What it read may be stale when it is used.         *)
(*                                                                         *)
(* A message id is its position in msgs (storage hands out fresh ids in    *)
(* insertion order); 0 stands for null.  A row carries its two side tables *)
(* (mentions, reactions) as the fields tags and reacts.  Emojis never      *)
(* interact, so a single one is modelled: reacts is the set of its users.  *)
(***************************************************************************)
EXTENDS Integers, Sequences, FiniteSets

CONSTANTS
    Users,          \* user ids
    Conversations,  \* group conversations
    Founders,       \* [conversation -> its first participants]
    Bodies,         \* non-empty message bodies
    NoBody,         \* the empty body a tombstone is given
    Slots,          \* requests that may be in flight at the same time
    Ops,            \* the operations clients call
    MentionSets,    \* [operation -> the mention sets clients pass with it]
    MaxMessages,    \* bound: messages stored
    MaxRequests,    \* bound: requests started
    MaxChurn,       \* bound: joins and departures
    MaxFailures     \* bound: requests lost after their write

ASSUME MessagesAssumption ==
    /\ NoBody \notin Bodies
    /\ Founders \in [Conversations -> SUBSET Users]
    /\ Ops \subseteq {"send", "forward", "edit", "delete", "react", "unreact"}
    /\ MentionSets \in [{"send", "forward", "edit"} -> SUBSET SUBSET Users]
    /\ MaxMessages \in Nat

VARIABLES
    members,    \* [conversation -> its participants]
    ever,       \* [conversation -> everyone who has been a participant], history
    msgs,       \* the message rows, by id
    nextSeq,    \* [conversation -> the seq of its next message]
    activity,   \* [conversation -> its last activity tick]
    req,        \* [slot -> the request it runs]
    bus,        \* the events handed to the transport, in order
    shown,      \* [id -> the message as a client shows it that sees every event]
    started, churn, failures    \* what has been spent of the bounds

store == <<msgs, nextSeq, activity>>
people == <<members, ever, churn>>
vars == <<members, ever, churn, msgs, nextSeq, activity, req, bus, shown, started,
          failures>>

Texts == Bodies \cup {NoBody}

Row == [conv : Conversations, seq : Nat, sender : Users, body : Texts,
        edited : BOOLEAN, deleted : BOOLEAN, reply : Nat, root : Nat,
        main : BOOLEAN, fwd : Nat, tags : SUBSET Users, reacts : SUBSET Users]

Idle == [pc |-> "idle"]

(***************************************************************************)
(* A request in flight: what it does next, its arguments (retag: did the   *)
(* caller pass mentions at all), the row it read or writes, its snapshot   *)
(* of the participants, and the id of the message it is about.             *)
(***************************************************************************)
Busy == [pc : {"verify", "source", "target", "conv", "stored", "write", "tags",
               "decorate", "publish"},
         op : {"send", "forward", "edit", "delete", "react", "unreact"},
         user : Users, conv : Conversations, id : Nat, row : Row, snap : SUBSET Users,
         text : Texts, tags : SUBSET Users, retag : BOOLEAN]

Event == [type : {"send", "forward", "edit", "delete", "react", "unreact"},
          id : Nat, row : Row, to : SUBSET Users]

Ids == 1..Len(msgs)

\* A stored row has its seq; 0 is what "nothing read yet" counts as.
Stored == {row \in Row : row.seq # 0}

Draft(u, c, body, reply, root, main, fwd) ==
    [conv |-> c, seq |-> 0, sender |-> u, body |-> body, edited |-> FALSE,
     deleted |-> FALSE, reply |-> reply, root |-> root, main |-> main, fwd |-> fwd,
     tags |-> {}, reacts |-> {}]

Request(pc, op, u, c, id, row, snap, text, tags, retag) ==
    [pc |-> pc, op |-> op, user |-> u, conv |-> c, id |-> id, row |-> row,
     snap |-> snap, text |-> text, tags |-> tags, retag |-> retag]

\* A slot moves on, with what its last call returned.
Step(r, new) == req' = [req EXCEPT ![r] = new]

At(r, pc) == req[r].pc = pc

IsReaction(op) == op \in {"react", "unreact"}

\* The message the request is about is stored; a send or a forward is about none
\* before its own insert.
OnStored(q) ==
    q.op \notin {"send", "forward"} \/ q.pc \in {"tags", "decorate", "publish"}

Begin(r, op) ==
    /\ op \in Ops
    /\ req[r] = Idle
    /\ started < MaxRequests
    /\ started' = started + 1
    /\ UNCHANGED <<members, ever, churn, msgs, nextSeq, activity, bus, shown, failures>>

Continue ==
    UNCHANGED <<members, ever, churn, started, failures>>
-----------------------------------------------------------------------------
(***************************************************************************)
(* The reads.  A check that fails refuses the request (Refuse), so here a  *)
(* check is a guard.                                                       *)
(***************************************************************************)

\* sendMessage: the conversation, the write permission, and the mentions,
\* which are checked against this snapshot.
SendLoad(r) ==
    /\ Begin(r, "send")
    /\ \E u \in Users, c \in Conversations, body \in Bodies, tags \in MentionSets["send"],
          reply, root \in {0} \cup Ids, main \in BOOLEAN :
        /\ u \in members[c]
        /\ tags \subseteq members[c]
        /\ main => root # 0
        /\ Step(r, Request("verify", "send", u, c, 0,
                           Draft(u, c, body, reply, root, main, 0),
                           members[c], body, tags, TRUE))

\* Bug: a thread may be rooted in another conversation.
RootFitsElsewhere(root, c) == root # 0 => msgs[root].root = 0

\* A thread root is a top-level message of this conversation.
RootFits(root, c) == root # 0 => msgs[root].conv = c /\ msgs[root].root = 0

\* sendMessage: the thread root, and the answered message is in here too.
SendVerify(r) ==
    /\ At(r, "verify")
    /\ LET q == req[r] IN
        /\ RootFits(q.row.root, q.conv)
        /\ q.row.reply # 0 => msgs[q.row.reply].conv = q.conv
        /\ Step(r, [q EXCEPT !.pc = "write"])
    /\ Continue /\ UNCHANGED <<store, bus, shown>>

ForwardLoad(r) ==
    /\ Begin(r, "forward")
    /\ \E u \in Users, id \in Ids, c \in Conversations, tags \in MentionSets["forward"] :
        Step(r, Request("source", "forward", u, c, id, msgs[id], {}, NoBody, tags, TRUE))

\* forwardMessage: the reader of the source, and the source as first read.
ForwardSource(r) ==
    /\ At(r, "source")
    /\ LET q == req[r] IN
        /\ q.user \in members[q.row.conv]
        /\ ~q.row.deleted
        /\ Step(r, [q EXCEPT !.pc = "target"])
    /\ Continue /\ UNCHANGED <<store, bus, shown>>

ForwardDraft(q) == Draft(q.user, q.conv, q.row.body, 0, 0, FALSE, q.id)

\* Bug: the mentions of the source travel with its text.
ForwardedWithMentions(q) ==
    [q EXCEPT !.pc = "write", !.snap = members[q.conv], !.id = 0,
              !.row = ForwardDraft(q), !.tags = @ \cup q.row.tags]

\* What will be written: a draft that copies the text and nothing else.
Forwarded(q) ==
    [q EXCEPT !.pc = "write", !.snap = members[q.conv], !.id = 0, !.row = ForwardDraft(q)]

\* forwardMessage: the target, and a body the hooks accept.
ForwardTarget(r) ==
    /\ At(r, "target")
    /\ LET q == req[r] IN
        /\ q.user \in members[q.conv]
        /\ q.tags \subseteq members[q.conv]
        /\ q.row.body # NoBody
        /\ Step(r, Forwarded(q))
    /\ Continue /\ UNCHANGED <<store, bus, shown>>

\* Bug: a deleted message can be edited.
EditLoadOfAny(r) ==
    /\ Begin(r, "edit")
    /\ \E u \in Users, id \in Ids, body \in Bodies :
        /\ msgs[id].sender = u
        /\ Step(r, Request("conv", "edit", u, msgs[id].conv, id, msgs[id], {}, body, {}, FALSE))

EditLoad(r) ==
    /\ Begin(r, "edit")
    /\ \E u \in Users, id \in Ids, body \in Bodies, tags \in MentionSets["edit"], retag \in BOOLEAN :
        /\ ~msgs[id].deleted
        /\ msgs[id].sender = u
        /\ ~retag => tags = {}
        /\ Step(r, Request("conv", "edit", u, msgs[id].conv, id, msgs[id], {},
                           body, tags, retag))

\* A message already deleted is returned as it is: no further step.
DeleteLoad(r) ==
    /\ Begin(r, "delete")
    /\ \E u \in Users, id \in Ids :
        /\ msgs[id].sender = u
        /\ ~msgs[id].deleted
        /\ Step(r, Request("conv", "delete", u, msgs[id].conv, id, msgs[id], {},
                           NoBody, {}, FALSE))

\* changeReaction: any message, a tombstone included.
ReactLoad(r) ==
    \E op \in {"react", "unreact"} :
        /\ Begin(r, op)
        /\ \E u \in Users, id \in Ids :
            Step(r, Request("conv", op, u, msgs[id].conv, id, msgs[id], {},
                            NoBody, {}, FALSE))

\* editMessage, deleteMessage, changeReaction: the conversation of the message.
LoadConversation(r) ==
    /\ At(r, "conv")
    /\ LET q == req[r] IN
        /\ q.user \in members[q.conv]
        /\ Step(r, [q EXCEPT !.snap = members[q.conv],
                             !.pc = IF q.op = "edit" THEN "stored" ELSE "write"])
    /\ Continue /\ UNCHANGED <<store, bus, shown>>

\* editMessage: only the mentions not stored already are checked again.
EditStored(r) ==
    /\ At(r, "stored")
    /\ LET q == req[r] IN
        /\ q.tags \subseteq q.snap \cup msgs[q.id].tags
        /\ Step(r, [q EXCEPT !.pc = "write"])
    /\ Continue /\ UNCHANGED <<store, bus, shown>>
-----------------------------------------------------------------------------
(***************************************************************************)
(* The writes.                                                             *)
(***************************************************************************)

\* Bug: seq is a count of the live messages, or starts at 0.
SeqOfLive(c) == Cardinality({i \in Ids : msgs[i].conv = c /\ ~msgs[i].deleted}) + 1
SeqFromZero(c) == nextSeq[c] - 1

SeqFor(c) == nextSeq[c]

\* Bug: a thread reply also sent to main does not move its conversation.
TopLevelOnly(row) == row.root = 0

ShowsInMain(row) == row.root = 0 \/ row.main

\* Bug: a forward reads its source again when it is written.
CopyAtWrite(q) ==
    [q.row EXCEPT !.seq = SeqFor(q.conv),
                  !.body = IF q.row.fwd # 0 THEN msgs[q.row.fwd].body ELSE @]

NewRow(q) == [q.row EXCEPT !.seq = SeqFor(q.conv)]

\* storage.addMessage: a fresh id, the conversation's next seq, and an activity
\* tick when the message shows in the main timeline.
AddMessage(r) ==
    /\ At(r, "write")
    /\ Len(msgs) < MaxMessages
    /\ LET q   == req[r]
           id  == Len(msgs) + 1
           row == NewRow(q)
       IN
        /\ q.op \in {"send", "forward"}
        /\ msgs' = Append(msgs, row)
        /\ nextSeq' = [nextSeq EXCEPT ![q.conv] = @ + 1]
        /\ activity' = [activity EXCEPT ![q.conv] =
                            IF ShowsInMain(row) THEN id ELSE @]
        /\ Step(r, [q EXCEPT !.id = id, !.row = row,
                             !.pc = IF q.tags # {} THEN "tags" ELSE "decorate"])
    /\ Continue /\ UNCHANGED <<bus, shown>>

\* storage.updateMessage writes the fields it is given and no other.
UpdateRow(r, row, pc) ==
    /\ msgs' = [msgs EXCEPT ![req[r].id] = row]
    /\ Step(r, [req[r] EXCEPT !.row = row, !.pc = pc])
    /\ Continue /\ UNCHANGED <<nextSeq, activity, bus, shown>>

\* Bug: the row read at the start is written back with the new text.
EditOfSnapshot(q) == [q.row EXCEPT !.body = q.text, !.edited = TRUE]

EditOf(q) == [msgs[q.id] EXCEPT !.body = q.text, !.edited = TRUE]

EditWrite(r) ==
    /\ At(r, "write")
    /\ req[r].op = "edit"
    /\ UpdateRow(r, EditOf(req[r]), IF req[r].retag THEN "tags" ELSE "decorate")

DeleteWrite(r) ==
    /\ At(r, "write")
    /\ req[r].op = "delete"
    /\ UpdateRow(r, [msgs[req[r].id] EXCEPT !.body = NoBody, !.deleted = TRUE], "decorate")

\* storage.addReaction and removeReaction are idempotent and return the whole
\* set; the rest of the row announced is the one read at the start.
ReactWrite(r) ==
    /\ At(r, "write")
    /\ IsReaction(req[r].op)
    /\ LET q == req[r]
           reacts == IF q.op = "react" THEN msgs[q.id].reacts \cup {q.user}
                                       ELSE msgs[q.id].reacts \ {q.user}
       IN
        /\ msgs' = [msgs EXCEPT ![q.id].reacts = reacts]
        /\ Step(r, [q EXCEPT !.row.reacts = reacts, !.pc = "decorate"])
    /\ Continue /\ UNCHANGED <<nextSeq, activity, bus, shown>>

\* storage.setMessageMentions replaces the whole set.
SetMentions(r) ==
    /\ At(r, "tags")
    /\ msgs' = [msgs EXCEPT ![req[r].id].tags = req[r].tags]
    /\ Step(r, [req[r] EXCEPT !.pc = "decorate"])
    /\ Continue /\ UNCHANGED <<nextSeq, activity, bus, shown>>

\* withDetails reads the mentions and reactions of the row; changeReaction then
\* puts back the reactions its own write returned.
Decorate(r) ==
    /\ At(r, "decorate")
    /\ LET q == req[r]
           now == msgs[q.id]
       IN Step(r, [q EXCEPT
                     !.row.tags = now.tags,
                     !.row.reacts = IF IsReaction(q.op) THEN @ ELSE now.reacts,
                     !.pc = "publish"])
    /\ Continue /\ UNCHANGED <<store, bus, shown>>

\* What a client makes of an event (client/src/store-cache.ts): a message.* event
\* replaces the row, a reaction.* event replaces the reactions of the row and nothing
\* else.  A reaction on a message it does not show is dropped.
NotShown == [seq |-> 0]

Screens == [1..MaxMessages -> {NotShown} \cup Row]

\* Bug: a reaction replaces the whole row.
ReplaceRow(old, e) == IF IsReaction(e.type) /\ old = NotShown THEN old ELSE e.row

ApplyEvent(old, e) ==
    CASE ~IsReaction(e.type) -> e.row
      [] IsReaction(e.type) /\ old # NotShown -> [old EXCEPT !.reacts = e.row.reacts]
      [] OTHER -> old

\* The event goes to the participants of the snapshot.
Publish(r) ==
    /\ At(r, "publish")
    /\ LET e == [type |-> req[r].op, id |-> req[r].id, row |-> req[r].row,
                 to |-> req[r].snap]
       IN /\ bus' = Append(bus, e)
          /\ shown' = [shown EXCEPT ![e.id] = ApplyEvent(@, e)]
    /\ Step(r, Idle)
    /\ Continue /\ UNCHANGED store
-----------------------------------------------------------------------------
\* A request stops before its write: a ban, a block, a missing permission, an
\* unknown or deleted message, a hook that throws, a storage error.
Refuse(r) ==
    /\ req[r].pc \in {"verify", "source", "target", "conv", "stored", "write"}
    /\ Step(r, Idle)
    /\ Continue /\ UNCHANGED <<store, bus, shown>>

\* The process or a storage call dies after the write: nothing is announced.
Fail(r) ==
    /\ req[r].pc \in {"tags", "decorate", "publish"}
    /\ failures < MaxFailures
    /\ failures' = failures + 1
    /\ Step(r, Idle)
    /\ UNCHANGED <<store, people, bus, shown, started>>

\* Other requests change the membership of the groups.
Join(c, u) ==
    /\ churn < MaxChurn
    /\ u \notin members[c]
    /\ members' = [members EXCEPT ![c] = @ \cup {u}]
    /\ ever' = [ever EXCEPT ![c] = @ \cup {u}]
    /\ churn' = churn + 1
    /\ UNCHANGED <<store, req, bus, shown, started, failures>>

Leave(c, u) ==
    /\ churn < MaxChurn
    /\ u \in members[c]
    /\ members' = [members EXCEPT ![c] = @ \ {u}]
    /\ churn' = churn + 1
    /\ UNCHANGED <<ever, store, req, bus, shown, started, failures>>

Init ==
    /\ members = Founders
    /\ ever = Founders
    /\ msgs = <<>>
    /\ nextSeq = [c \in Conversations |-> 1]
    /\ activity = [c \in Conversations |-> 0]
    /\ req = [r \in Slots |-> Idle]
    /\ bus = <<>>
    /\ shown = [id \in 1..MaxMessages |-> NotShown]
    /\ started = 0 /\ churn = 0 /\ failures = 0

Read(r) ==
    \/ SendLoad(r) \/ SendVerify(r) \/ ForwardLoad(r) \/ ForwardSource(r)
    \/ ForwardTarget(r) \/ EditLoad(r) \/ DeleteLoad(r) \/ ReactLoad(r)
    \/ LoadConversation(r) \/ EditStored(r)

Write(r) ==
    \/ AddMessage(r) \/ EditWrite(r) \/ DeleteWrite(r) \/ ReactWrite(r)
    \/ SetMentions(r)

Announce(r) == Decorate(r) \/ Publish(r)

Next ==
    \/ \E r \in Slots : Read(r) \/ Write(r) \/ Announce(r) \/ Refuse(r) \/ Fail(r)
    \/ \E c \in Conversations, u \in Users : Join(c, u) \/ Leave(c, u)

Spec == Init /\ [][Next]_vars
-----------------------------------------------------------------------------
(***************************************************************************)
(* What is promised.                                                       *)
(***************************************************************************)

(* Every variable has its type; a busy request about a stored message names
   one, and only a request that has not inserted its message names none. *)
TypeOK ==
    /\ members \in [Conversations -> SUBSET Users]
    /\ ever \in [Conversations -> SUBSET Users]
    /\ msgs \in Seq(Stored)
    /\ nextSeq \in [Conversations -> Nat \ {0}]
    /\ activity \in [Conversations -> Nat]
    /\ req \in [Slots -> {Idle} \cup Busy]
    /\ bus \in Seq(Event)
    /\ shown \in Screens
    /\ started \in Nat /\ churn \in Nat /\ failures \in Nat

(* ADR 0003: within a conversation seq is dense and unique and follows the
   order of insertion, whatever requests interleave: addMessage takes it from
   the conversation's counter and bumps the counter in the same step. *)
SeqIsTheOrder ==
    /\ \A i, j \in Ids : i < j /\ msgs[i].conv = msgs[j].conv => msgs[i].seq < msgs[j].seq
    /\ \A c \in Conversations :
        {msgs[i].seq : i \in {k \in Ids : msgs[k].conv = c}} = 1..nextSeq[c] - 1

ParentsFit(row, i) ==
    /\ row.fwd \in 0..i - 1
    /\ row.reply # 0 => row.reply \in 1..i - 1 /\ msgs[row.reply].conv = row.conv
    /\ row.root # 0 =>
        /\ row.root \in 1..i - 1
        /\ msgs[row.root].conv = row.conv
        /\ msgs[row.root].root = 0

(* A reply answers an earlier message of its own conversation and a thread is
   one level deep, although the parent is read some steps before the insert:
   what was checked (its conversation, being top-level) cannot change.  A
   forward comes after its source, which may be in any conversation. *)
RepliesStayInside == \A i \in Ids : ParentsFit(msgs[i], i)

(* ADR 0023: a stored mention names someone who was a participant of the
   message's own conversation when it was claimed.  It outlives their leaving,
   a forward never carries the mentions of its source along, and an edit may
   keep the ones already stored. *)
MentionsWereParticipants ==
    \A i \in Ids : msgs[i].tags \subseteq ever[msgs[i].conv]

(* A forward (ADR 0024) copies words, never a tombstone's emptiness: a message
   that has not been deleted has a body, however a delete of its source fell
   between the reads of the forward. *)
LiveMessagesHaveBodies ==
    \A i \in Ids : ~msgs[i].deleted => msgs[i].body # NoBody

(* The conversation list is ordered by the last message that shows in the main
   timeline: a thread reply moves nothing unless it is also sent to main. *)
ActivityIsLastVisible ==
    \A c \in Conversations :
        LET visible == {i \in Ids : msgs[i].conv = c /\ (msgs[i].root = 0 \/ msgs[i].main)}
        IN IF visible = {} THEN activity[c] = 0
           ELSE activity[c] \in visible /\ \A i \in visible : i <= activity[c]

(* The rows are an implementation of the append-only log of MessageLog: a post
   keeps its seq and its frozen fields for ever, and erasing it is final, even
   when an edit that read the row before the delete writes after it. *)
Posts == [sender : Users, reply : 0..MaxMessages, root : 0..MaxMessages,
          main : BOOLEAN, fwd : 0..MaxMessages]

EntryOf(row) ==
    [post |-> [sender |-> row.sender, reply |-> row.reply, root |-> row.root,
               main |-> row.main, fwd |-> row.fwd],
     erased |-> row.deleted]

Log ==
    [c \in Conversations |->
        [s \in 1..nextSeq[c] - 1 |->
            EntryOf(msgs[CHOOSE i \in Ids : msgs[i].conv = c /\ msgs[i].seq = s])]]

AbstractLog == INSTANCE MessageLog WITH log <- Log
LogSpec == AbstractLog!LogSpec

(* What a request has checked still holds when the request is used, however
   long it waited in between: the message it is about keeps its conversation,
   the parents of the message it is about to insert are in that conversation
   and the thread root is top-level, it has a body, and whoever it mentions has
   been a participant (if no longer is one). *)
ReadyToInsert(q) ==
    /\ q.row.conv = q.conv
    /\ q.row.body # NoBody
    /\ q.row.tags = {}
    /\ ~q.row.deleted
    /\ IF q.pc = "write" THEN ParentsFit(q.row, Len(msgs) + 1)
       ELSE q.row.fwd = 0 /\ {q.row.reply, q.row.root} \subseteq 0..Len(msgs)

Sound(q) ==
    /\ OnStored(q) => q.id \in Ids /\ msgs[q.id].conv = q.conv
    /\ ~OnStored(q) /\ q.pc \in {"verify", "write"} => ReadyToInsert(q)
    /\ q.pc = "verify" => q.op = "send"
    /\ q.pc \in {"source", "target"} => q.op = "forward" /\ q.id \in Ids
    /\ q.pc \in {"conv", "stored"} => q.op \notin {"send", "forward"}
    /\ q.op = "edit" => q.text # NoBody
    /\ q.snap \subseteq ever[q.conv]
    /\ q.pc \in {"write", "tags"} \/ q.op \notin {"forward", "edit"}
            => q.tags \subseteq ever[q.conv]

ChecksStillHold == \A r \in Slots : req[r] # Idle => Sound(req[r])
=============================================================================
