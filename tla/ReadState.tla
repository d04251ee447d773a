------------------------------ MODULE ReadState ------------------------------
(***************************************************************************)
(* Durable read-state: markRead and the unread counts computed from it     *)
(* (packages/core/src/chatpack.ts, storage's updateLastRead and            *)
(* countUnread), and the read receipts plugin that hears of every write.   *)
(*                                                                         *)
(* markRead loads the conversation, looks the message up, compares it with *)
(* the read-state that was loaded, writes, and then notifies the plugins:  *)
(* four awaited steps, between which a second tab of the same user, a new  *)
(* message or a departure may fall.                                        *)
(*                                                                         *)
(* Message ids resolve to their seq at query time (ADR 0009 par. 3) and    *)
(* both never change, so a message is named by its conversation and seq,   *)
(* and a marker of 0 is the null lastReadMessageId.                        *)
(***************************************************************************)
EXTENDS Integers, Sequences, FiniteSets

CONSTANTS
    Users,          \* user ids
    Conversations,  \* the conversations
    Founders,       \* the first participants of each of them
    Slots,          \* markRead calls that may be in flight at the same time
    MaxMessages,    \* bound: messages per conversation
    MaxMarks,       \* bound: markRead calls
    MaxChurn        \* bound: joins and departures

ASSUME ReadStateAssumption ==
    /\ Founders \subseteq Users
    /\ MaxMessages \in Nat

VARIABLES
    members,    \* [conversation -> its participants]
    left,       \* [conversation -> everyone who ever left it], history
    log,        \* [conversation -> its messages, by seq]
    marker,     \* [conversation -> [user -> seq of the last message read]]
    mark,       \* [slot -> the markRead call it runs]
    receipts,   \* the receipt.read events sent, in order
    raced,      \* [conversation -> whose marks of it were in flight together], history
    marks, churn    \* what has been spent of the bounds

vars == <<members, left, log, marker, mark, receipts, raced, marks, churn>>

Message == [sender : Users, main : BOOLEAN]

Idle == [pc |-> "idle"]

\* A call in flight: what it was asked, and the conversation as it loaded it.
Call == [pc : {"check", "write", "notify"}, user : Users, conv : Conversations,
         seq : Nat, seen : Nat, snap : SUBSET Users]

Receipt == [user : Users, conv : Conversations, seq : Nat, to : SUBSET Users]
-----------------------------------------------------------------------------
\* A user marks something read in a conversation: a call that is under way.
Marking(u, c) == \E s \in Slots : mark[s] # Idle /\ mark[s].user = u /\ mark[s].conv = c

\* The conversation is loaded, with the caller's marker; only participants have
\* read-state.  A message of another conversation is refused and not started.
\* No lock is taken: a second call of the same user may be under way.
MarkLoad(s) ==
    /\ mark[s] = Idle
    /\ marks < MaxMarks
    /\ \E c \in Conversations : \E u \in members[c], seq \in DOMAIN log[c] :
        /\ raced' = IF Marking(u, c) THEN [raced EXCEPT ![c] = @ \cup {u}] ELSE raced
        /\ mark' = [mark EXCEPT ![s] =
                     [pc |-> "check", user |-> u, conv |-> c, seq |-> seq,
                      seen |-> marker[c][u], snap |-> members[c]]]
    /\ marks' = marks + 1
    /\ UNCHANGED <<members, left, log, marker, receipts, churn>>

\* Bug: only a mark of the very message that is read already is ignored.
NotTheSame(q) == q.seq # q.seen

\* Bug: re-reading the last message is not ignored.
NotBehind(q) == q.seq >= q.seen

\* Bug: the very next message counts as read.
AdvancesByTwo(q) == q.seq > q.seen + 1

Advances(q) == q.seq > q.seen

\* The message and the last read one are looked up; a stale mark is dropped.
MarkCheck(s) ==
    /\ mark[s].pc = "check"
    /\ mark' = [mark EXCEPT ![s] = IF Advances(mark[s]) THEN [@ EXCEPT !.pc = "write"]
                                                       ELSE Idle]
    /\ UNCHANGED <<members, left, log, marker, receipts, raced, marks, churn>>

\* storage.updateLastRead: unconditional, but for a participant only.
MarkWrite(s) ==
    /\ mark[s].pc = "write"
    /\ LET q == mark[s] IN
        IF q.user \in members[q.conv]
        THEN /\ marker' = [marker EXCEPT ![q.conv][q.user] = q.seq]
             /\ mark' = [mark EXCEPT ![s].pc = "notify"]
        ELSE /\ mark' = [mark EXCEPT ![s] = Idle]
             /\ UNCHANGED marker
    /\ UNCHANGED <<members, left, log, receipts, raced, marks, churn>>

\* The receipts plugin: a receipt.read for everyone else in the snapshot.
MarkNotify(s) ==
    /\ mark[s].pc = "notify"
    /\ LET q == mark[s] IN
        receipts' = IF q.snap = {q.user} THEN receipts
                    ELSE Append(receipts, [user |-> q.user, conv |-> q.conv, seq |-> q.seq,
                                           to |-> q.snap \ {q.user}])
    /\ mark' = [mark EXCEPT ![s] = Idle]
    /\ UNCHANGED <<members, left, log, marker, raced, marks, churn>>

\* A message is stored; a thread reply need not show in the main timeline.
Post(c, u, main) ==
    /\ u \in members[c]
    /\ Len(log[c]) < MaxMessages
    /\ log' = [log EXCEPT ![c] = Append(@, [sender |-> u, main |-> main])]
    /\ UNCHANGED <<members, left, marker, mark, receipts, raced, marks, churn>>

\* storage.addParticipants starts a membership with a null marker.
Join(c, u) ==
    /\ churn < MaxChurn
    /\ u \notin members[c]
    /\ members' = [members EXCEPT ![c] = @ \cup {u}]
    /\ marker' = [marker EXCEPT ![c][u] = 0]
    /\ churn' = churn + 1
    /\ UNCHANGED <<left, log, mark, receipts, raced, marks>>

\* storage.removeParticipant: the row goes, and the marker with it.
Leave(c, u) ==
    /\ churn < MaxChurn
    /\ u \in members[c]
    /\ members' = [members EXCEPT ![c] = @ \ {u}]
    /\ left' = [left EXCEPT ![c] = @ \cup {u}]
    /\ marker' = [marker EXCEPT ![c][u] = 0]
    /\ churn' = churn + 1
    /\ UNCHANGED <<log, mark, receipts, raced, marks>>

Init ==
    /\ members = [c \in Conversations |-> Founders]
    /\ left = [c \in Conversations |-> {}]
    /\ log = [c \in Conversations |-> <<>>]
    /\ marker = [c \in Conversations |-> [u \in Users |-> 0]]
    /\ mark = [s \in Slots |-> Idle]
    /\ receipts = <<>>
    /\ raced = [c \in Conversations |-> {}]
    /\ marks = 0 /\ churn = 0

Mark(s) == MarkLoad(s) \/ MarkCheck(s) \/ MarkWrite(s) \/ MarkNotify(s)

Next ==
    \/ \E s \in Slots : Mark(s)
    \/ \E c \in Conversations, u \in Users :
        \/ \E main \in BOOLEAN : Post(c, u, main)
        \/ Join(c, u) \/ Leave(c, u)

Spec == Init /\ [][Next]_vars

\* A call that has begun runs on.
FairSpec == Spec /\ \A s \in Slots : WF_vars(MarkCheck(s) \/ MarkWrite(s) \/ MarkNotify(s))
-----------------------------------------------------------------------------
\* storage.countUnread: main-timeline messages of others after the marker.
Unread(c, u) ==
    IF u \notin members[c] THEN 0
    ELSE Cardinality({seq \in DOMAIN log[c] :
                        /\ seq > marker[c][u]
                        /\ log[c][seq].main
                        /\ log[c][seq].sender # u})

(* Every variable has its type.  A marker names a message of its conversation,
   and only participants have one. *)
TypeOK ==
    /\ members \in [Conversations -> SUBSET Users]
    /\ left \in [Conversations -> SUBSET Users]
    /\ log \in [Conversations -> Seq(Message)]
    /\ marker \in [Conversations -> [Users -> Nat]]
    /\ mark \in [Slots -> {Idle} \cup Call]
    /\ receipts \in Seq(Receipt)
    /\ raced \in [Conversations -> SUBSET Users]
    /\ marks \in Nat /\ churn \in Nat
    /\ \A c \in Conversations, u \in Users :
        /\ marker[c][u] <= Len(log[c])
        /\ u \notin members[c] => marker[c][u] = 0

(* What the comment in markRead says of it: unread counts can only shrink from
   reading, never grow (and ADR 0009 par. 4: read-state can no longer regress).
   Joining starts a new count. *)
OnlyMessagesAdd(c, u) == Unread(c, u)' > Unread(c, u) => Len(log'[c]) > Len(log[c])

UnreadNeverGrowsFromReading == [][\A c \in Conversations : \A u \in members[c] :
                                    OnlyMessagesAdd(c, u)]_vars

\* It does hold of whoever has never had two marks of a conversation under way
\* at the same time: updateLastRead does not compare, so of two marks that both
\* passed the check the one that writes last stays, whichever is older.
UnreadGrowsOnlyFromMessages ==
    \A c \in Conversations : \A u \in members[c] \ raced[c] : OnlyMessagesAdd(c, u)

\* A stale mark notifies nobody: while somebody stays in a conversation, and
\* their marks of it do not race, the receipts they cause name ever later
\* messages, and none is ahead of the read-state that is stored.  (Who leaves
\* and comes back starts again.)
ReceiptsAdvance ==
    \A k \in DOMAIN receipts :
        LET e == receipts[k] IN
        e.user \notin left[e.conv] \cup raced[e.conv] =>
            /\ e.seq <= marker[e.conv][e.user]
            /\ \A j \in 1..k - 1 :
                receipts[j].user = e.user /\ receipts[j].conv = e.conv
                    => receipts[j].seq < e.seq

(* Marks only advance, whatever else is going on, for everybody whose marks of
   the conversation have not raced: neither the stored read-state nor what is
   told of it goes back in any step. *)
MarksOnlyAdvance == [][UnreadGrowsOnlyFromMessages /\ ReceiptsAdvance']_vars

(* Reading the newest message settles the count: a call for it, once started,
   leads to a state where nothing up to it counts as unread, unless its owner
   leaves meanwhile or runs another mark of the conversation against it. *)
ReadingSettles ==
    \A c \in Conversations, u \in Users, n \in 1..MaxMessages :
        (\E s \in Slots : mark[s].pc = "check" /\ mark[s].user = u /\ mark[s].conv = c
                          /\ mark[s].seq = n)
            ~> (marker[c][u] >= n \/ u \in left[c] \cup raced[c])
=============================================================================
