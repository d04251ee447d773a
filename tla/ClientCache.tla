---------------------------- MODULE ClientCache ----------------------------
(***************************************************************************)
(* The client's cache of one conversation (store-cache.ts), fed by three   *)
(* things that overtake each other: responses to the calls of the          *)
(* application (client.ts), events of the stream, and a poller that takes  *)
(* over while the stream is down (realtime.ts, polling.ts).                *)
(*                                                                         *)
(* The server is a history of messages with the viewer's read mark.  It    *)
(* stamps what it sends with the number of changes made so far, which the  *)
(* code does not: stamps only serve to say what arrived out of order.      *)
(***************************************************************************)
EXTENDS Integers, Sequences, FiniteSets, FiniteSetsExt, SequencesExt

CONSTANTS
  PageSize,       \* messages on a page
  MaxMessages,    \* bound: messages on the server
  MaxEdits,       \* bound: edits
  MaxAsks,        \* bound: calls of the application
  MaxBreaks       \* bound: times the stream breaks

ASSUME ClientCacheAssumption ==
  /\ PageSize \in Nat \ {0}
  /\ {MaxMessages, MaxEdits, MaxAsks, MaxBreaks} \subseteq Nat

VARIABLES
  msgs,     \* server: the messages, by seq
  read,     \* server: the viewer's last-read seq
  member,   \* server: is the viewer a participant?
  stamp,    \* server: number of changes so far
  call,     \* one call of each kind may be in flight
  wire,     \* events on their way to the client
  down,     \* is the stream down, and the poller running?
  row,      \* cache: the conversation in the list, if loaded and there
  page,     \* cache: the messages of the conversation, if loaded
  seenSeq,  \* cache: highest seq seen, so that nothing counts twice
  ghost     \* history: newest stamp applied, what was lost, calls made

server == <<msgs, read, member, stamp>>
cache == <<row, page, seenSeq>>
cacheVars == <<server, call, wire, down, cache, ghost>>

Nothing == [loaded |-> FALSE]
Absent == [loaded |-> TRUE, there |-> FALSE, unread |-> 0]
Idle == [phase |-> "idle"]

\* Calls of the application, the two halves of a poll, and the backfill.
Asked == {"list", "page", "older", "send", "read"}
PollCalls == {"pollList", "pollPage"}
Kinds == Asked \union PollCalls \union {"backfill"}

CacheInit ==
  /\ msgs = <<[own |-> FALSE, text |-> 0]>>
  /\ read = 0 /\ member = TRUE /\ stamp = 0
  /\ call = [k \in Kinds |-> Idle]
  /\ wire = <<>>
  /\ down = FALSE
  /\ row = [Absent EXCEPT !.loaded = FALSE] /\ page = Nothing /\ seenSeq = 0
  /\ ghost = [newest |-> 0, inOrder |-> TRUE, asks |-> 0, edits |-> 0, breaks |-> 0]

-----------------------------------------------------------------------------
(* The server.  A change is stored and its event published.                *)

Seqs == DOMAIN msgs
Message(q) == [seq |-> q, own |-> msgs[q].own, text |-> msgs[q].text]
Unread == Cardinality({q \in Seqs : q > read /\ ~msgs[q].own})

\* The stream carries an event only while it is up and the viewer a recipient.
Emit(e) == wire' = IF down THEN wire ELSE Append(wire, e)

Created(own) ==
  /\ msgs' = Append(msgs, [own |-> own, text |-> 0])
  /\ stamp' = stamp + 1
  /\ Emit([type |-> "created", stamp |-> stamp',
           msg |-> [seq |-> Len(msgs) + 1, own |-> own, text |-> 0]])

OtherSends ==
  /\ member /\ Len(msgs) < MaxMessages
  /\ Created(FALSE)
  /\ UNCHANGED <<read, member, call, down, cache, ghost>>

OtherEdits(q) ==
  /\ member /\ ~msgs[q].own /\ ghost.edits < MaxEdits
  /\ msgs' = [msgs EXCEPT ![q].text = @ + 1]
  /\ stamp' = stamp + 1
  /\ Emit([type |-> "updated", stamp |-> stamp',
           msg |-> [seq |-> q, own |-> FALSE, text |-> msgs[q].text + 1]])
  /\ ghost' = [ghost EXCEPT !.edits = @ + 1]
  /\ UNCHANGED <<read, member, call, down, cache>>

ViewerRemoved ==
  /\ member
  /\ member' = FALSE
  /\ stamp' = stamp + 1
  /\ Emit([type |-> "removed", stamp |-> stamp'])
  /\ UNCHANGED <<msgs, read, call, down, cache, ghost>>

Newest(S) == {q \in S : Cardinality({r \in S : r > q}) < PageSize}

PageOf(S) ==
  [rows |-> {Message(q) : q \in Newest(S)},
   next |-> IF Newest(S) = S THEN 0 ELSE Min(Newest(S))]

Answers(k, input) ==
  CASE k \in {"list", "pollList", "backfill"} -> [unread |-> Unread]
    [] k \in {"page", "pollPage"} -> PageOf(Seqs)
    [] k = "older" -> PageOf({q \in Seqs : q < input})

Ask(k, input) ==
  /\ call[k] = Idle
  /\ call' = [call EXCEPT ![k] = [phase |-> "asked", input |-> input]]

Answered(k, ans, s) ==
  call' = [call EXCEPT ![k] =
    [phase |-> "answered", ok |-> member, ans |-> ans, stamp |-> s, input |-> @.input]]

\* A read: the answer is what is there now.
ServeRead(k) ==
  /\ call[k].phase = "asked" /\ k \notin {"send", "read"}
  /\ Answered(k, Answers(k, call[k].input), stamp)
  /\ UNCHANGED <<server, wire, down, cache, ghost>>

ServeSend ==
  /\ call["send"].phase = "asked"
  /\ IF member
     THEN /\ Created(TRUE)
          /\ Answered("send", [seq |-> Len(msgs) + 1, own |-> TRUE, text |-> 0], stamp')
     ELSE /\ Answered("send", Nothing, stamp)
          /\ UNCHANGED <<msgs, stamp, wire>>
  /\ UNCHANGED <<read, member, down, cache, ghost>>

ServeMark ==
  /\ call["read"].phase = "asked"
  /\ IF member
     THEN /\ read' = Max({read, call["read"].input})
          /\ stamp' = stamp + 1
     ELSE UNCHANGED <<read, stamp>>
  /\ Answered("read", Nothing, stamp')
  /\ UNCHANGED <<msgs, member, wire, down, cache, ghost>>

-----------------------------------------------------------------------------
(* What the cache does with what arrives.                                  *)

HighestSeq(rows) == Max({m.seq : m \in rows} \union {0})
InPage(rows, m) == \E x \in rows : x.seq = m.seq

\* Bug: a message already there is kept, as for a redelivery.
ReplaceMessageKeeping(rows, m) == IF InPage(rows, m) THEN rows ELSE rows \union {m}

ReplaceMessage(rows, m) == {x \in rows : x.seq # m.seq} \union {m}

MergeMessages(rows, more) == {x \in rows : ~InPage(more, x)} \union more

\* Bug: only what came after the newest message is taken from a poll.
MergePolledAfterSeq(rows, polled) == rows \union {m \in polled : m.seq > HighestSeq(rows)}

\* A poll replaces what is shown and adds only what is newer than all of it.
MergePolled(rows, polled) ==
  {x \in rows : ~InPage(polled, x)}
    \union {m \in polled : InPage(rows, m) \/ m.seq > HighestSeq(rows)}

DropConversation ==
  /\ row' = IF row.loaded THEN Absent ELSE row
  /\ page' = Nothing /\ seenSeq' = 0

IsNew(e) == e.type = "created" /\ e.msg.seq > seenSeq

\* A message not seen before counts, unless it is the viewer's own.
Counted(e, local) ==
  IF row.loaded /\ row.there /\ IsNew(e) /\ ~e.msg.own /\ ~local
  THEN [row EXCEPT !.unread = @ + 1] ELSE row

ApplyMessage(e, local) ==
  /\ row' = Counted(e, local)
  /\ seenSeq' = Max({seenSeq, e.msg.seq})
  /\ page' = IF page.loaded THEN [page EXCEPT !.rows = ReplaceMessage(@, e.msg)] ELSE page

Listed(unread) == [loaded |-> TRUE, there |-> TRUE, unread |-> unread]

\* Does an answer show a state as new as all that was applied before it, and an
\* event one that nothing applied before it shows?  An answer that was asked of a
\* page must also find that page: a reload in between overtakes it.
AppliedTo(s, found) ==
  ghost' = [ghost EXCEPT !.newest = Max({@, s}),
                         !.inOrder = @ /\ s >= ghost.newest /\ found]
Applied(s) == AppliedTo(s, TRUE)

-----------------------------------------------------------------------------
(* The application calls.                                                  *)

CanAsk == ghost.asks < MaxAsks
Counting == ghost' = [ghost EXCEPT !.asks = @ + 1]

AskList == CanAsk /\ Ask("list", 0) /\ Counting /\ UNCHANGED <<server, wire, down, cache>>
AskPage == CanAsk /\ Ask("page", 0) /\ Counting /\ UNCHANGED <<server, wire, down, cache>>
AskSend ==
  /\ CanAsk /\ page.loaded /\ Len(msgs) < MaxMessages
  /\ Ask("send", 0) /\ Counting /\ UNCHANGED <<server, wire, down, cache>>
AskOlder ==
  /\ CanAsk /\ page.loaded /\ page.next # 0
  /\ Ask("older", page.next) /\ Counting /\ UNCHANGED <<server, wire, down, cache>>
AskRead ==
  /\ CanAsk /\ page.loaded /\ page.rows # {}
  /\ Ask("read", HighestSeq(page.rows)) /\ Counting /\ UNCHANGED <<server, wire, down, cache>>

Lands(k) == call[k].phase = "answered" /\ call' = [call EXCEPT ![k] = Idle]

LandList ==
  /\ Lands("list")
  /\ row' = IF call["list"].ok THEN Listed(call["list"].ans.unread)
            ELSE Absent
  /\ Applied(call["list"].stamp)
  /\ UNCHANGED <<server, wire, down, page, seenSeq>>

\* A first page replaces what was loaded, an older one is merged behind it.
LandPage ==
  /\ Lands("page")
  /\ IF call["page"].ok
     THEN /\ page' = [loaded |-> TRUE, rows |-> call["page"].ans.rows,
                      next |-> call["page"].ans.next]
          /\ seenSeq' = Max({seenSeq, HighestSeq(call["page"].ans.rows)})
     ELSE UNCHANGED <<page, seenSeq>>
  /\ Applied(call["page"].stamp)
  /\ UNCHANGED <<server, wire, down, row>>

LandOlder ==
  /\ Lands("older")
  /\ IF call["older"].ok
     THEN /\ page' = [loaded |-> TRUE, next |-> call["older"].ans.next,
                      rows |-> IF page.loaded
                               THEN MergeMessages(page.rows, call["older"].ans.rows)
                               ELSE call["older"].ans.rows]
          /\ seenSeq' = Max({seenSeq, HighestSeq(call["older"].ans.rows)})
     ELSE UNCHANGED <<page, seenSeq>>
  /\ AppliedTo(call["older"].stamp, page.loaded /\ page.next = call["older"].input)
  /\ UNCHANGED <<server, wire, down, row>>

LandSend ==
  /\ Lands("send")
  /\ IF call["send"].ok
     THEN ApplyMessage([type |-> "created", msg |-> call["send"].ans], TRUE)
     ELSE UNCHANGED cache
  /\ Applied(call["send"].stamp)
  /\ UNCHANGED <<server, wire, down>>

\* Bug: a mark clears the count whatever came after the message it marks.
ClearsAlways(q) == TRUE

\* applyRead clears the count unless something newer than the mark is loaded.
Clears(q) == ~page.loaded \/ q >= HighestSeq(page.rows) \/ \A m \in page.rows : m.seq # q

LandRead ==
  /\ Lands("read")
  /\ row' = IF call["read"].ok /\ row.loaded /\ row.there /\ Clears(call["read"].input)
            THEN [row EXCEPT !.unread = 0] ELSE row
  /\ AppliedTo(call["read"].stamp,
               page.loaded /\ \E m \in page.rows : m.seq = call["read"].input)
  /\ UNCHANGED <<server, wire, down, page, seenSeq>>

-----------------------------------------------------------------------------
(* The stream.                                                             *)

\* The viewer's own message, which the answer of its send may have shown before.
OwnEcho(e) == e.type = "created" /\ e.msg.own

Misses(e) == e.type = "created" /\ row.loaded /\ ~row.there

\* An event, and the fetch of a conversation the list does not have.  An event
\* may overtake the one before it: see Stream.
Receive(i) ==
  LET e == wire[i] IN
  /\ IF e.type = "removed" THEN DropConversation ELSE ApplyMessage(e, FALSE)
  /\ wire' = RemoveAt(wire, i)
  /\ call' = IF Misses(e) /\ call["backfill"] = Idle
             THEN [call EXCEPT !["backfill"] = [phase |-> "asked", input |-> 0]] ELSE call
  /\ ghost' = [ghost EXCEPT !.newest = Max({@, e.stamp}),
                            !.inOrder = @ /\ (e.stamp > ghost.newest \/ OwnEcho(e))]
  /\ UNCHANGED <<server, down>>

LandBackfill ==
  /\ Lands("backfill")
  /\ row' = IF call["backfill"].ok /\ row.loaded /\ ~row.there
            THEN Listed(call["backfill"].ans.unread) ELSE row
  /\ Applied(call["backfill"].stamp)
  /\ UNCHANGED <<server, wire, down, page, seenSeq>>

Break ==
  /\ ~down /\ ghost.breaks < MaxBreaks
  /\ down' = TRUE /\ wire' = <<>>
  /\ ghost' = [ghost EXCEPT !.breaks = @ + 1]
  /\ UNCHANGED <<server, call, cache>>

Reopen ==
  /\ down
  /\ down' = FALSE
  /\ UNCHANGED <<server, call, wire, cache, ghost>>

-----------------------------------------------------------------------------
(* The poller: one tick at a time, the newest pages of what is loaded.     *)

PollTick ==
  /\ down /\ \A k \in PollCalls : call[k] = Idle
  /\ row.loaded \/ page.loaded
  /\ call' = [k \in Kinds |->
       IF (k = "pollList" /\ row.loaded) \/ (k = "pollPage" /\ page.loaded)
       THEN [phase |-> "asked", input |-> 0] ELSE call[k]]
  /\ UNCHANGED <<server, wire, down, cache, ghost>>

\* A polled list never takes a row away.
LandPollList ==
  /\ Lands("pollList")
  /\ row' = IF row.loaded /\ call["pollList"].ok THEN Listed(call["pollList"].ans.unread) ELSE row
  /\ Applied(call["pollList"].stamp)
  /\ UNCHANGED <<server, wire, down, page, seenSeq>>

\* A refusal is how a polling client learns that it was removed.
LandPollPage ==
  /\ Lands("pollPage")
  /\ IF call["pollPage"].ok
     THEN /\ page' = IF page.loaded
                     THEN [page EXCEPT !.rows = MergePolled(@, call["pollPage"].ans.rows)]
                     ELSE page
          /\ seenSeq' = Max({seenSeq, HighestSeq(call["pollPage"].ans.rows)})
          /\ UNCHANGED row
     ELSE DropConversation
  /\ Applied(call["pollPage"].stamp)
  /\ UNCHANGED <<server, wire, down>>

-----------------------------------------------------------------------------
Serve == (\E k \in Kinds : ServeRead(k)) \/ ServeSend \/ ServeMark
Land ==
  \/ LandList \/ LandPage \/ LandOlder \/ LandSend \/ LandRead
  \/ LandBackfill \/ LandPollList \/ LandPollPage
Asking == AskList \/ AskPage \/ AskSend \/ AskOlder \/ AskRead
Others == OtherSends \/ ViewerRemoved \/ \E q \in Seqs : OtherEdits(q)
Streaming == (\E i \in DOMAIN wire : i <= 2 /\ Receive(i)) \/ Break \/ Reopen

CacheNext == Serve \/ Land \/ Asking \/ Others \/ Streaming \/ PollTick

CacheSpec == CacheInit /\ [][CacheNext]_cacheVars

\* Requests are answered, answers and events arrive, and the poller ticks.
CacheFairness ==
  /\ WF_cacheVars(Serve) /\ WF_cacheVars(Land)
  /\ WF_cacheVars(\E i \in DOMAIN wire : Receive(i))
  /\ WF_cacheVars(PollTick)

FairCacheSpec == CacheSpec /\ CacheFairness

-----------------------------------------------------------------------------
(* Properties.                                                             *)

\* Every variable stays within the values the cache can hold.
CacheTypeOK ==
  /\ msgs \in Seq([own : BOOLEAN, text : 0 .. MaxEdits]) /\ Len(msgs) \in 1 .. MaxMessages + 1
  /\ read \in 0 .. Len(msgs) /\ member \in BOOLEAN /\ stamp \in Nat
  /\ \A k \in Kinds : call[k].phase \in {"idle", "asked", "answered"}
  /\ \A i \in DOMAIN wire : wire[i].stamp <= stamp
  /\ down \in BOOLEAN
  /\ row \in [loaded : BOOLEAN, there : BOOLEAN, unread : Nat] /\ (row.there => row.loaded)
  /\ page.loaded => /\ \A m \in page.rows : m.seq \in Seqs
                    /\ page.next \in 0 .. Len(msgs)
  /\ seenSeq \in 0 .. Len(msgs)

AtRest == wire = <<>> /\ \A k \in Kinds : call[k] = Idle
Uninterrupted == ghost.inOrder /\ ghost.breaks = 0

\* What is loaded goes back to the cursor of the last page (0: to the first).
Loaded == {q \in Seqs : q >= page.next}

\* With the stream up throughout and nothing overtaken, a client with nothing
\* under way shows every message back to its cursor, and no outdated text.  An
\* edit may show a message from behind the cursor, alone.
ShownIsCurrent ==
  (AtRest /\ Uninterrupted /\ member /\ page.loaded)
    => /\ \A q \in Loaded : Message(q) \in page.rows
       /\ \A m \in page.rows : m = Message(m.seq)

\* ... and a loaded count hides nothing that is unread.
UnreadIsNotHidden ==
  (AtRest /\ Uninterrupted /\ member /\ row.there) => row.unread >= Unread

\* The newest page of the server is what the client shows of it, with its count.
CaughtUp ==
  /\ (member /\ page.loaded) =>
       /\ HighestSeq(page.rows) = Len(msgs)
       /\ \A m \in page.rows : m.seq \in Newest(Seqs) => m = Message(m.seq)
  /\ (member /\ row.there) => row.unread = Unread
  /\ ~member => ~page.loaded

\* A client that stays without a stream catches up by polling, whatever was
\* lost, late or overtaken before.
PollingCatchesUp == <>[]down => <>[]CaughtUp

-----------------------------------------------------------------------------
(* What the decision record says of polling, and the code does not do.     *)

Whole(p) == \A q \in Seqs :
  (p.next <= q /\ q <= HighestSeq(p.rows)) => \E m \in p.rows : m.seq = q

\* docs/decisions/0016: merging a polled page never leaves a thread that looks
\* complete but has a hole in it.  The code breaks it, so no run lists it.
PollsMakeNoHoles ==
  [][(call["pollPage"].phase = "answered" /\ call'["pollPage"] = Idle
        /\ page.loaded /\ page'.loaded /\ Whole(page))
       => Whole(page')]_cacheVars
=============================================================================
