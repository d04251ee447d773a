------------------------------- MODULE Stream -------------------------------
(***************************************************************************)
(* The event stream of one user in one conversation: GET /stream           *)
(* (openStream of handler.ts) over the transport, in-process or relayed    *)
(* between nodes by Redis, with the browser's EventSource at the far end.  *)
(*                                                                         *)
(* Other people's sends store messages and publish them some time after.   *)
(* A stream subscribes first, then reads what was missed since             *)
(* Last-Event-ID and writes it behind whatever came live meanwhile.        *)
(* Connections break; the browser comes back with the last id it was given.*)
(***************************************************************************)
EXTENDS Integers, Sequences, FiniteSets, FiniteSetsExt, SequencesExt

CONSTANTS
  Nodes,          \* server processes that share the storage
  Slots,          \* sends that can be in flight at once
  MaxConns,       \* bound: connections the browser opens, one after the other
  PageSize,       \* page of the replay (DEFAULT_LIMIT in the code)
  MaxMessages,    \* bound: messages stored
  MaxFailures     \* bound: sends that die unpublished, envelopes Redis loses

ASSUME StreamAssumption ==
  /\ PageSize \in Nat \ {0}
  /\ {MaxConns, MaxMessages, MaxFailures} \subseteq Nat

VARIABLES
  newest,     \* seq of the newest message in storage
  banned,     \* has the user an active ban?
  send,       \* seq each slot has stored and not yet published, 0 when idle
  relay,      \* Redis: what node p published, on its way to the subscriber of n
  conn,       \* the server's side of each connection
  cur,        \* the connection the browser holds, 0 for none
  wire,       \* frames the server wrote to that connection, in order
  lastId,     \* the browser's Last-Event-ID, -1 before the first
  got,        \* messages the browser has received on earlier connections
  excuse      \* history: messages that may be missing, and why

vars == <<newest, banned, send, relay, conn, cur, wire, lastId, got, excuse>>

Conns == 1..MaxConns
Seqs == 1..MaxMessages
NoId == -1
Unused == [phase |-> "unused", node |-> "none", since |-> NoId, upTo |-> 0,
           closed |-> FALSE, timer |-> FALSE, checking |-> FALSE]

Init ==
  /\ newest = 0
  /\ banned = FALSE
  /\ send = [s \in Slots |-> 0]
  /\ relay = [p \in Nodes |-> [n \in Nodes |-> <<>>]]
  /\ conn = [k \in Conns |-> Unused]
  /\ cur = 0
  /\ wire = <<>>
  /\ lastId = NoId
  /\ got = {}
  /\ excuse = [before |-> {}, noId |-> {}, dropped |-> {}, overtaken |-> {},
               beyondPage |-> {}, gapOpen |-> {}]

-----------------------------------------------------------------------------
(* Somebody sends: the message is stored, then published by the node that  *)
(* served the call, or never.                                              *)

Store(s) ==
  /\ send[s] = 0 /\ newest < MaxMessages
  /\ newest' = newest + 1
  /\ send' = [send EXCEPT ![s] = newest + 1]
  /\ UNCHANGED <<banned, relay, conn, cur, wire, lastId, got, excuse>>

Failures == Cardinality(excuse.dropped)

Die(s) ==
  /\ send[s] # 0 /\ Failures < MaxFailures
  /\ excuse' = [excuse EXCEPT !.dropped = @ \union {send[s]}]
  /\ send' = [send EXCEPT ![s] = 0]
  /\ UNCHANGED <<newest, banned, relay, conn, cur, wire, lastId, got>>

Live(q) == [seq |-> q, live |-> TRUE]
Replayed(q) == [seq |-> q, live |-> FALSE]

\* Bug: replay first, subscribe second.
HearsAfterReplay(k, n) ==
  conn[k].phase = "streaming" /\ conn[k].node = n /\ ~conn[k].closed

\* The listener that openStream subscribes at node n writes to its stream until
\* the stream is closed.  A frame to a connection that broke reaches nobody.
Hears(k, n) == conn[k].phase # "unused" /\ conn[k].node = n /\ ~conn[k].closed

Deliver(n, q) ==
  wire' = IF cur # 0 /\ Hears(cur, n) THEN Append(wire, Live(q)) ELSE wire

\* Subscribers of this node at once, those of the others through Redis, which
\* also brings the envelope back to the node it came from.
Publish(s, n) ==
  /\ send[s] # 0
  /\ Deliver(n, send[s])
  /\ relay' = [relay EXCEPT ![n] = [t \in Nodes |-> Append(@[t], send[s])]]
  /\ send' = [send EXCEPT ![s] = 0]
  /\ UNCHANGED <<newest, banned, conn, cur, lastId, got, excuse>>

\* Bug: the echo of one's own events is delivered too.
NeverEcho(p, n) == FALSE

\* handleInbound drops an envelope that carries this node's own id.
IsEcho(p, n) == p = n

Inbound(p, n) ==
  /\ relay[p][n] # <<>>
  /\ IF IsEcho(p, n) THEN UNCHANGED wire ELSE Deliver(n, Head(relay[p][n]))
  /\ relay' = [relay EXCEPT ![p][n] = Tail(@)]
  /\ UNCHANGED <<newest, banned, send, conn, cur, lastId, got, excuse>>

\* Redis keeps nothing for a subscriber that is away.
Lose(p, n) ==
  /\ relay[p][n] # <<>> /\ p # n /\ Failures < MaxFailures
  /\ excuse' = [excuse EXCEPT !.dropped = @ \union {Head(relay[p][n])}]
  /\ relay' = [relay EXCEPT ![p][n] = Tail(@)]
  /\ UNCHANGED <<newest, banned, send, conn, cur, wire, lastId, got>>

-----------------------------------------------------------------------------
(* The server's side of a stream.                                          *)

\* Bug: Last-Event-ID is ignored.
OpenedAfresh(n) == [Unused EXCEPT !.phase = "streaming", !.node = n, !.timer = TRUE]

\* start() up to its first await: subscribe and, with nothing to replay, begin
\* the heartbeat.
Opened(n) ==
  IF lastId = NoId
  THEN [Unused EXCEPT !.phase = "streaming", !.node = n, !.timer = TRUE]
  ELSE [Unused EXCEPT !.phase = "replaying", !.node = n, !.since = lastId]

Fresh(k) == conn[k].phase = "unused" /\ \A j \in Conns : j < k => conn[j].phase # "unused"

\* Stored, and to reach node n: unpublished yet, or in Redis.
OnItsWayTo(n, q) ==
  \/ \E s \in Slots : send[s] = q
  \/ \E p \in Nodes \ {n} : q \in Range(relay[p][n])

\* The first connection has no Last-Event-ID, and so has one after connections that
\* broke before a frame was read: nothing is replayed to it, and what was published
\* since the first went nowhere.
Open(k, n) ==
  /\ cur = 0 /\ Fresh(k) /\ ~banned
  /\ conn' = [conn EXCEPT ![k] = Opened(n)]
  /\ cur' = k
  /\ excuse' = IF lastId # NoId THEN excuse
               ELSE IF k = 1 THEN [excuse EXCEPT !.before = 1..newest]
               ELSE [excuse EXCEPT !.noId = @ \union {q \in 1..newest : ~OnItsWayTo(n, q)}]
  /\ UNCHANGED <<newest, banned, send, relay, wire, lastId, got>>

\* listMessagesAfter: a banned user is refused and replays nothing.
ReplayRead(k) ==
  /\ conn[k].phase = "replaying"
  /\ conn' = [conn EXCEPT ![k].phase = "read",
                          ![k].upTo = IF banned THEN conn[k].since ELSE newest]
  /\ UNCHANGED <<newest, banned, send, relay, cur, wire, lastId, got, excuse>>

Page(k) == (conn[k].since + 1) .. Min({conn[k].upTo, conn[k].since + PageSize})
BeyondPage(k) == (conn[k].since + PageSize + 1) .. conn[k].upTo

PageFrames(k) == [i \in 1..Cardinality(Page(k)) |-> Replayed(conn[k].since + i)]

\* The rest of start(): write the page, begin the heartbeat.  A stream that was
\* cancelled meanwhile writes nothing, but gets its timer all the same.
ReplayWrite(k) ==
  /\ conn[k].phase = "read"
  /\ conn' = [conn EXCEPT ![k].phase = "streaming", ![k].timer = TRUE]
  /\ IF k = cur /\ ~conn[k].closed
     THEN /\ wire' = wire \o PageFrames(k)
          /\ excuse' = [excuse EXCEPT !.beyondPage = @ \union BeyondPage(k)]
     ELSE UNCHANGED <<wire, excuse>>
  /\ UNCHANGED <<newest, banned, send, relay, cur, lastId, got>>

Closed(c) == [c EXCEPT !.closed = TRUE, !.timer = FALSE]

\* The server notices that the client has gone: cancel() of the stream.
Cancel(k) ==
  /\ conn[k].phase # "unused" /\ k # cur /\ ~conn[k].closed
  /\ conn' = [conn EXCEPT ![k] = Closed(@)]
  /\ UNCHANGED <<newest, banned, send, relay, cur, wire, lastId, got, excuse>>

\* A heartbeat asks for a ban unless its last question is still open.
Beat(k) ==
  /\ conn[k].timer /\ ~conn[k].checking /\ ~conn[k].closed
  /\ conn' = [conn EXCEPT ![k].checking = TRUE]
  /\ UNCHANGED <<newest, banned, send, relay, cur, wire, lastId, got, excuse>>

Verdict(c) == IF banned /\ ~c.closed THEN Closed(c) ELSE c

Checked(k) ==
  /\ conn[k].checking
  /\ conn' = [conn EXCEPT ![k] = [Verdict(@) EXCEPT !.checking = FALSE]]
  /\ UNCHANGED <<newest, banned, send, relay, cur, wire, lastId, got, excuse>>

-----------------------------------------------------------------------------
(* The browser, and an administrator.                                      *)

\* The connection breaks when the browser has read the first i frames.
Seen(i) == {wire[j].seq : j \in 1..i}
Handed == Seen(Len(wire))

\* On its way to the node the browser is connected to.
OnItsWay(q) == OnItsWayTo(conn[cur].node, q)

\* Last-Event-ID is past messages that a newer one has overtaken.
Overtaken(id) == {q \in 1..(id - 1) : OnItsWay(q) \/ q \in Handed}

\* A live frame has been read and the replay is still to be written.
GapOpen(i) == i > 0 /\ conn[cur].phase \in {"replaying", "read"} /\ ~conn[cur].closed

Break(i) ==
  LET id == IF i = 0 THEN lastId ELSE wire[i].seq IN
  /\ cur # 0 /\ \E k \in Conns : conn[k].phase = "unused"
  /\ got' = got \union Seen(i)
  /\ lastId' = id
  /\ excuse' = [excuse EXCEPT
       !.overtaken = @ \union Overtaken(id),
       !.gapOpen = IF GapOpen(i) THEN @ \union ((conn[cur].since + 1) .. (id - 1)) ELSE @]
  /\ wire' = <<>> /\ cur' = 0
  /\ UNCHANGED <<newest, banned, send, relay, conn>>

Ban ==
  /\ ~banned /\ banned' = TRUE
  /\ UNCHANGED <<newest, send, relay, conn, cur, wire, lastId, got, excuse>>

-----------------------------------------------------------------------------
Sending == \E s \in Slots : Store(s) \/ Die(s) \/ \E n \in Nodes : Publish(s, n)

Relaying == \E p, n \in Nodes : Inbound(p, n) \/ Lose(p, n)

Streaming(k) ==
  \/ ReplayRead(k) \/ ReplayWrite(k) \/ Cancel(k) \/ Beat(k) \/ Checked(k)
  \/ \E n \in Nodes : Open(k, n)

Browsing == \E i \in 0..Len(wire) : Break(i)

Next == Sending \/ Relaying \/ (\E k \in Conns : Streaming(k)) \/ Browsing \/ Ban

Spec == Init /\ [][Next]_vars

-----------------------------------------------------------------------------
(* Properties.                                                             *)

ConnRecords ==
  [phase: {"unused", "replaying", "read", "streaming"}, node: Nodes \union {"none"},
   since: Seqs \union {NoId}, upTo: 0..MaxMessages,
   closed: BOOLEAN, timer: BOOLEAN, checking: BOOLEAN]

Excuses == [before: SUBSET Nat, noId: SUBSET Nat, dropped: SUBSET Nat, overtaken: SUBSET Nat,
            beyondPage: SUBSET Nat, gapOpen: SUBSET Nat]

\* The variables have their types: Last-Event-ID and every frame name a message
\* that is in storage (durable first).
TypeOK ==
  /\ newest \in 0..MaxMessages /\ banned \in BOOLEAN
  /\ send \in [Slots -> 0..newest]
  /\ relay \in [Nodes -> [Nodes -> Seq(1..newest)]]
  /\ conn \in [Conns -> ConnRecords]
  /\ cur \in Conns \union {0}
  /\ wire \in Seq([seq: 1..newest, live: BOOLEAN])
  /\ lastId \in 1..newest \union {NoId}
  /\ got \subseteq 1..newest
  /\ excuse \in Excuses
  /\ \A k \in Conns :
       /\ conn[k].since <= newest /\ conn[k].upTo <= newest
       /\ conn[k].phase \in {"replaying", "read"} => conn[k].since # NoId

\* "Subscribe first, replay second" (openStream): once the replay is written, a
\* stream has been given every message after its Last-Event-ID, live or from
\* storage, or it is on its way, however other people's inserts and publishes
\* fell between the two.  Only what died or was lost in Redis is excepted, and
\* what one page of replay cannot hold.
ReplayLeavesNoGap ==
  ( cur # 0 /\ conn[cur].phase = "streaming" /\ ~conn[cur].closed /\ ~banned
    /\ conn[cur].since # NoId ) =>
    \A q \in (conn[cur].since + 1) .. newest :
      \/ q \in Handed \/ OnItsWay(q)
      \/ q \in excuse.dropped \union excuse.beyondPage

Excused ==
  excuse.before \union excuse.noId \union excuse.dropped \union excuse.overtaken
    \union excuse.beyondPage \union excuse.gapOpen

\* The browser is missing no message that was stored after it first connected
\* (what is older it fetches) and is not on its way, unless for one of five
\* reasons: it was lost unpublished or in Redis; it came live behind a newer one
\* on a connection that broke; it was beyond the page of a replay; a connection
\* broke between its first live frame and its replay; or it was published before a
\* connection that had no Last-Event-ID, because no frame was read on any before.
\* These are all the exceptions there are to "no lost messages" (ADR 0006).
LossesAreExplained ==
  ( cur # 0 /\ conn[cur].phase = "streaming" /\ ~conn[cur].closed /\ ~banned ) =>
    \A q \in 1..newest :
      \/ q \in got \union Handed \/ OnItsWay(q)
      \/ q \in Excused

\* A node's own envelope comes back from Redis and is dropped: a connection is
\* handed a message at most twice, once live and once replayed.
LiveOnceReplayedOnce ==
  \A i, j \in DOMAIN wire : wire[i] = wire[j] => i = j

=============================================================================
