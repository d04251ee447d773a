---------------------------- MODULE StreamProofs ----------------------------
(***************************************************************************)
(* Proofs about Stream, for every set of nodes and of slots, every size of *)
(* a page and every bound.                                                 *)
(***************************************************************************)
EXTENDS Stream, TLAPS, FiniteSetTheorems, SequenceTheorems

\* What the server knows of the connection the browser holds: it continues from
\* the browser's Last-Event-ID and is closed only on somebody who is banned.
Current ==
  /\ cur = 0 => wire = <<>>
  /\ cur # 0 =>
       /\ conn[cur].phase # "unused" /\ conn[cur].node \in Nodes
       /\ conn[cur].since = lastId
       /\ conn[cur].closed => banned

\* No element of a sequence comes twice.
Distinct(s) == \A i, j \in DOMAIN s : s[i] = s[j] => i = j

\* One copy of a message is on its way to each node.
OneCopy ==
  /\ \A s, t \in Slots : send[s] # 0 /\ send[s] = send[t] => s = t
  /\ \A s \in Slots, p, n \in Nodes : send[s] \notin Range(relay[p][n])
  /\ \A p, n \in Nodes : Distinct(relay[p][n])
  /\ \A p, r, n \in Nodes : p # r => Range(relay[p][n]) \cap Range(relay[r][n]) = {}

\* What was handed live is no longer on its way; what is replayed comes last.
HandedOnce ==
  cur # 0 =>
    /\ \A q \in 1..newest : OnItsWay(q) => \A i \in DOMAIN wire : wire[i] # Live(q)
    /\ conn[cur].phase # "streaming" => \A i \in DOMAIN wire : wire[i].live

Covered(q) == q \in Handed \union excuse.dropped \/ OnItsWay(q)

\* While the browser is let in, what it may still miss on its connection.
NothingMissed ==
  ~banned /\ cur # 0 =>
    LET c == conn[cur] IN
    /\ c.phase = "read" => \A q \in (c.upTo + 1) .. newest : Covered(q)
    /\ c.phase = "streaming" /\ c.since # NoId =>
         \A q \in (c.since + 1) .. newest : Covered(q) \/ q \in excuse.beyondPage
    /\ c.phase = "streaming" /\ c.since = NoId =>
         \A q \in 1 .. newest : Covered(q) \/ q \in excuse.before \union excuse.noId

\* What the browser has passed it has, or it is excused.
PassedIsKnown ==
  ~banned /\ lastId # NoId => 1..lastId \subseteq got \union Excused

IInv ==
  /\ TypeOK /\ Current /\ OneCopy /\ HandedOnce /\ LiveOnceReplayedOnce
  /\ NothingMissed /\ PassedIsKnown
-----------------------------------------------------------------------------
(* The types.                                                              *)

LEMMA Bounds == MaxMessages \in Nat /\ MaxConns \in Nat /\ PageSize \in Nat /\ PageSize > 0
  BY StreamAssumption

LEMMA NewestIsNat ==
  ASSUME TypeOK
  PROVE  newest \in Nat
  BY Bounds DEF TypeOK

\* Messages are never taken out of storage.
LEMMA TypesGrow ==
  ASSUME NEW m \in Nat, NEW n \in Nat, m <= n
  PROVE  /\ 1..m \subseteq 1..n /\ 0..m \subseteq 0..n
         /\ Seq(1..m) \subseteq Seq(1..n)
         /\ Seq([seq: 1..m, live: BOOLEAN]) \subseteq Seq([seq: 1..n, live: BOOLEAN])
  <1>1. 1..m \subseteq 1..n /\ 0..m \subseteq 0..n
    OBVIOUS
  <1>2. [seq: 1..m, live: BOOLEAN] \subseteq [seq: 1..n, live: BOOLEAN]
    BY <1>1
  <1> QED  BY <1>1, <1>2, SeqMonotonic

LEMMA FunctionIsSeq ==
  ASSUME NEW S, NEW n \in Nat, NEW f \in [1..n -> S]
  PROVE  f \in Seq(S)
  BY SeqDef

\* The excuses only grow, one kind at a time.
LEMMA ExcusesGrow ==
  ASSUME NEW e \in Excuses, NEW S \in SUBSET Nat
  PROVE  /\ [e EXCEPT !.before = S] \in Excuses
         /\ [e EXCEPT !.noId = @ \union S] \in Excuses
         /\ [e EXCEPT !.dropped = @ \union S] \in Excuses
         /\ [e EXCEPT !.overtaken = @ \union S] \in Excuses
         /\ [e EXCEPT !.beyondPage = @ \union S] \in Excuses
         /\ [e EXCEPT !.gapOpen = @ \union S] \in Excuses
  BY DEF Excuses

LEMMA MinOfTwo ==
  ASSUME NEW a \in Nat, NEW b \in Nat
  PROVE  Min({a, b}) \in Nat /\ Min({a, b}) <= a /\ Min({a, b}) <= b /\ Min({a, b}) \in {a, b}
  <1>1. \E x \in {a, b} : \A y \in {a, b} : x =< y
    OBVIOUS
  <1> QED  BY <1>1 DEF Min

\* A frame delivered live.
LEMMA DeliverKeepsType ==
  ASSUME TypeOK, NEW n \in Nodes, NEW q \in 1..newest, Deliver(n, q)
  PROVE  wire' \in Seq([seq: 1..newest, live: BOOLEAN])
  <1>1. Live(q) \in [seq: 1..newest, live: BOOLEAN]
    BY DEF Live
  <1> QED  BY <1>1, AppendProperties DEF Deliver, TypeOK

\* The frames of a replay: one for each message of the page, oldest first.
LEMMA Frames ==
  ASSUME TypeOK, NEW k \in Conns, conn[k].since # NoId
  PROVE  /\ PageFrames(k) \in Seq([seq: 1..newest, live: BOOLEAN])
         /\ \A i \in DOMAIN PageFrames(k) : PageFrames(k)[i] = Replayed(conn[k].since + i)
         /\ \A q \in Page(k) : \E i \in DOMAIN PageFrames(k) : PageFrames(k)[i].seq = q
         /\ \A q \in (conn[k].since + 1) .. conn[k].upTo : q \in Page(k) \union BeyondPage(k)
         /\ BeyondPage(k) \subseteq Nat
  <1> DEFINE a == conn[k].since
             b == Min({conn[k].upTo, a + PageSize})
             n == Cardinality(Page(k))
  <1>1. a \in Nat \ {0} /\ conn[k].upTo \in Nat /\ conn[k].upTo <= newest /\ newest \in Nat
    BY StreamAssumption DEF TypeOK, ConnRecords, Seqs, NoId
  <1>2. b \in Nat /\ b <= conn[k].upTo /\ (b = conn[k].upTo \/ b = a + PageSize)
    BY <1>1, StreamAssumption, MinOfTwo
  <1>3. Page(k) = (a + 1) .. b
    BY DEF Page
  <1>4. n \in Nat /\ 1..n = 1 .. (b - a)
    <2>1. a + 1 \in Int /\ b \in Int
      BY <1>1, <1>2
    <2>2. n = IF a + 1 > b THEN 0 ELSE b - (a + 1) + 1
      BY <1>3, <2>1, FS_Interval
    <2> QED  BY <1>1, <1>2, <2>2
  <1>5. /\ DOMAIN PageFrames(k) = 1 .. n
        /\ \A i \in 1..n : PageFrames(k)[i] = Replayed(a + i)
    BY DEF PageFrames
  <1>6. \A i \in 1..n : Replayed(a + i) \in [seq: 1..newest, live: BOOLEAN]
    BY <1>1, <1>2, <1>4 DEF Replayed
  <1>7. PageFrames(k) \in Seq([seq: 1..newest, live: BOOLEAN])
    <2>1. PageFrames(k) \in [1..n -> [seq: 1..newest, live: BOOLEAN]]
      BY <1>6 DEF PageFrames
    <2> QED  BY <1>4, <2>1, FunctionIsSeq
  <1>8. \A q \in Page(k) : q - a \in 1..n /\ PageFrames(k)[q - a].seq = q
    <2> SUFFICES ASSUME NEW q \in Page(k)
                 PROVE  q - a \in 1..n /\ PageFrames(k)[q - a].seq = q
      OBVIOUS
    <2>1. q - a \in 1..n /\ a + (q - a) = q
      BY <1>1, <1>2, <1>3, <1>4
    <2> QED  BY <1>5, <2>1 DEF Replayed
  <1>9. \A q \in (a + 1) .. conn[k].upTo : q \in Page(k) \union BeyondPage(k)
    BY <1>1, <1>2, <1>3, StreamAssumption DEF BeyondPage
  <1>10. BeyondPage(k) \subseteq Nat
    BY <1>1, StreamAssumption DEF BeyondPage
  <1> QED  BY <1>5, <1>7, <1>8, <1>9, <1>10

LEMMA InitTypes == Init => TypeOK
  <1> SUFFICES ASSUME Init PROVE TypeOK
    OBVIOUS
  <1>1. MaxMessages \in Nat
    BY StreamAssumption
  <1>2. Unused \in ConnRecords /\ Unused.upTo = 0
    BY <1>1 DEF Unused, ConnRecords
  <1>3. conn \in [Conns -> ConnRecords] /\ \A k \in Conns : conn[k] = Unused
    BY <1>2 DEF Init, Unused
  <1>4. newest \in 0..MaxMessages /\ send \in [Slots -> 0..newest] /\ got \subseteq 1..newest
    BY <1>1 DEF Init
  <1>8. banned \in BOOLEAN
    BY DEF Init
  <1>7. wire \in Seq([seq: 1..newest, live: BOOLEAN])
    BY EmptySeq DEF Init
  <1>5. relay \in [Nodes -> [Nodes -> Seq(1..newest)]]
    BY DEF Init
  <1>6. excuse \in Excuses
    BY DEF Init, Excuses
  <1> QED  BY <1>2, <1>3, <1>4, <1>5, <1>6, <1>7, <1>8 DEF Init, TypeOK, Unused, NoId

\* A step that stores nothing and leaves the connections alone.
LEMMA WireKeepsType ==
  ASSUME TypeOK, UNCHANGED <<newest, conn>>, banned' \in BOOLEAN,
         send' \in [Slots -> 0..newest], relay' \in [Nodes -> [Nodes -> Seq(1..newest)]],
         cur' \in Conns \union {0}, wire' \in Seq([seq: 1..newest, live: BOOLEAN]),
         lastId' \in 1..newest \union {NoId}, got' \subseteq 1..newest,
         excuse' \in Excuses
  PROVE  TypeOK'
  BY DEF TypeOK

\* A step of one connection.
LEMMA ConnKeepsType ==
  ASSUME TypeOK, NEW k \in Conns, NEW c \in ConnRecords, conn' = [conn EXCEPT ![k] = c],
         c.since <= newest, c.upTo <= newest,
         c.phase \in {"replaying", "read"} => c.since # NoId,
         UNCHANGED <<newest, banned, send, relay, lastId, got>>,
         cur' \in Conns \union {0}, wire' \in Seq([seq: 1..newest, live: BOOLEAN]),
         excuse' \in Excuses
  PROVE  TypeOK'
  <1>1. conn' \in [Conns -> ConnRecords]
    BY DEF TypeOK
  <1>2. \A j \in Conns : /\ conn'[j].since <= newest /\ conn'[j].upTo <= newest
                         /\ conn'[j].phase \in {"replaying", "read"} => conn'[j].since # NoId
    BY DEF TypeOK
  <1> QED  BY <1>1, <1>2 DEF TypeOK

LEMMA SendingKeepsType ==
  ASSUME TypeOK, Sending
  PROVE  TypeOK'
  <1> PICK s \in Slots : Store(s) \/ Die(s) \/ \E n \in Nodes : Publish(s, n)
    BY DEF Sending
  <1>1. CASE Store(s)
    <2>1. newest \in Nat /\ newest' \in 0..MaxMessages /\ newest' = newest + 1 /\ newest <= newest'
      BY <1>1, StreamAssumption DEF Store, TypeOK
    <2>2. /\ 1..newest \subseteq 1..newest' /\ 0..newest \subseteq 0..newest'
          /\ Seq(1..newest) \subseteq Seq(1..newest')
          /\ Seq([seq: 1..newest, live: BOOLEAN]) \subseteq Seq([seq: 1..newest', live: BOOLEAN])
      BY <2>1, TypesGrow
    <2>3. send' \in [Slots -> 0..newest']
      BY <1>1, <2>1, <2>2 DEF Store, TypeOK
    <2>4. relay' \in [Nodes -> [Nodes -> Seq(1..newest')]]
      BY <1>1, <2>2 DEF Store, TypeOK
    <2>5. \A k \in Conns : conn[k].since <= newest' /\ conn[k].upTo <= newest'
      <3> TAKE k \in Conns
      <3>1. conn[k] \in ConnRecords
        BY DEF TypeOK
      <3>2. conn[k].since \in Int /\ conn[k].upTo \in Int
        BY <3>1, Bounds DEF ConnRecords, Seqs, NoId
      <3> QED  BY <2>1, <3>2 DEF TypeOK
    <2> QED  BY <1>1, <2>1, <2>2, <2>3, <2>4, <2>5 DEF Store, TypeOK
  <1>2. CASE Die(s)
    <2>1. send[s] \in Nat /\ send' \in [Slots -> 0..newest]
      BY <1>2 DEF Die, TypeOK
    <2>2. excuse' \in Excuses
      BY <1>2, <2>1, ExcusesGrow DEF Die, TypeOK
    <2> QED  BY <1>2, <2>1, <2>2, WireKeepsType DEF Die, TypeOK
  <1>3. ASSUME NEW n \in Nodes, Publish(s, n)
        PROVE  TypeOK'
    <2>1. send[s] \in 1..newest /\ send' \in [Slots -> 0..newest]
      BY <1>3 DEF Publish, TypeOK
    <2>2. wire' \in Seq([seq: 1..newest, live: BOOLEAN])
      BY <1>3, <2>1, DeliverKeepsType DEF Publish
    <2>3. \A t \in Nodes : Append(relay[n][t], send[s]) \in Seq(1..newest)
      BY <2>1, AppendProperties DEF TypeOK
    <2>4. relay' \in [Nodes -> [Nodes -> Seq(1..newest)]]
      BY <1>3, <2>3 DEF Publish, TypeOK
    <2> QED  BY <1>3, <2>1, <2>2, <2>4, WireKeepsType DEF Publish, TypeOK
  <1> QED  BY <1>1, <1>2, <1>3

LEMMA RelayingKeepsType ==
  ASSUME TypeOK, NEW p \in Nodes, NEW n \in Nodes, Inbound(p, n) \/ Lose(p, n)
  PROVE  TypeOK'
  <1>1. relay[p][n] \in Seq(1..newest) /\ relay[p][n] # <<>>
    BY DEF TypeOK, Inbound, Lose
  <1>2. Head(relay[p][n]) \in 1..newest /\ Tail(relay[p][n]) \in Seq(1..newest)
    BY <1>1, HeadTailProperties
  <1>3. relay' \in [Nodes -> [Nodes -> Seq(1..newest)]]
    <2>1. relay' = [relay EXCEPT ![p][n] = Tail(relay[p][n])]
      BY DEF TypeOK, Inbound, Lose
    <2> QED  BY <1>2, <2>1 DEF TypeOK
  <1>4. wire' \in Seq([seq: 1..newest, live: BOOLEAN])
    BY <1>2, DeliverKeepsType DEF Inbound, Lose, TypeOK
  <1>5. excuse' \in Excuses
    <2> DEFINE q == Head(relay[p][n])
    <2>1. q \in Nat
      BY <1>2
    <2>2. excuse' = excuse \/ excuse' = [excuse EXCEPT !.dropped = @ \union {q}]
      BY DEF Inbound, Lose
    <2> HIDE DEF q
    <2> QED  BY <2>1, <2>2, ExcusesGrow DEF TypeOK
  <1> QED  BY <1>3, <1>4, <1>5, WireKeepsType DEF Inbound, Lose, TypeOK

LEMMA StreamingKeepsType ==
  ASSUME TypeOK, NEW k \in Conns, Streaming(k)
  PROVE  TypeOK'
  <1> DEFINE c == conn[k]
  <1>1. /\ c \in ConnRecords /\ c.since <= newest /\ c.upTo <= newest /\ newest \in Nat
        /\ MaxMessages \in Nat /\ newest <= MaxMessages
        /\ c.phase \in {"replaying", "read"} => c.since # NoId
    BY StreamAssumption DEF TypeOK
  <1>2. CASE ReplayRead(k)
    <2> DEFINE upTo == IF banned THEN c.since ELSE newest
               d    == [c EXCEPT !.phase = "read", !.upTo = upTo]
    <2>1. c.since \in 1..newest /\ c.since # NoId
      BY <1>1, <1>2 DEF ReplayRead, ConnRecords, Seqs
    <2>4. upTo \in 0..MaxMessages /\ upTo <= newest
      BY <1>1, <2>1
    <2>3. conn' = [conn EXCEPT ![k] = d]
      BY <1>2 DEF ReplayRead, TypeOK
    <2> HIDE DEF upTo
    <2>2. d \in ConnRecords /\ d.since = c.since /\ d.upTo <= newest /\ d.phase = "read"
      BY <1>1, <2>4 DEF ConnRecords
    <2> QED  BY <1>1, <1>2, <2>1, <2>2, <2>3, ConnKeepsType DEF ReplayRead, TypeOK
  <1>3. CASE ReplayWrite(k)
    <2> DEFINE d == [c EXCEPT !.phase = "streaming", !.timer = TRUE]
    <2>1. d \in ConnRecords /\ d.since = c.since /\ d.upTo = c.upTo /\ d.phase = "streaming"
      BY <1>1 DEF ConnRecords
    <2>2. conn' = [conn EXCEPT ![k] = d]
      BY <1>3 DEF ReplayWrite, TypeOK
    <2>3. /\ PageFrames(k) \in Seq([seq: 1..newest, live: BOOLEAN])
          /\ BeyondPage(k) \subseteq Nat
      BY <1>1, <1>3, Frames DEF ReplayWrite
    <2>4. wire' \in Seq([seq: 1..newest, live: BOOLEAN])
      <3>1. wire' = wire \/ wire' = wire \o PageFrames(k)
        BY <1>3 DEF ReplayWrite
      <3> QED  BY <2>3, <3>1, ConcatProperties DEF TypeOK
    <2>5. excuse' \in Excuses
      BY <1>3, <2>3, ExcusesGrow DEF ReplayWrite, TypeOK
    <2> QED  BY <1>1, <1>3, <2>1, <2>2, <2>4, <2>5, ConnKeepsType DEF ReplayWrite, TypeOK
  <1>4. CASE Cancel(k)
    <2>1. /\ Closed(c) \in ConnRecords /\ Closed(c).upTo = c.upTo
          /\ Closed(c).phase = c.phase /\ Closed(c).since = c.since
      BY <1>1 DEF Closed, ConnRecords
    <2> QED  BY <1>1, <1>4, <2>1, ConnKeepsType DEF Cancel, TypeOK
  <1>5. CASE Beat(k)
    <2> DEFINE d == [c EXCEPT !.checking = TRUE]
    <2>1. d \in ConnRecords /\ d.upTo = c.upTo /\ d.phase = c.phase /\ d.since = c.since
      BY <1>1 DEF ConnRecords
    <2>2. conn' = [conn EXCEPT ![k] = d]
      BY <1>5 DEF Beat, TypeOK
    <2> QED  BY <1>1, <1>5, <2>1, <2>2, ConnKeepsType DEF Beat, TypeOK
  <1>6. CASE Checked(k)
    <2> DEFINE d == [Verdict(c) EXCEPT !.checking = FALSE]
    <2>1. d \in ConnRecords /\ d.upTo = c.upTo /\ d.phase = c.phase /\ d.since = c.since
      BY <1>1 DEF Verdict, Closed, ConnRecords
    <2>2. conn' = [conn EXCEPT ![k] = d]
      BY <1>6 DEF Checked, TypeOK
    <2> QED  BY <1>1, <1>6, <2>1, <2>2, ConnKeepsType DEF Checked, TypeOK
  <1>7. ASSUME NEW n \in Nodes, Open(k, n)
        PROVE  TypeOK'
    <2>1. lastId \in Seqs \union {NoId} /\ lastId <= newest
      BY <1>1 DEF TypeOK, Seqs, NoId
    <2>2. /\ Opened(n) \in ConnRecords /\ Opened(n).upTo = 0 /\ Opened(n).since = lastId
          /\ Opened(n).phase \in {"replaying", "read"} => lastId # NoId
      <3>1. Unused \in ConnRecords /\ Unused.upTo = 0 /\ Unused.since = NoId
        BY <1>1 DEF Unused, ConnRecords
      <3>2. CASE lastId = NoId
        <4>1. Opened(n) = [Unused EXCEPT !.phase = "streaming", !.node = n, !.timer = TRUE]
          BY <3>2 DEF Opened
        <4> QED  BY <3>1, <3>2, <4>1 DEF ConnRecords
      <3>3. CASE lastId # NoId
        <4>1. Opened(n) = [Unused EXCEPT !.phase = "replaying", !.node = n, !.since = lastId]
          BY <3>3 DEF Opened
        <4> QED  BY <2>1, <3>1, <3>3, <4>1 DEF ConnRecords
      <3> QED  BY <3>2, <3>3
    <2>3. excuse' \in Excuses
      <3> DEFINE missed == {q \in 1..newest : ~OnItsWayTo(n, q)}
      <3>1. \/ excuse' = excuse \/ excuse' = [excuse EXCEPT !.before = 1..newest]
            \/ excuse' = [excuse EXCEPT !.noId = @ \union missed]
        BY <1>7 DEF Open
      <3>2. 1..newest \in SUBSET Nat /\ missed \in SUBSET Nat
        BY <1>1
      <3> QED  BY <3>1, <3>2, ExcusesGrow DEF TypeOK
    <2> QED  BY <1>1, <1>7, <2>1, <2>2, <2>3, ConnKeepsType DEF Open, TypeOK
  <1> QED  BY <1>2, <1>3, <1>4, <1>5, <1>6, <1>7 DEF Streaming

LEMMA BreakKeepsType ==
  ASSUME TypeOK, NEW i \in 0..Len(wire), Break(i)
  PROVE  TypeOK'
  <1> DEFINE id == IF i = 0 THEN lastId ELSE wire[i].seq
  <1>1. Len(wire) \in Nat /\ \A j \in 1..Len(wire) : wire[j].seq \in 1..newest
    <2>1. \A j \in 1..Len(wire) : wire[j] \in [seq: 1..newest, live: BOOLEAN]
      BY ElementOfSeq DEF TypeOK
    <2> QED  BY <2>1, LenProperties DEF TypeOK
  <1>2. id \in 1..newest \union {NoId}
    BY <1>1 DEF TypeOK
  <1>3. got' \subseteq 1..newest
    BY <1>1 DEF Break, Seen, TypeOK
  <1>4. Overtaken(id) \subseteq Nat
    BY DEF Overtaken
  <1>5. GapOpen(i) => conn[cur].since + 1 \in Nat
    <2>1. cur \in Conns /\ conn[cur] \in ConnRecords
      BY DEF Break, TypeOK
    <2> QED  BY <2>1, Bounds DEF GapOpen, TypeOK, ConnRecords, Seqs, NoId
  <1>6. excuse' \in Excuses
    <2> DEFINE gap == IF GapOpen(i) THEN (conn[cur].since + 1) .. (id - 1) ELSE {}
    <2>1. gap \subseteq Nat
      BY <1>2, <1>5 DEF TypeOK, NoId
    <2>2. excuse' = [[excuse EXCEPT !.overtaken = @ \union Overtaken(id)]
                       EXCEPT !.gapOpen = @ \union gap]
      <3>1. excuse' = [excuse EXCEPT !.overtaken = @ \union Overtaken(id),
                                     !.gapOpen = excuse.gapOpen \union gap]
        BY DEF Break, TypeOK, Excuses
      <3> QED  BY <3>1 DEF TypeOK, Excuses
    <2> HIDE DEF gap, id
    <2> QED  BY <1>4, <2>1, <2>2, ExcusesGrow DEF TypeOK
  <1>7. wire' \in Seq([seq: 1..newest, live: BOOLEAN])
    BY EmptySeq DEF Break
  <1> QED  BY <1>2, <1>3, <1>6, <1>7, WireKeepsType DEF Break, TypeOK

LEMMA NextKeepsType ==
  ASSUME TypeOK, [Next]_vars
  PROVE  TypeOK'
  <1>1. CASE Sending
    BY <1>1, SendingKeepsType
  <1>2. CASE Relaying
    BY <1>2, RelayingKeepsType DEF Relaying
  <1>3. CASE \E k \in Conns : Streaming(k)
    BY <1>3, StreamingKeepsType
  <1>4. CASE Browsing
    BY <1>4, BreakKeepsType DEF Browsing
  <1>5. CASE Ban
    BY <1>5, WireKeepsType DEF Ban, TypeOK
  <1>6. CASE UNCHANGED vars
    BY <1>6, WireKeepsType DEF vars, TypeOK
  <1> QED  BY <1>1, <1>2, <1>3, <1>4, <1>5, <1>6 DEF Next
-----------------------------------------------------------------------------
(* Sequences that are written at the end and read from the front.          *)

LEMMA SeqRange ==
  ASSUME NEW S, NEW s \in Seq(S)
  PROVE  Range(s) \subseteq S
  BY LenProperties, ElementOfSeq DEF Range

LEMMA AppendRange ==
  ASSUME NEW S, NEW s \in Seq(S), NEW x \in S
  PROVE  /\ Range(Append(s, x)) = Range(s) \union {x}
         /\ Distinct(s) /\ x \notin Range(s) => Distinct(Append(s, x))
  <1>1. /\ Len(s) \in Nat /\ Len(Append(s, x)) = Len(s) + 1
        /\ Append(s, x)[Len(s) + 1] = x
        /\ \A i \in 1..Len(s) : Append(s, x)[i] = s[i]
        /\ DOMAIN s = 1..Len(s) /\ DOMAIN Append(s, x) = 1..(Len(s) + 1)
    BY AppendProperties, LenProperties
  <1>2. 1..(Len(s) + 1) = 1..Len(s) \union {Len(s) + 1}
    BY <1>1
  <1>3. Range(Append(s, x)) = Range(s) \union {x}
    BY <1>1, <1>2 DEF Range
  <1>4. Distinct(s) /\ x \notin Range(s) => Distinct(Append(s, x))
    BY <1>1, <1>2 DEF Range, Distinct
  <1> QED  BY <1>3, <1>4

LEMMA TailRange ==
  ASSUME NEW S, NEW s \in Seq(S), s # <<>>
  PROVE  /\ Range(s) = Range(Tail(s)) \union {Head(s)}
         /\ Distinct(s) => Head(s) \notin Range(Tail(s)) /\ Distinct(Tail(s))
  <1> DEFINE n == Len(s)
  <1>1. /\ n \in Nat \ {0} /\ DOMAIN s = 1..n
        /\ Tail(s) \in Seq(S) /\ Len(Tail(s)) = n - 1 /\ Head(s) = s[1]
        /\ \A i \in 1..(n - 1) : Tail(s)[i] = s[i + 1]
    <2>1. n \in Nat \ {0} /\ DOMAIN s = 1..n
      BY EmptySeq, LenProperties
    <2>2. /\ Tail(s) \in Seq(S) /\ Len(Tail(s)) = n - 1
          /\ \A i \in 1..Len(Tail(s)) : Tail(s)[i] = s[i + 1]
      BY HeadTailProperties
    <2> QED  BY <2>1, <2>2
  <1>2. DOMAIN Tail(s) = 1..(n - 1)
    BY <1>1, LenProperties
  <1> HIDE DEF n
  <1>3. /\ 1 \in 1..n
        /\ \A i \in 1..n : i = 1 \/ (i - 1 \in 1..(n - 1) /\ s[i] = Tail(s)[i - 1])
        /\ \A i \in 1..(n - 1) : i + 1 \in 1..n
    BY <1>1
  <1>4. Range(s) = Range(Tail(s)) \union {Head(s)}
    <2>1. \A x \in Range(s) : x \in Range(Tail(s)) \/ x = Head(s)
      BY <1>1, <1>2, <1>3 DEF Range
    <2>2. \A x \in Range(Tail(s)) : x \in Range(s)
      BY <1>1, <1>2, <1>3 DEF Range
    <2>3. Head(s) \in Range(s)
      BY <1>1, <1>3 DEF Range
    <2> QED  BY <2>1, <2>2, <2>3
  <1>5. ASSUME Distinct(s)
        PROVE  Head(s) \notin Range(Tail(s)) /\ Distinct(Tail(s))
    <2>1. \A i \in 1..(n - 1) : i + 1 \in 1..n /\ i + 1 # 1
      BY <1>1
    <2>2. \A i \in 1..(n - 1) : Tail(s)[i] # Head(s)
      BY <1>1, <1>5, <2>1 DEF Distinct
    <2>3. \A i, j \in 1..(n - 1) : Tail(s)[i] = Tail(s)[j] => i = j
      <3> TAKE i, j \in 1..(n - 1)
      <3> HAVE Tail(s)[i] = Tail(s)[j]
      <3>1. i + 1 = j + 1
        BY <1>1, <1>5, <2>1 DEF Distinct
      <3> QED  BY <1>1, <3>1
    <2> QED  BY <1>2, <2>2, <2>3 DEF Range, Distinct
  <1> QED  BY <1>4, <1>5

\* A delivery writes one live frame to the browser's connection, or none.
LEMMA Delivered ==
  ASSUME TypeOK, NEW n \in Nodes, NEW q \in 1..newest, Deliver(n, q)
  PROVE  \/ wire' = wire /\ ~(cur # 0 /\ Hears(cur, n))
         \/ /\ cur # 0 /\ Hears(cur, n)
            /\ DOMAIN wire' = 1..(Len(wire) + 1) /\ Len(wire') = Len(wire) + 1
            /\ wire'[Len(wire) + 1] = Live(q)
            /\ \A i \in 1..Len(wire) : wire'[i] = wire[i]
  <1>1. Live(q) \in [seq: 1..newest, live: BOOLEAN]
    BY DEF Live
  <1> QED  BY <1>1, AppendProperties, LenProperties DEF Deliver, TypeOK

\* What has been handed over stays so while a connection lasts.
LEMMA HandedGrows ==
  ASSUME TypeOK, NEW n \in Nat, n >= Len(wire), Len(wire') = n,
         \A i \in 1..Len(wire) : wire'[i] = wire[i]
  PROVE  /\ Handed \subseteq Handed'
         /\ \A i \in 1..n : wire'[i].seq \in Handed'
  <1>1. Len(wire) \in Nat
    BY LenProperties DEF TypeOK
  <1> QED  BY <1>1 DEF Handed, Seen
-----------------------------------------------------------------------------
(* The connection the browser holds.                                       *)

\* A step of a connection that is not opened now changes neither where it is nor
\* what it continues from.
LEMMA ConnSteps ==
  ASSUME TypeOK, NEW k \in Conns,
         ReplayRead(k) \/ ReplayWrite(k) \/ Cancel(k) \/ Beat(k) \/ Checked(k)
  PROVE  /\ \A j \in Conns \ {k} : conn'[j] = conn[j]
         /\ conn'[k].node = conn[k].node /\ conn'[k].since = conn[k].since
         /\ conn[k].phase # "unused" => conn'[k].phase # "unused"
         /\ conn'[k].closed /\ ~conn[k].closed => banned \/ k # cur
         /\ UNCHANGED <<newest, banned, send, relay, cur, lastId, got>>
  <1> DEFINE c == conn[k]
  <1>1. c \in ConnRecords /\ conn \in [Conns -> ConnRecords]
    BY DEF TypeOK
  <1> DEFINE Step(d) == /\ conn' = [conn EXCEPT ![k] = d]
                        /\ d.node = c.node /\ d.since = c.since
                        /\ c.phase # "unused" => d.phase # "unused"
                        /\ d.closed /\ ~c.closed => banned \/ k # cur
  <1>2. \E d : Step(d)
    <2>1. CASE ReplayRead(k)
      <3> DEFINE d(n) == [c EXCEPT !.phase = "read", !.upTo = n]
      <3>1. conn' = [conn EXCEPT ![k] = d(IF banned THEN c.since ELSE newest)]
        BY <1>1, <2>1 DEF ReplayRead
      <3>2. \A n : d(n).node = c.node /\ d(n).since = c.since /\ d(n).closed = c.closed
                   /\ d(n).phase = "read"
        BY <1>1 DEF ConnRecords
      <3> HIDE DEF d
      <3> QED  BY <3>1, <3>2
    <2>2. CASE ReplayWrite(k)
      <3>1. conn' = [conn EXCEPT ![k] = [c EXCEPT !.phase = "streaming", !.timer = TRUE]]
        BY <1>1, <2>2 DEF ReplayWrite
      <3>2. Step([c EXCEPT !.phase = "streaming", !.timer = TRUE])
        BY <1>1, <3>1 DEF ConnRecords
      <3> QED  BY <3>2
    <2>3. CASE Cancel(k)
      <3>1. Step(Closed(c))
        BY <1>1, <2>3 DEF Cancel, Closed, ConnRecords
      <3> QED  BY <3>1
    <2>4. CASE Beat(k)
      <3>1. conn' = [conn EXCEPT ![k] = [c EXCEPT !.checking = TRUE]]
        BY <1>1, <2>4 DEF Beat
      <3>2. Step([c EXCEPT !.checking = TRUE])
        BY <1>1, <3>1 DEF ConnRecords
      <3> QED  BY <3>2
    <2>5. CASE Checked(k)
      <3>1. conn' = [conn EXCEPT ![k] = [Verdict(c) EXCEPT !.checking = FALSE]]
        BY <1>1, <2>5 DEF Checked
      <3>2. Step([Verdict(c) EXCEPT !.checking = FALSE])
        BY <1>1, <3>1 DEF Verdict, Closed, ConnRecords
      <3> QED  BY <3>2
    <2> QED  BY <2>1, <2>2, <2>3, <2>4, <2>5
  <1> QED  BY <1>1, <1>2 DEF ReplayRead, ReplayWrite, Cancel, Beat, Checked

\* How far its replay has come.
LEMMA ConnPhases ==
  ASSUME TypeOK, NEW k \in Conns
  PROVE  /\ ReplayRead(k) => /\ conn[k].phase = "replaying" /\ conn'[k].phase = "read"
                             /\ ~banned => conn'[k].upTo = newest
         /\ ReplayWrite(k) => /\ conn[k].phase = "read" /\ conn'[k].phase = "streaming"
                              /\ conn'[k].upTo = conn[k].upTo
         /\ Cancel(k) \/ Beat(k) \/ Checked(k) =>
              conn'[k].phase = conn[k].phase /\ conn'[k].upTo = conn[k].upTo
  <1> DEFINE c == conn[k]
  <1>1. c \in ConnRecords /\ conn \in [Conns -> ConnRecords]
    BY DEF TypeOK
  <1>2. ASSUME ReplayRead(k)
        PROVE  /\ c.phase = "replaying" /\ conn'[k].phase = "read"
               /\ ~banned => conn'[k].upTo = newest
    <2> DEFINE d(n) == [c EXCEPT !.phase = "read", !.upTo = n]
    <2>1. conn'[k] = d(IF banned THEN c.since ELSE newest)
      BY <1>1, <1>2 DEF ReplayRead
    <2>2. \A n : d(n).phase = "read" /\ d(n).upTo = n
      BY <1>1 DEF ConnRecords
    <2> HIDE DEF d
    <2> QED  BY <1>2, <2>1, <2>2 DEF ReplayRead
  <1>3. ASSUME ReplayWrite(k)
        PROVE  /\ c.phase = "read" /\ conn'[k].phase = "streaming"
               /\ conn'[k].upTo = c.upTo
    <2>1. conn'[k] = [c EXCEPT !.phase = "streaming", !.timer = TRUE]
      BY <1>1, <1>3 DEF ReplayWrite
    <2> QED  BY <1>1, <1>3, <2>1 DEF ReplayWrite, ConnRecords
  <1>4. ASSUME Cancel(k) \/ Beat(k) \/ Checked(k)
        PROVE  conn'[k].phase = c.phase /\ conn'[k].upTo = c.upTo
    <2>1. \/ conn'[k] = Closed(c) \/ conn'[k] = [c EXCEPT !.checking = TRUE]
          \/ conn'[k] = [Verdict(c) EXCEPT !.checking = FALSE]
      BY <1>1, <1>4 DEF Cancel, Beat, Checked
    <2> QED  BY <1>1, <2>1 DEF Verdict, Closed, ConnRecords
  <1> QED  BY <1>2, <1>3, <1>4

\* A connection is opened for a browser that holds none and is not banned.
LEMMA Opens ==
  ASSUME TypeOK, NEW k \in Conns, NEW n \in Nodes, Open(k, n)
  PROVE  /\ cur = 0 /\ cur' = k /\ ~banned /\ k # 0
         /\ conn'[k].node = n /\ conn'[k].since = lastId /\ ~conn'[k].closed
         /\ conn'[k].phase = IF lastId = NoId THEN "streaming" ELSE "replaying"
         /\ UNCHANGED <<newest, banned, send, relay, wire, lastId, got>>
  <1>1. conn'[k] = Opened(n)
    BY DEF Open, TypeOK
  <1>2. /\ Opened(n).node = n /\ Opened(n).since = lastId /\ ~Opened(n).closed
        /\ Opened(n).phase = IF lastId = NoId THEN "streaming" ELSE "replaying"
    BY DEF Opened, Unused
  <1> QED  BY <1>1, <1>2 DEF Open, Conns

LEMMA CurrentStep ==
  ASSUME TypeOK, Current, [Next]_vars
  PROVE  Current'
  <1>1. CASE Sending
    <2>1. UNCHANGED <<banned, conn, cur, lastId>> /\ (cur = 0 => wire' = wire)
      BY <1>1 DEF Sending, Store, Die, Publish, Deliver
    <2> QED  BY <2>1 DEF Current
  <1>2. CASE Relaying
    <2>1. UNCHANGED <<banned, conn, cur, lastId>> /\ (cur = 0 => wire' = wire)
      BY <1>2 DEF Relaying, Inbound, Lose, Deliver
    <2> QED  BY <2>1 DEF Current
  <1>3. ASSUME NEW k \in Conns, Streaming(k)
        PROVE  Current'
    <2>1. CASE \E n \in Nodes : Open(k, n)
      BY <2>1, Opens DEF Current
    <2>2. CASE ~\E n \in Nodes : Open(k, n)
      <3>1. cur = 0 => wire' = wire
        BY <1>3, <2>2 DEF Streaming, ReplayRead, ReplayWrite, Cancel, Beat, Checked, Conns
      <3>2. /\ \A j \in Conns \ {k} : conn'[j] = conn[j]
            /\ conn'[k].node = conn[k].node /\ conn'[k].since = conn[k].since
            /\ conn[k].phase # "unused" => conn'[k].phase # "unused"
            /\ conn'[k].closed /\ ~conn[k].closed => banned \/ k # cur
            /\ UNCHANGED <<banned, cur, lastId>>
        BY <1>3, <2>2, ConnSteps DEF Streaming
      <3>3. cur \in Conns \union {0}
        BY DEF TypeOK
      <3> QED  BY <3>1, <3>2, <3>3 DEF Current
    <2> QED  BY <2>1, <2>2
  <1>4. CASE Browsing
    BY <1>4 DEF Browsing, Break, Current
  <1>5. CASE Ban
    BY <1>5 DEF Ban, Current
  <1>6. CASE UNCHANGED vars
    BY <1>6 DEF vars, Current
  <1> QED  BY <1>1, <1>2, <1>3, <1>4, <1>5, <1>6 DEF Next
-----------------------------------------------------------------------------
(* What is on its way, to the node the browser is connected to.            *)

\* A stored message is on no wire and in no relay before it is published.
LEMMA StoreWay ==
  ASSUME TypeOK, OneCopy, Current, NEW s \in Slots, Store(s)
  PROVE  /\ newest \in Nat /\ newest' = newest + 1 /\ OneCopy'
         /\ cur # 0 => /\ \A q \in {newest + 1} : OnItsWay(q)'
                       /\ \A q \in 1..newest : OnItsWay(q)' <=> OnItsWay(q)
  <1>1. newest \in Nat /\ newest' = newest + 1
    BY Bounds DEF Store, TypeOK
  <1>2. /\ \A t \in Slots : send'[t] = IF t = s THEN newest + 1 ELSE send[t]
        /\ \A t \in Slots : send[t] \in Nat /\ send[t] <= newest
        /\ send[s] = 0
    BY <1>1 DEF Store, TypeOK
  <1>3. \A p, n \in Nodes : Range(relay[p][n]) \subseteq 1..newest
    <2> TAKE p, n \in Nodes
    <2>1. relay[p][n] \in Seq(1..newest)
      BY DEF TypeOK
    <2> QED  BY <2>1, SeqRange, NewestIsNat
  <1>4. OneCopy'
    BY <1>1, <1>2, <1>3 DEF OneCopy, Store
  <1>5. CASE cur # 0
    <2>1. conn[cur].node \in Nodes /\ UNCHANGED <<relay, conn, cur>>
      BY <1>5 DEF Current, Store
    <2>2. \A q \in {newest + 1} : OnItsWay(q)'
      BY <1>2 DEF OnItsWay, OnItsWayTo
    <2>3. \A q \in 1..newest : q # newest + 1 /\ q # 0
      BY <1>1
    <2>4. \A q \in 1..newest : (\E t \in Slots : send'[t] = q) <=> (\E t \in Slots : send[t] = q)
      BY <1>2, <2>3
    <2>5. \A q \in 1..newest : OnItsWay(q)' <=> OnItsWay(q)
      BY <2>1, <2>4 DEF OnItsWay, OnItsWayTo
    <2> QED  BY <1>1, <1>4, <2>2, <2>5
  <1> QED  BY <1>1, <1>4, <1>5

\* A send that dies takes its message with it.
LEMMA DieWay ==
  ASSUME TypeOK, OneCopy, NEW s \in Slots, Die(s)
  PROVE  /\ OneCopy'
         /\ \A q \in 1..newest : OnItsWay(q)' => OnItsWay(q)
         /\ \A q \in 1..newest : OnItsWay(q) => OnItsWay(q)' \/ q \in excuse'.dropped
         /\ excuse'.dropped = excuse.dropped \union {send[s]}
  <1>1. \A t \in Slots : send'[t] = IF t = s THEN 0 ELSE send[t]
    BY DEF Die, TypeOK
  <1>2. excuse'.dropped = excuse.dropped \union {send[s]}
    BY DEF Die, TypeOK, Excuses
  <1>3. \A p, n \in Nodes : 0 \notin Range(relay[p][n])
    <2> TAKE p, n \in Nodes
    <2>1. relay[p][n] \in Seq(1..newest)
      BY DEF TypeOK
    <2> QED  BY <2>1, SeqRange, NewestIsNat
  <1>4. OneCopy'
    BY <1>1, <1>3 DEF OneCopy, Die
  <1>5. \A q \in 1..newest : (OnItsWay(q)' => OnItsWay(q))
                             /\ (OnItsWay(q) => OnItsWay(q)' \/ q = send[s])
    BY <1>1 DEF OnItsWay, OnItsWayTo, Die
  <1> QED  BY <1>2, <1>4, <1>5

\* Publishing hands the message to the browser's node or puts it in the relay.
LEMMA PublishWay ==
  ASSUME TypeOK, OneCopy, Current, NEW s \in Slots, NEW n \in Nodes, Publish(s, n)
  PROVE  /\ OneCopy'
         /\ send[s] \in 1..newest
         /\ cur # 0 =>
              /\ OnItsWay(send[s])
              /\ \A q \in {send[s]} : n = conn[cur].node => ~OnItsWay(q)'
              /\ \A q \in 1..newest : OnItsWay(q)' => OnItsWay(q)
              /\ \A q \in 1..newest : OnItsWay(q) =>
                   OnItsWay(q)' \/ (n = conn[cur].node /\ q = send[s])
  <1>1. send[s] \in 1..newest
    BY NewestIsNat DEF Publish, TypeOK
  <1>2. \A t \in Slots : send'[t] = IF t = s THEN 0 ELSE send[t]
    BY DEF Publish, TypeOK
  <1>3. \A p, t \in Nodes : /\ relay[p][t] \in Seq(1..newest)
                            /\ 0 \notin Range(relay[p][t])
    <2> TAKE p, t \in Nodes
    <2>1. relay[p][t] \in Seq(1..newest)
      BY DEF TypeOK
    <2> QED  BY <2>1, SeqRange, NewestIsNat
  <1>4. \A p, t \in Nodes :
          relay'[p][t] = IF p = n THEN Append(relay[p][t], send[s]) ELSE relay[p][t]
    BY DEF Publish, TypeOK
  <1>5. ASSUME NEW t \in Nodes
        PROVE  /\ Range(relay'[n][t]) = Range(relay[n][t]) \union {send[s]}
               /\ Distinct(relay'[n][t])
    <2> DEFINE S == 1..newest
    <2>1. relay[n][t] \in Seq(S) /\ send[s] \in S
      BY <1>1, <1>3
    <2>2. send[s] \notin Range(relay[n][t]) /\ Distinct(relay[n][t])
      BY DEF OneCopy
    <2> HIDE DEF S
    <2>3. /\ Range(Append(relay[n][t], send[s])) = Range(relay[n][t]) \union {send[s]}
          /\ Distinct(Append(relay[n][t], send[s]))
      BY <2>1, <2>2, AppendRange
    <2> QED  BY <1>4, <2>3
  <1>6. \A p, t \in Nodes : p # n => relay'[p][t] = relay[p][t]
    BY <1>4
  <1>9. \A p, t \in Nodes : Distinct(relay'[p][t])
    BY <1>5, <1>6 DEF OneCopy
  <1>7. OneCopy'
    <2>1. \A t, u \in Slots : send'[t] # 0 /\ send'[t] = send'[u] => t = u
      BY <1>2 DEF OneCopy
    <2>2. \A t \in Slots, p, m \in Nodes : send'[t] \notin Range(relay'[p][m])
      <3> TAKE t \in Slots, p, m \in Nodes
      <3>1. CASE t = s
        <4>1. send'[t] = 0
          BY <1>2, <3>1
        <4>2. send[s] # 0 /\ 0 \notin Range(relay[p][m])
          BY <1>1, <1>3, NewestIsNat
        <4> QED  BY <1>5, <1>6, <4>1, <4>2
      <3>2. CASE t # s
        <4>1. send'[t] = send[t] /\ send[t] \notin Range(relay[p][m])
          BY <1>2, <3>2 DEF OneCopy
        <4>2. send[t] # send[s]
          BY <1>1, <3>2, NewestIsNat DEF OneCopy
        <4> QED  BY <1>5, <1>6, <4>1, <4>2
      <3> QED  BY <3>1, <3>2
    <2>3. \A p, r, m \in Nodes : p # r => Range(relay'[p][m]) \cap Range(relay'[r][m]) = {}
      BY <1>5, <1>6 DEF OneCopy
    <2> QED  BY <1>9, <2>1, <2>2, <2>3 DEF OneCopy
  <1>8. ASSUME cur # 0
        PROVE  /\ OnItsWay(send[s])
               /\ \A q \in {send[s]} : n = conn[cur].node => ~OnItsWay(q)'
               /\ \A q \in 1..newest : OnItsWay(q)' => OnItsWay(q)
               /\ \A q \in 1..newest : OnItsWay(q) =>
                    OnItsWay(q)' \/ (n = conn[cur].node /\ q = send[s])
    <2>1. conn[cur].node \in Nodes /\ conn'[cur'].node = conn[cur].node
      BY <1>8 DEF Current, Publish
    <2>2. OnItsWay(send[s])
      BY DEF OnItsWay, OnItsWayTo
    <2>3. \A q \in {send[s]} : n = conn[cur].node => ~OnItsWay(q)'
      <3>1. \A t \in Slots : send'[t] # send[s]
        BY <1>1, <1>2, NewestIsNat DEF OneCopy
      <3>2. \A t, p \in Nodes : p # n => send[s] \notin Range(relay'[p][t])
        BY <1>6 DEF OneCopy
      <3> QED  BY <2>1, <3>1, <3>2 DEF OnItsWay, OnItsWayTo
    <2>4. \A q \in 1..newest : OnItsWay(q)' => OnItsWay(q)
      BY <1>1, <1>2, <1>5, <1>6, <2>1 DEF OnItsWay, OnItsWayTo
    <2>5. \A q \in 1..newest : OnItsWay(q) =>
            OnItsWay(q)' \/ (n = conn[cur].node /\ q = send[s])
      <3> TAKE q \in 1..newest
      <3> HAVE OnItsWay(q)
      <3>1. CASE q = send[s]
        BY <1>5, <2>1, <3>1 DEF OnItsWay, OnItsWayTo
      <3>2. CASE q # send[s]
        BY <1>2, <1>5, <1>6, <2>1, <3>2 DEF OnItsWay, OnItsWayTo
      <3> QED  BY <3>1, <3>2
    <2> QED  BY <2>2, <2>3, <2>4, <2>5
  <1> QED  BY <1>1, <1>7, <1>8

\* Redis hands over the oldest envelope, or loses it.
LEMMA RelayWay ==
  ASSUME TypeOK, OneCopy, Current, NEW p \in Nodes, NEW n \in Nodes, Inbound(p, n) \/ Lose(p, n)
  PROVE  LET head == Head(relay[p][n]) IN
         /\ OneCopy'
         /\ head \in 1..newest
         /\ cur # 0 =>
              /\ p # n /\ n = conn[cur].node =>
                   OnItsWay(head) /\ \A q \in {head} : ~OnItsWay(q)'
              /\ \A q \in 1..newest : OnItsWay(q)' => OnItsWay(q)
              /\ \A q \in 1..newest : OnItsWay(q) =>
                   OnItsWay(q)' \/ (p # n /\ n = conn[cur].node /\ q = head)
  <1> DEFINE head == Head(relay[p][n])
             tail == Tail(relay[p][n])
  <1>1. relay[p][n] \in Seq(1..newest) /\ relay[p][n] # <<>>
    BY DEF TypeOK, Inbound, Lose
  <1>2. /\ head \in 1..newest /\ head \notin Range(tail)
        /\ Range(relay[p][n]) = Range(tail) \union {head}
        /\ Distinct(tail)
    BY <1>1, TailRange, HeadTailProperties DEF OneCopy
  <1>3. \A t, m \in Nodes : relay'[t][m] = IF t = p /\ m = n THEN tail ELSE relay[t][m]
    <2>1. relay' = [relay EXCEPT ![p][n] = tail]
      BY DEF TypeOK, Inbound, Lose
    <2> HIDE DEF tail
    <2> QED  BY <2>1 DEF TypeOK
  <1>4. UNCHANGED <<send, conn, cur>>
    BY DEF Inbound, Lose
  <1> HIDE DEF head, tail
  <1>7. \A t, m \in Nodes : /\ Range(relay'[t][m]) \subseteq Range(relay[t][m])
                            /\ Distinct(relay'[t][m])
    BY <1>2, <1>3 DEF OneCopy
  <1>5. OneCopy'
    BY <1>4, <1>7 DEF OneCopy
  <1>6. ASSUME cur # 0
        PROVE  /\ p # n /\ n = conn[cur].node =>
                    OnItsWay(head) /\ \A q \in {head} : ~OnItsWay(q)'
               /\ \A q \in 1..newest : OnItsWay(q)' => OnItsWay(q)
               /\ \A q \in 1..newest : OnItsWay(q) =>
                    OnItsWay(q)' \/ (p # n /\ n = conn[cur].node /\ q = head)
    <2>1. conn[cur].node \in Nodes
      BY <1>6 DEF Current
    <2>2. p # n /\ n = conn[cur].node => OnItsWay(head)
      BY <1>2, <2>1 DEF OnItsWay, OnItsWayTo
    <2>3. ASSUME p # n, n = conn[cur].node
          PROVE  \A q \in {head} : ~OnItsWay(q)'
      <3>1. head \in Range(relay[p][n]) /\ head \notin Range(relay'[p][n])
        BY <1>2, <1>3
      <3>2. \A t \in Nodes : head \notin Range(relay'[t][n])
        BY <1>3, <3>1 DEF OneCopy
      <3>3. \A s \in Slots : send'[s] # head
        BY <1>4, <3>1 DEF OneCopy
      <3> QED  BY <1>4, <2>3, <3>2, <3>3 DEF OnItsWay, OnItsWayTo
    <2>4. \A q \in 1..newest : OnItsWay(q)' => OnItsWay(q)
      BY <1>4, <1>7, <2>1 DEF OnItsWay, OnItsWayTo
    <2>5. \A q \in 1..newest : OnItsWay(q) =>
            OnItsWay(q)' \/ (p # n /\ n = conn[cur].node /\ q = head)
      BY <1>2, <1>3, <1>4, <2>1 DEF OnItsWay, OnItsWayTo
    <2> QED  BY <2>2, <2>3, <2>4, <2>5
  <1> QED  BY <1>2, <1>5, <1>6 DEF head
-----------------------------------------------------------------------------
(* Every message is handed over once live and once replayed.               *)

LEMMA FrameSeqs ==
  ASSUME TypeOK
  PROVE  /\ Len(wire) \in Nat /\ DOMAIN wire = 1..Len(wire)
         /\ \A i \in DOMAIN wire : wire[i].seq \in 1..newest /\ wire[i].live \in BOOLEAN
  <1>1. \A i \in 1..Len(wire) : wire[i] \in [seq: 1..newest, live: BOOLEAN]
    BY ElementOfSeq DEF TypeOK
  <1> QED  BY <1>1, LenProperties DEF TypeOK

\* A step that writes nothing and puts nothing more on its way.
LEMMA QuietStep ==
  ASSUME TypeOK, HandedOnce, LiveOnceReplayedOnce, UNCHANGED <<wire, cur>>,
         cur # 0 => /\ \A q \in 1..newest' : OnItsWay(q)' => OnItsWay(q) \/ q \notin 1..newest
                    /\ conn'[cur].phase # "streaming" => conn[cur].phase # "streaming"
  PROVE  HandedOnce' /\ LiveOnceReplayedOnce' /\ Handed' = Handed
  <1>1. \A q : q \notin 1..newest => \A i \in DOMAIN wire : wire[i] # Live(q)
    BY FrameSeqs DEF Live
  <1>2. HandedOnce'
    BY <1>1 DEF HandedOnce, Live
  <1> QED  BY <1>2 DEF LiveOnceReplayedOnce, Handed, Seen

\* A delivery takes what it writes off the way.
LEMMA DeliverStep ==
  ASSUME TypeOK, Current, HandedOnce, LiveOnceReplayedOnce, NEW n \in Nodes, NEW m \in 1..newest,
         Deliver(n, m), UNCHANGED <<newest, conn, cur>>,
         cur # 0 => \A q \in 1..newest : OnItsWay(q)' => OnItsWay(q),
         cur # 0 /\ n = conn[cur].node => OnItsWay(m) /\ \A q \in {m} : ~OnItsWay(q)'
  PROVE  /\ HandedOnce' /\ LiveOnceReplayedOnce' /\ Handed \subseteq Handed'
         /\ cur # 0 /\ n = conn[cur].node /\ ~banned => m \in Handed'
  <1>1. CASE wire' = wire /\ ~(cur # 0 /\ Hears(cur, n))
    <2>1. HandedOnce' /\ LiveOnceReplayedOnce' /\ Handed' = Handed
      BY <1>1, QuietStep
    <2>2. cur # 0 /\ n = conn[cur].node => banned
      BY <1>1 DEF Hears, Current
    <2> QED  BY <2>1, <2>2
  <1>2. CASE /\ cur # 0 /\ Hears(cur, n)
             /\ DOMAIN wire' = 1..(Len(wire) + 1) /\ Len(wire') = Len(wire) + 1
             /\ wire'[Len(wire) + 1] = Live(m)
             /\ \A i \in 1..Len(wire) : wire'[i] = wire[i]
    <2> DEFINE last == Len(wire) + 1
    <2>1. /\ Len(wire) \in Nat /\ DOMAIN wire = 1..Len(wire)
          /\ 1..last = 1..Len(wire) \union {last} /\ last \in 1..last
          /\ \A i \in DOMAIN wire : wire[i].seq \in 1..newest
      BY FrameSeqs
    <2>2. n = conn[cur].node /\ Live(m).live /\ Live(m).seq = m
      BY <1>2 DEF Hears, Live
    <2>3. \A i \in DOMAIN wire : wire[i] # Live(m)
      BY <1>2, <2>1, <2>2 DEF HandedOnce
    <2>4. \A q \in 1..newest : OnItsWay(q)' => \A i \in DOMAIN wire' : wire'[i] # Live(q)
      <3> TAKE q \in 1..newest
      <3> HAVE OnItsWay(q)'
      <3>1. OnItsWay(q) /\ q # m
        BY <1>2, <2>2
      <3>2. Live(q) # Live(m)
        BY <3>1 DEF Live
      <3> QED  BY <1>2, <2>1, <3>1, <3>2 DEF HandedOnce
    <2>5. conn'[cur'].phase # "streaming" => \A i \in DOMAIN wire' : wire'[i].live
      BY <1>2, <2>1, <2>2 DEF HandedOnce
    <2>6. LiveOnceReplayedOnce'
      BY <1>2, <2>1, <2>3 DEF LiveOnceReplayedOnce
    <2>7. Handed \subseteq Handed' /\ m \in Handed'
      BY <1>2, <2>1, <2>2, HandedGrows
    <2> QED  BY <2>4, <2>5, <2>6, <2>7 DEF HandedOnce, Live
  <1> QED  BY <1>1, <1>2, Delivered
\* A replay is written behind what was handed over live, each message once.
LEMMA ReplayFrames ==
  ASSUME TypeOK, NEW k \in Conns, ReplayWrite(k), wire' = wire \o PageFrames(k)
  PROVE  /\ \A i \in DOMAIN wire : wire'[i] = wire[i]
         /\ \A i \in DOMAIN wire' : i \notin DOMAIN wire => ~wire'[i].live
         /\ \A i, j \in DOMAIN wire' : i \notin DOMAIN wire /\ j \notin DOMAIN wire
                                     /\ wire'[i] = wire'[j] => i = j
         /\ Handed \subseteq Handed' /\ Page(k) \subseteq Handed'
  <1> DEFINE f == PageFrames(k)
             a == conn[k].since
             n == Len(wire)
             m == Len(f)
             F == [seq: 1..newest, live: BOOLEAN]
  <1>1. /\ a # NoId /\ a \in Int
    BY Bounds DEF ReplayWrite, TypeOK, ConnRecords, Seqs, NoId
  <1>2. /\ f \in Seq(F) /\ wire \in Seq(F)
        /\ \A i \in DOMAIN f : f[i] = Replayed(a + i)
        /\ \A q \in Page(k) : \E i \in DOMAIN f : f[i].seq = q
        /\ wire' = wire \o f
    BY <1>1, Frames DEF TypeOK
  <1>3. /\ n \in Nat /\ DOMAIN wire = 1..n /\ m \in Nat /\ DOMAIN f = 1..m
        /\ Len(wire') = n + m /\ DOMAIN wire' = 1..(n + m)
        /\ \A i \in 1..(n + m) : wire'[i] = IF i <= n THEN wire[i] ELSE f[i - n]
    <2> HIDE DEF F, f
    <2>1. wire' \in Seq(F) /\ Len(wire') = n + m
      BY <1>2, ConcatProperties
    <2>2. \A i \in 1..(n + m) : wire'[i] = IF i <= n THEN wire[i] ELSE f[i - n]
      BY <1>2, ConcatProperties
    <2> QED  BY <1>2, <2>1, <2>2, LenProperties
  <1> HIDE DEF f, a, n, m, F
  <1>4. /\ \A i \in 1..n : i \in 1..(n + m) /\ wire'[i] = wire[i]
        /\ \A i \in 1..(n + m) : i \notin 1..n => i - n \in 1..m /\ wire'[i] = f[i - n]
        /\ \A i \in 1..m : n + i \in 1..(n + m) /\ wire'[n + i] = f[i]
    BY <1>3
  <1>5. \A i \in 1..m : ~f[i].live /\ f[i].seq = a + i
    BY <1>2, <1>3 DEF Replayed
  <1>6. Handed \subseteq Handed' /\ \A i \in 1..(n + m) : wire'[i].seq \in Handed'
    BY <1>3, <1>4, HandedGrows DEF n
  <1>7. Page(k) \subseteq Handed'
    <2> SUFFICES ASSUME NEW q \in Page(k)
                 PROVE  q \in Handed'
      OBVIOUS
    <2> PICK i \in 1..m : f[i].seq = q
      BY <1>2, <1>3
    <2> QED  BY <1>4, <1>6
  <1>8. \A i, j \in 1..(n + m) : i \notin 1..n /\ j \notin 1..n /\ wire'[i] = wire'[j] => i = j
    <2> TAKE i, j \in 1..(n + m)
    <2> HAVE i \notin 1..n /\ j \notin 1..n /\ wire'[i] = wire'[j]
    <2>1. a + (i - n) = a + (j - n)
      BY <1>4, <1>5
    <2> QED  BY <1>1, <1>3, <2>1
  <1> QED  BY <1>3, <1>4, <1>5, <1>6, <1>7, <1>8

LEMMA OnceStep ==
  ASSUME TypeOK, Current, OneCopy, HandedOnce, LiveOnceReplayedOnce, [Next]_vars
  PROVE  OneCopy' /\ HandedOnce' /\ LiveOnceReplayedOnce'
  <1>1. ASSUME NEW s \in Slots, Store(s)
        PROVE  OneCopy' /\ HandedOnce' /\ LiveOnceReplayedOnce'
    <2>1. /\ OneCopy' /\ UNCHANGED <<wire, cur, conn>>
          /\ cur # 0 => \A q \in 1..newest : OnItsWay(q)' => OnItsWay(q)
      BY <1>1, StoreWay DEF Store
    <2> QED  BY <2>1, QuietStep
  <1>2. ASSUME NEW s \in Slots, Die(s)
        PROVE  OneCopy' /\ HandedOnce' /\ LiveOnceReplayedOnce'
    <2>1. /\ OneCopy' /\ UNCHANGED <<newest, wire, cur, conn>>
          /\ \A q \in 1..newest : OnItsWay(q)' => OnItsWay(q)
      BY <1>2, DieWay DEF Die
    <2> QED  BY <2>1, QuietStep
  <1>3. ASSUME NEW s \in Slots, NEW n \in Nodes, Publish(s, n)
        PROVE  OneCopy' /\ HandedOnce' /\ LiveOnceReplayedOnce'
    <2>1. UNCHANGED <<newest, cur, conn>> /\ Deliver(n, send[s])
      BY <1>3 DEF Publish
    <2> QED  BY <1>3, <2>1, PublishWay, DeliverStep
  <1>4. ASSUME NEW p \in Nodes, NEW n \in Nodes, Inbound(p, n) \/ Lose(p, n)
        PROVE  OneCopy' /\ HandedOnce' /\ LiveOnceReplayedOnce'
    <2> DEFINE head == Head(relay[p][n])
    <2>1. /\ OneCopy' /\ head \in 1..newest /\ UNCHANGED <<newest, cur, conn>>
          /\ cur # 0 => /\ \A q \in 1..newest : OnItsWay(q)' => OnItsWay(q)
                        /\ p # n /\ n = conn[cur].node =>
                             OnItsWay(head) /\ \A q \in {head} : ~OnItsWay(q)'
      BY <1>4, RelayWay DEF Inbound, Lose
    <2>2. wire' = wire \/ (p # n /\ Deliver(n, head))
      BY <1>4 DEF Inbound, Lose, IsEcho
    <2> HIDE DEF head
    <2> QED  BY <2>1, <2>2, QuietStep, DeliverStep
  <1>5. ASSUME NEW k \in Conns, Streaming(k)
        PROVE  OneCopy' /\ HandedOnce' /\ LiveOnceReplayedOnce'
    <2>1. ASSUME NEW n \in Nodes, Open(k, n)
          PROVE  OneCopy' /\ HandedOnce' /\ LiveOnceReplayedOnce'
      <3>1. UNCHANGED <<send, relay>> /\ wire' = <<>>
        BY <2>1, Opens DEF Current
      <3>2. DOMAIN wire' = {}
        BY <3>1
      <3> QED  BY <3>1, <3>2 DEF OneCopy, HandedOnce, LiveOnceReplayedOnce
    <2>2. ASSUME ReplayRead(k) \/ ReplayWrite(k) \/ Cancel(k) \/ Beat(k) \/ Checked(k)
          PROVE  /\ OneCopy' /\ UNCHANGED <<newest, cur>>
                 /\ cur # 0 => \A q \in 1..newest : OnItsWay(q)' => OnItsWay(q)
      <3>1. UNCHANGED <<newest, send, relay, cur>> /\ (cur # 0 => conn'[cur].node = conn[cur].node)
        BY <2>2, ConnSteps DEF TypeOK
      <3> QED  BY <3>1 DEF OneCopy, OnItsWay, OnItsWayTo
    <2>3. CASE ReplayRead(k) \/ Cancel(k) \/ Beat(k) \/ Checked(k)
      <3>1. wire' = wire
        BY <2>3 DEF ReplayRead, Cancel, Beat, Checked
      <3>2. cur # 0 => (conn'[cur].phase # "streaming" => conn[cur].phase # "streaming")
        <4>1. \A j \in Conns \ {k} : conn'[j] = conn[j]
          BY <2>3, ConnSteps
        <4>2. conn[k].phase # "streaming" \/ conn'[k].phase = conn[k].phase
          BY <2>3, ConnPhases
        <4>3. cur # 0 => cur \in Conns
          BY DEF TypeOK
        <4> QED  BY <4>1, <4>2, <4>3
      <3> QED  BY <2>2, <2>3, <3>1, <3>2, QuietStep
    <2>4. CASE ReplayWrite(k)
      <3>1. CASE wire' = wire /\ ~(k = cur /\ ~conn[k].closed)
        <4>1. cur # 0 => (conn'[cur].phase # "streaming" => conn[cur].phase # "streaming")
          <5>1. \A j \in Conns \ {k} : conn'[j] = conn[j]
            BY <2>4, ConnSteps
          <5>2. conn[k].phase # "streaming"
            BY <2>4, ConnPhases
          <5>3. cur # 0 => cur \in Conns
            BY DEF TypeOK
          <5> QED  BY <5>1, <5>2, <5>3
        <4> QED  BY <2>2, <2>4, <3>1, <4>1, QuietStep
      <3>2. CASE k = cur /\ wire' = wire \o PageFrames(k)
        <4>1. conn[cur].phase = "read" /\ conn'[cur'].phase = "streaming" /\ cur # 0 /\ cur' = cur
          <5>1. conn[k].phase = "read" /\ conn'[k].phase = "streaming" /\ cur' = cur
            BY <2>4, ConnPhases DEF ReplayWrite
          <5> QED  BY <3>2, <5>1, Bounds DEF Conns
        <4>2. /\ \A i \in DOMAIN wire : wire[i].live
              /\ \A q \in 1..newest : OnItsWay(q) => \A i \in DOMAIN wire : wire[i] # Live(q)
          BY <4>1 DEF HandedOnce
        <4>3. /\ \A i \in DOMAIN wire : wire'[i] = wire[i]
              /\ \A i \in DOMAIN wire' : i \notin DOMAIN wire => ~wire'[i].live
              /\ \A i, j \in DOMAIN wire' : i \notin DOMAIN wire /\ j \notin DOMAIN wire
                                          /\ wire'[i] = wire'[j] => i = j
          BY <2>4, <3>2, ReplayFrames
        <4>4. HandedOnce'
          BY <2>2, <2>4, <4>1, <4>2, <4>3 DEF HandedOnce, Live
        <4>5. LiveOnceReplayedOnce'
          <5> SUFFICES ASSUME NEW i \in DOMAIN wire', NEW j \in DOMAIN wire', wire'[i] = wire'[j]
                       PROVE  i = j
            BY DEF LiveOnceReplayedOnce
          <5>1. CASE i \in DOMAIN wire
            <6>1. j \in DOMAIN wire
              BY <4>2, <4>3, <5>1
            <6> QED  BY <4>3, <5>1, <6>1 DEF LiveOnceReplayedOnce
          <5>2. CASE i \notin DOMAIN wire
            BY <4>2, <4>3, <5>2
          <5> QED  BY <5>1, <5>2
        <4> QED  BY <2>2, <2>4, <4>4, <4>5
      <3> QED  BY <2>4, <3>1, <3>2 DEF ReplayWrite
    <2> QED  BY <1>5, <2>1, <2>3, <2>4 DEF Streaming
  <1>6. CASE Browsing
    <2>1. UNCHANGED <<send, relay>> /\ wire' = <<>> /\ cur' = 0
      BY <1>6 DEF Browsing, Break
    <2> QED  BY <2>1 DEF OneCopy, HandedOnce, LiveOnceReplayedOnce
  <1>7. CASE Ban \/ UNCHANGED vars
    <2>1. UNCHANGED <<newest, send, relay, wire, cur, conn>>
      BY <1>7 DEF Ban, vars
    <2>2. \A q : OnItsWay(q)' <=> OnItsWay(q)
      BY <2>1 DEF OnItsWay, OnItsWayTo
    <2> QED  BY <2>1, <2>2, QuietStep DEF OneCopy
  <1> QED  BY <1>1, <1>2, <1>3, <1>4, <1>5, <1>6, <1>7 DEF Next, Sending, Relaying
-----------------------------------------------------------------------------
(* Nothing is missed but what is excused.                                  *)

\* Whoever sends and whatever Redis does, what was covered stays covered, and so
\* is what is stored meanwhile.
LEMMA WayStep ==
  ASSUME TypeOK, Current, OneCopy, HandedOnce, LiveOnceReplayedOnce, Sending \/ Relaying
  PROVE  /\ UNCHANGED <<banned, conn, cur, lastId, got>>
         /\ excuse'.before = excuse.before /\ excuse'.noId = excuse.noId
         /\ excuse'.beyondPage = excuse.beyondPage
         /\ Excused \subseteq Excused'
         /\ cur # 0 /\ ~banned =>
              \A q \in 1..newest' : Covered(q)' \/ (q \in 1..newest /\ ~Covered(q))
  <1> DEFINE Kept ==
        /\ UNCHANGED <<banned, conn, cur, lastId, got>>
        /\ excuse'.before = excuse.before /\ excuse'.noId = excuse.noId
        /\ excuse'.beyondPage = excuse.beyondPage
        /\ Excused \subseteq Excused'
        /\ cur # 0 /\ ~banned =>
             \A q \in 1..newest' : Covered(q)' \/ (q \in 1..newest /\ ~Covered(q))
  <1>1. ASSUME NEW s \in Slots, Store(s)
        PROVE  Kept
    <2>1. UNCHANGED <<banned, conn, cur, lastId, got, excuse, wire>>
      BY <1>1 DEF Store
    <2>2. cur # 0 => \A q \in 1..newest' : OnItsWay(q)' \/ (q \in 1..newest /\ ~OnItsWay(q))
      BY <1>1, StoreWay
    <2> QED  BY <2>1, <2>2 DEF Covered, Excused, Handed, Seen
  <1>2. ASSUME NEW s \in Slots, Die(s)
        PROVE  Kept
    <2>1. UNCHANGED <<newest, banned, conn, cur, lastId, got, wire>>
      BY <1>2 DEF Die
    <2>2. /\ excuse'.before = excuse.before /\ excuse'.noId = excuse.noId
          /\ excuse'.beyondPage = excuse.beyondPage
          /\ excuse'.overtaken = excuse.overtaken /\ excuse'.gapOpen = excuse.gapOpen
          /\ excuse.dropped \subseteq excuse'.dropped
      BY <1>2 DEF Die, TypeOK, Excuses
    <2>3. \A q \in 1..newest : OnItsWay(q) => OnItsWay(q)' \/ q \in excuse'.dropped
      BY <1>2, DieWay
    <2> QED  BY <2>1, <2>2, <2>3 DEF Covered, Excused, Handed, Seen
  <1>3. ASSUME NEW s \in Slots, NEW n \in Nodes, Publish(s, n)
        PROVE  Kept
    <2>1. UNCHANGED <<newest, banned, conn, cur, lastId, got, excuse>> /\ Deliver(n, send[s])
      BY <1>3 DEF Publish
    <2>2. /\ Handed \subseteq Handed'
          /\ cur # 0 /\ n = conn[cur].node /\ ~banned => send[s] \in Handed'
      BY <1>3, <2>1, PublishWay, DeliverStep
    <2>3. cur # 0 => \A q \in 1..newest : OnItsWay(q) =>
                       OnItsWay(q)' \/ (n = conn[cur].node /\ q = send[s])
      BY <1>3, PublishWay
    <2> QED  BY <2>1, <2>2, <2>3 DEF Covered, Excused
  <1>4. ASSUME NEW p \in Nodes, NEW n \in Nodes, Inbound(p, n)
        PROVE  Kept
    <2> DEFINE head == Head(relay[p][n])
    <2>1. /\ UNCHANGED <<newest, banned, conn, cur, lastId, got, excuse>>
          /\ wire' = wire \/ Deliver(n, head)
          /\ p # n => Deliver(n, head)
      BY <1>4 DEF Inbound, IsEcho
    <2>2. /\ head \in 1..newest
          /\ cur # 0 => /\ \A q \in 1..newest : OnItsWay(q)' => OnItsWay(q)
                        /\ p # n /\ n = conn[cur].node =>
                             OnItsWay(head) /\ \A q \in {head} : ~OnItsWay(q)'
                        /\ \A q \in 1..newest : OnItsWay(q) =>
                             OnItsWay(q)' \/ (p # n /\ n = conn[cur].node /\ q = head)
      BY <1>4, RelayWay
    <2> HIDE DEF head
    <2>3. CASE p # n
      <3>1. /\ Handed \subseteq Handed'
            /\ cur # 0 /\ n = conn[cur].node /\ ~banned => head \in Handed'
        BY <2>1, <2>2, <2>3, DeliverStep
      <3> QED  BY <2>1, <2>2, <3>1 DEF Covered, Excused
    <2>4. CASE p = n
      <3>1. wire' = wire
        BY <1>4, <2>4 DEF Inbound, IsEcho
      <3> QED  BY <2>1, <2>2, <2>4, <3>1 DEF Covered, Excused, Handed, Seen
    <2> QED  BY <2>3, <2>4
  <1>5. ASSUME NEW p \in Nodes, NEW n \in Nodes, Lose(p, n)
        PROVE  Kept
    <2> DEFINE head == Head(relay[p][n])
    <2>1. UNCHANGED <<newest, banned, conn, cur, lastId, got, wire>>
      BY <1>5 DEF Lose
    <2>2. /\ excuse'.before = excuse.before /\ excuse'.noId = excuse.noId
          /\ excuse'.beyondPage = excuse.beyondPage
          /\ excuse'.overtaken = excuse.overtaken /\ excuse'.gapOpen = excuse.gapOpen
          /\ excuse'.dropped = excuse.dropped \union {head}
      BY <1>5 DEF Lose, TypeOK, Excuses
    <2>3. cur # 0 => \A q \in 1..newest : OnItsWay(q) => OnItsWay(q)' \/ q = head
      BY <1>5, RelayWay
    <2> HIDE DEF head
    <2> QED  BY <2>1, <2>2, <2>3 DEF Covered, Excused, Handed, Seen
  <1> QED  BY <1>1, <1>2, <1>3, <1>4, <1>5 DEF Sending, Relaying

\* What the browser has passed when its connection breaks it has, or it is excused.
LEMMA BreakPasses ==
  ASSUME IInv, NEW i \in 0..Len(wire), Break(i)
  PROVE  PassedIsKnown'
  <1> DEFINE id == IF i = 0 THEN lastId ELSE wire[i].seq
             c  == conn[cur]
  <1>1. /\ TypeOK /\ Current /\ cur # 0 /\ UNCHANGED <<newest, banned>> /\ lastId' = id
        /\ got' = got \union Seen(i)
    BY DEF IInv, Break
  <1>2. /\ excuse'.before = excuse.before /\ excuse'.noId = excuse.noId
        /\ excuse'.dropped = excuse.dropped
        /\ excuse'.beyondPage = excuse.beyondPage
        /\ excuse'.overtaken = excuse.overtaken \union Overtaken(id)
        /\ excuse.gapOpen \subseteq excuse'.gapOpen
        /\ GapOpen(i) => (c.since + 1) .. (id - 1) \subseteq excuse'.gapOpen
    BY <1>1 DEF Break, TypeOK, Excuses
  <1>3. Excused \subseteq Excused' /\ Overtaken(id) \subseteq Excused'
    BY <1>2 DEF Excused
  <1>4. CASE i = 0
    BY <1>1, <1>3, <1>4 DEF IInv, PassedIsKnown
  <1>5. CASE i # 0 /\ ~banned
    <2>1. id \in 1..newest /\ i \in 1..Len(wire) /\ newest \in Nat
      BY <1>1, <1>5, FrameSeqs, NewestIsNat
    <2>2. id \in Seen(i) /\ id # NoId
      BY <1>5, <2>1 DEF Seen, NoId
    <2>3. /\ c.phase \in {"replaying", "read", "streaming"} /\ ~c.closed
          /\ c.since = lastId /\ c.since \in 1..newest \union {NoId}
      BY <1>1, <1>5 DEF Current, TypeOK, ConnRecords
    <2>4. ASSUME NEW q \in 1..(id - 1)
          PROVE  q \in got' \union Excused'
      <3>1. q \in 1..newest
        BY <2>1
      <3>2. CASE c.since # NoId /\ q <= c.since
        <4>1. q \in got \union Excused
          BY <1>5, <2>3, <3>1, <3>2 DEF IInv, PassedIsKnown
        <4> QED  BY <1>1, <1>3, <4>1
      <3>3. CASE c.phase # "streaming" /\ c.since # NoId /\ q > c.since
        <4>1. GapOpen(i)
          BY <1>5, <2>1, <2>3, <3>3 DEF GapOpen
        <4>2. q \in (c.since + 1) .. (id - 1)
          BY <2>1, <2>3, <3>1, <3>3 DEF NoId
        <4> QED  BY <1>2, <4>1, <4>2 DEF Excused
      <3>4. CASE c.phase = "streaming" /\ (c.since # NoId => q > c.since)
        <4>1. Covered(q) \/ q \in excuse.beyondPage \union excuse.before \union excuse.noId
          BY <1>1, <1>5, <2>1, <2>3, <3>1, <3>4 DEF IInv, NothingMissed, NoId
        <4>2. CASE q \in Handed \/ OnItsWay(q)
          BY <1>3, <4>2 DEF Overtaken
        <4>3. CASE q \in excuse.dropped \union excuse.beyondPage \union excuse.before \union excuse.noId
          BY <1>3, <4>3 DEF Excused
        <4> QED  BY <4>1, <4>2, <4>3 DEF Covered
      <3>5. c.phase # "streaming" => c.since # NoId
        BY <1>1, <2>3 DEF TypeOK
      <3> QED  BY <2>1, <2>3, <3>1, <3>2, <3>3, <3>4, <3>5 DEF NoId
    <2>5. 1..id \subseteq got' \union Excused'
      BY <1>1, <2>1, <2>2, <2>4
    <2> QED  BY <1>1, <2>5 DEF PassedIsKnown
  <1>6. CASE banned
    BY <1>1, <1>6 DEF PassedIsKnown
  <1> QED  BY <1>4, <1>5, <1>6
\* The written replay covers what was stored before it was read.
LEMMA ReplayCovers ==
  ASSUME IInv, NEW k \in Conns, ReplayWrite(k)
  PROVE  NothingMissed' /\ PassedIsKnown'
  <1> DEFINE c == conn[k]
  <1>1. /\ TypeOK /\ Current /\ UNCHANGED <<newest, banned, send, relay, cur, lastId, got>>
        /\ \A j \in Conns \ {k} : conn'[j] = conn[j]
        /\ c.phase = "read" /\ conn'[k].phase = "streaming"
        /\ conn'[k].since = c.since /\ conn'[k].node = c.node
    BY ConnSteps, ConnPhases DEF IInv
  <1>2. /\ excuse'.before = excuse.before /\ excuse'.noId = excuse.noId
        /\ excuse'.dropped = excuse.dropped
        /\ excuse.beyondPage \subseteq excuse'.beyondPage
        /\ k = cur /\ ~c.closed => BeyondPage(k) \subseteq excuse'.beyondPage
        /\ Excused \subseteq Excused'
    <2>1. \/ excuse' = excuse /\ ~(k = cur /\ ~c.closed)
          \/ excuse' = [excuse EXCEPT !.beyondPage = @ \union BeyondPage(k)]
      BY DEF ReplayWrite
    <2>2. excuse \in Excuses
      BY <1>1 DEF TypeOK
    <2> QED  BY <2>1, <2>2 DEF Excuses, Excused
  <1>3. cur # 0 => cur \in Conns /\ conn'[cur].node = conn[cur].node
    BY <1>1 DEF TypeOK
  <1>4. cur # 0 => \A q : OnItsWay(q) => OnItsWay(q)'
    BY <1>1, <1>3 DEF OnItsWay, OnItsWayTo
  <1>5. PassedIsKnown'
    BY <1>1, <1>2 DEF IInv, PassedIsKnown
  <1>6. CASE cur # k
    <2>1. cur # 0 => conn'[cur] = conn[cur]
      BY <1>1, <1>3, <1>6
    <2>2. wire' = wire
      BY <1>6 DEF ReplayWrite
    <2>3. cur # 0 => \A q : Covered(q) => Covered(q)'
      BY <1>2, <1>4, <2>2 DEF Covered, Handed, Seen
    <2> QED  BY <1>1, <1>2, <1>5, <2>1, <2>3 DEF IInv, NothingMissed
  <1>7. CASE cur = k /\ ~banned
    <2>1. ~c.closed /\ cur # 0
      BY <1>1, <1>7, Bounds DEF Current, Conns
    <2>2. wire' = wire \o PageFrames(k)
      BY <1>7, <2>1 DEF ReplayWrite
    <2>3. /\ Handed \subseteq Handed' /\ Page(k) \subseteq Handed'
      BY <1>1, <2>2, ReplayFrames
    <2>4. c.since # NoId /\ c.since \in 1..newest /\ c.upTo \in Nat /\ newest \in Nat
      BY <1>1, Bounds, NewestIsNat DEF TypeOK, ConnRecords, Seqs
    <2>5. \A q \in (c.upTo + 1) .. newest : Covered(q)
      BY <1>1, <1>7, <2>1 DEF IInv, NothingMissed
    <2>6. \A q \in (c.since + 1) .. c.upTo : q \in Page(k) \union BeyondPage(k)
      BY <1>1, <2>4, Frames
    <2>7. ASSUME NEW q \in (c.since + 1) .. newest
          PROVE  Covered(q)' \/ q \in excuse'.beyondPage
      <3>1. CASE q <= c.upTo
        BY <1>2, <1>7, <2>1, <2>3, <2>4, <2>6, <3>1 DEF Covered
      <3>2. CASE q > c.upTo
        BY <1>2, <1>4, <2>1, <2>3, <2>4, <2>5, <3>2 DEF Covered
      <3> QED  BY <2>4, <3>1, <3>2
    <2> QED  BY <1>1, <1>5, <1>7, <2>4, <2>7 DEF NothingMissed
  <1>8. CASE banned
    BY <1>1, <1>5, <1>8 DEF NothingMissed
  <1> QED  BY <1>6, <1>7, <1>8

LEMMA MissedStep ==
  ASSUME IInv, [Next]_vars
  PROVE  NothingMissed' /\ PassedIsKnown'
  <1>1. TypeOK /\ Current /\ newest \in Nat
    BY NewestIsNat DEF IInv
  <1>2. CASE Sending \/ Relaying
    <2>1. /\ UNCHANGED <<banned, conn, cur, lastId, got>>
          /\ excuse'.before = excuse.before /\ excuse'.noId = excuse.noId
          /\ excuse'.beyondPage = excuse.beyondPage
          /\ Excused \subseteq Excused'
          /\ cur # 0 /\ ~banned =>
               \A q \in 1..newest' : Covered(q)' \/ (q \in 1..newest /\ ~Covered(q))
      BY <1>2, WayStep DEF IInv
    <2>2. PassedIsKnown'
      BY <2>1 DEF IInv, PassedIsKnown
    <2>3. ASSUME ~banned, cur # 0
          PROVE  NothingMissed'
      <3>1. conn[cur].upTo \in Nat /\ conn[cur].since \in Seqs \union {NoId}
        BY <1>1, <2>3, Bounds DEF TypeOK, ConnRecords
      <3> QED  BY <1>1, <2>1, <2>3, <3>1 DEF IInv, NothingMissed, Seqs, NoId
    <2> QED  BY <2>1, <2>2, <2>3 DEF NothingMissed
  <1>3. ASSUME NEW k \in Conns, NEW n \in Nodes, Open(k, n)
        PROVE  NothingMissed' /\ PassedIsKnown'
    <2>1. /\ cur' = k /\ UNCHANGED <<newest, banned, lastId, got>>
          /\ conn'[k].since = lastId
          /\ conn'[k].phase = IF lastId = NoId THEN "streaming" ELSE "replaying"
      BY <1>1, <1>3, Opens
    <2>2. /\ lastId = NoId => \A q \in 1..newest :
                               OnItsWayTo(n, q) \/ q \in excuse'.before \union excuse'.noId
          /\ lastId # NoId => excuse' = excuse
      BY <1>1, <1>3 DEF Open, TypeOK, Excuses
    <2>3. \A q : OnItsWayTo(n, q) => OnItsWay(q)'
      <3>1. conn'[k].node = n /\ cur' = k /\ UNCHANGED <<send, relay>>
        BY <1>1, <1>3, Opens DEF Open
      <3> QED  BY <3>1 DEF OnItsWay, OnItsWayTo
    <2>5. NothingMissed'
      BY <2>1, <2>2, <2>3 DEF NothingMissed, Covered
    <2>4. PassedIsKnown'
      BY <2>1, <2>2 DEF IInv, PassedIsKnown, Excused
    <2> QED  BY <2>4, <2>5
  <1>4. ASSUME NEW k \in Conns, ReplayRead(k) \/ Cancel(k) \/ Beat(k) \/ Checked(k)
        PROVE  NothingMissed' /\ PassedIsKnown'
    <2>1. /\ UNCHANGED <<newest, banned, send, relay, cur, wire, lastId, got, excuse>>
          /\ \A j \in Conns \ {k} : conn'[j] = conn[j]
          /\ conn'[k].since = conn[k].since /\ conn'[k].node = conn[k].node
      BY <1>1, <1>4, ConnSteps DEF ReplayRead, Cancel, Beat, Checked
    <2>2. cur # 0 => conn'[cur].since = conn[cur].since /\ conn'[cur].node = conn[cur].node
      BY <1>1, <2>1 DEF TypeOK
    <2>3. \A q : cur # 0 /\ Covered(q) => Covered(q)'
      BY <2>1, <2>2 DEF Covered, Handed, Seen, OnItsWay, OnItsWayTo
    <2>4. cur # 0 /\ ~banned =>
            \/ conn'[cur].phase = conn[cur].phase /\ conn'[cur].upTo = conn[cur].upTo
            \/ conn'[cur].phase = "read" /\ conn'[cur].upTo = newest
      BY <1>1, <1>4, <2>1, ConnPhases DEF TypeOK
    <2>5. NothingMissed'
      BY <1>1, <2>1, <2>2, <2>3, <2>4 DEF IInv, NothingMissed
    <2>6. PassedIsKnown'
      BY <2>1 DEF IInv, PassedIsKnown, Excused
    <2> QED  BY <2>5, <2>6
  <1>5. CASE Browsing
    <2>1. PassedIsKnown'
      BY <1>5, BreakPasses DEF Browsing
    <2>2. cur' = 0
      BY <1>5 DEF Browsing, Break
    <2> QED  BY <2>1, <2>2 DEF NothingMissed
  <1>6. CASE Ban
    BY <1>6 DEF Ban, NothingMissed, PassedIsKnown
  <1>7. CASE UNCHANGED vars
    BY <1>7 DEF vars, IInv, NothingMissed, PassedIsKnown, Covered, Handed, Seen, OnItsWay, OnItsWayTo, Excused
  <1> QED  BY <1>2, <1>3, <1>4, <1>5, <1>6, <1>7, ReplayCovers DEF Next, Streaming

-----------------------------------------------------------------------------
(* The theorems.                                                           *)

LEMMA InitHolds == Init => IInv
  <1> SUFFICES ASSUME Init PROVE IInv
    OBVIOUS
  <1>1. Range(<<>>) = {} /\ Distinct(<<>>)
    BY DEF Range, Distinct
  <1>2. OneCopy
    BY <1>1 DEF Init, OneCopy
  <1> QED  BY <1>2, InitTypes DEF Init, IInv, Current, HandedOnce, LiveOnceReplayedOnce,
                                  NothingMissed, PassedIsKnown

\* The invariant holds whatever the sends, Redis, the server and the browser do.
LEMMA Invariant == Spec => []IInv
  <1>1. IInv /\ [Next]_vars => IInv'
    BY NextKeepsType, CurrentStep, OnceStep, MissedStep DEF IInv
  <1> QED  BY <1>1, InitHolds, PTL DEF Spec

\* Every variable has its type; no frame and no Last-Event-ID names a message
\* that is not in storage.
THEOREM TypeCorrect == Spec => []TypeOK
  <1>1. IInv => TypeOK
    BY DEF IInv
  <1> QED  BY <1>1, Invariant, PTL

\* "Subscribe first, replay second": once the replay is written, what came after
\* the Last-Event-ID was handed over or is on its way, but for what was dropped
\* and what the page could not hold.
THEOREM ReplayIsComplete == Spec => []ReplayLeavesNoGap
  <1>1. IInv => ReplayLeavesNoGap
    BY DEF IInv, NothingMissed, Covered, ReplayLeavesNoGap
  <1> QED  BY <1>1, Invariant, PTL

\* The five reasons for which the browser may miss a message are all there are.
THEOREM LossesExplained == Spec => []LossesAreExplained
  <1>1. IInv => LossesAreExplained
    <2> SUFFICES ASSUME IInv, cur # 0, conn[cur].phase = "streaming", ~banned, NEW q \in 1..newest
                 PROVE  q \in got \union Handed \/ OnItsWay(q) \/ q \in Excused
      BY DEF LossesAreExplained
    <2>1. /\ conn[cur].since = lastId /\ newest \in Nat
          /\ lastId \in 1..newest \union {NoId}
      BY NewestIsNat DEF IInv, Current, TypeOK
    <2>2. CASE lastId # NoId /\ q <= lastId
      BY <2>1, <2>2 DEF IInv, PassedIsKnown
    <2>3. CASE lastId # NoId => q > lastId
      <3>1. Covered(q) \/ q \in excuse.beyondPage \union excuse.before \union excuse.noId
        BY <2>1, <2>3 DEF IInv, NothingMissed, NoId
      <3> QED  BY <3>1 DEF Covered, Excused
    <2> QED  BY <2>1, <2>2, <2>3 DEF NoId
  <1> QED  BY <1>1, Invariant, PTL

\* A connection is handed a message once live and once replayed: a node's own
\* envelope that comes back from Redis is never delivered again.
THEOREM AtMostTwice == Spec => []LiveOnceReplayedOnce
  <1>1. IInv => LiveOnceReplayedOnce
    BY DEF IInv
  <1> QED  BY <1>1, Invariant, PTL
=============================================================================
