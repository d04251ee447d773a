--------------------------- MODULE ReadStateProofs ---------------------------
(***************************************************************************)
(* Proofs about ReadState, for every set of users, conversations and slots *)
(* and every bound.                                                        *)
(***************************************************************************)
EXTENDS ReadState, TLAPS, FiniteSetTheorems, SequenceTheorems

Busy == {s \in Slots : mark[s] # Idle}

\* A call names a message of its conversation.
CallsNameMessages ==
    \A s \in Busy : mark[s].seq \in DOMAIN log[mark[s].conv]

\* Whoever has had no race in a conversation has at most one call for it.
OneCallEach ==
    \A s, t \in Busy :
        mark[s].user = mark[t].user /\ mark[s].conv = mark[t].conv =>
            s = t \/ mark[s].user \in raced[mark[s].conv]

\* The receipts somebody has caused in a conversation.
ReceiptsOf(u, c) == {k \in DOMAIN receipts : receipts[k].user = u /\ receipts[k].conv = c}

\* What a call in flight may rely on, if it does not race.  The marker of its
\* user is what it was when the conversation was loaded, or was reset since by
\* a departure; a call that writes goes beyond it, and one that has written is
\* not yet told of.
CallsAreCurrent ==
    \A s \in Busy :
        LET q == mark[s] IN
        q.user \notin raced[q.conv] =>
        /\ q.pc \in {"check", "write"} => marker[q.conv][q.user] <= q.seen
        /\ q.pc = "write" => q.seen < q.seq
        /\ q.pc = "notify" /\ q.user \notin left[q.conv] =>
            /\ q.seq <= marker[q.conv][q.user]
            /\ \A k \in ReceiptsOf(q.user, q.conv) : receipts[k].seq < q.seq

\* The inductive invariants: of any calls, and of those that do not race.
TypeInv == TypeOK /\ CallsNameMessages

IInv == TypeInv /\ OneCallEach /\ CallsAreCurrent /\ ReceiptsAdvance
-----------------------------------------------------------------------------
\* The log of a conversation, and what a message that is stored makes of it.
LEMMA LogGrows ==
    ASSUME TypeOK, NEW c \in Conversations
    PROVE  /\ Len(log[c]) \in Nat /\ DOMAIN log[c] = 1..Len(log[c])
           /\ \A m \in Message : LET grown == Append(log[c], m) IN
                /\ grown \in Seq(Message) /\ Len(grown) = Len(log[c]) + 1
                /\ DOMAIN log[c] \subseteq DOMAIN grown
  <1>1. log[c] \in Seq(Message)
    BY DEF TypeOK
  <1>2. Len(log[c]) \in Nat /\ DOMAIN log[c] = 1..Len(log[c])
    BY <1>1, LenProperties
  <1>3. ASSUME NEW m \in Message
        PROVE  LET grown == Append(log[c], m) IN
               /\ grown \in Seq(Message) /\ Len(grown) = Len(log[c]) + 1
               /\ DOMAIN log[c] \subseteq DOMAIN grown
    <2>1. Append(log[c], m) \in Seq(Message) /\ Len(Append(log[c], m)) = Len(log[c]) + 1
      BY <1>1, AppendProperties
    <2>2. DOMAIN Append(log[c], m) = 1..(Len(log[c]) + 1)
      BY <2>1, LenProperties
    <2> QED  BY <1>2, <2>1, <2>2
  <1> QED  BY <1>2, <1>3

\* A call in flight is a call, and where it stands tells what it may do next.
LEMMA BusyIsCall ==
    ASSUME TypeOK, NEW s \in Slots
    PROVE  mark[s] # Idle => mark[s] \in Call
  BY DEF TypeOK

LEMMA PcIsCall ==
    ASSUME TypeOK, NEW s \in Slots, mark[s].pc \in {"check", "write", "notify"}
    PROVE  s \in Busy /\ mark[s] \in Call
  BY DEF TypeOK, Busy, Idle

\* A marker that is set, or taken back, for one participant.
LEMMA OneMarker ==
    ASSUME TypeOK, NEW c \in Conversations, NEW u \in Users, NEW n \in Nat,
           marker' = [marker EXCEPT ![c][u] = n]
    PROVE  /\ marker' \in [Conversations -> [Users -> Nat]]
           /\ \A d \in Conversations, v \in Users :
                marker'[d][v] = IF d = c /\ v = u THEN n ELSE marker[d][v]
  <1>1. marker \in [Conversations -> [Users -> Nat]] /\ marker[c] \in [Users -> Nat]
    BY DEF TypeOK
  <1> DEFINE row == [marker[c] EXCEPT ![u] = n]
  <1>2. row \in [Users -> Nat] /\ \A v \in Users : row[v] = IF v = u THEN n ELSE marker[c][v]
    BY <1>1
  <1>3. marker' = [marker EXCEPT ![c] = row]
    OBVIOUS
  <1> HIDE DEF row
  <1> QED  BY <1>1, <1>2, <1>3

\* A call moves on: it is the same call at its next step.
LEMMA MovesOn ==
    ASSUME NEW q \in Call, NEW pc \in {"check", "write", "notify"}
    PROVE  LET r == [q EXCEPT !.pc = pc] IN
           /\ r \in Call /\ r.pc = pc /\ r.user = q.user /\ r.conv = q.conv /\ r.seq = q.seq
           /\ r.seen = q.seen /\ r.snap = q.snap /\ r # Idle
  BY DEF Call, Idle

\* What a step makes of the calls: one slot changes.
LEMMA LoadSteps ==
    ASSUME TypeOK, NEW s \in Slots, MarkLoad(s)
    PROVE  \E c \in Conversations : \E u \in members[c], seq \in DOMAIN log[c] :
             /\ u \in Users
             /\ raced' = IF Marking(u, c) THEN [raced EXCEPT ![c] = raced[c] \cup {u}] ELSE raced
             /\ mark'[s] \in Call /\ mark'[s].pc = "check" /\ mark'[s].user = u
             /\ mark'[s].conv = c /\ mark'[s].seq = seq /\ mark'[s].seen = marker[c][u]
             /\ mark' \in [Slots -> {Idle} \cup Call]
             /\ \A t \in Slots \ {s} : mark'[t] = mark[t]
  <1>1. PICK c \in Conversations : \E u \in members[c], seq \in DOMAIN log[c] :
          /\ raced' = IF Marking(u, c) THEN [raced EXCEPT ![c] = raced[c] \cup {u}] ELSE raced
          /\ mark' = [mark EXCEPT ![s] = [pc |-> "check", user |-> u, conv |-> c, seq |-> seq,
                                          seen |-> marker[c][u], snap |-> members[c]]]
    BY DEF MarkLoad
  <1>2. PICK u \in members[c], seq \in DOMAIN log[c] :
          /\ raced' = IF Marking(u, c) THEN [raced EXCEPT ![c] = raced[c] \cup {u}] ELSE raced
          /\ mark' = [mark EXCEPT ![s] = [pc |-> "check", user |-> u, conv |-> c, seq |-> seq,
                                          seen |-> marker[c][u], snap |-> members[c]]]
    BY <1>1
  <1> DEFINE q == [pc |-> "check", user |-> u, conv |-> c, seq |-> seq,
                   seen |-> marker[c][u], snap |-> members[c]]
  <1>3. u \in Users /\ members[c] \in SUBSET Users /\ marker[c][u] \in Nat /\ seq \in Nat
    BY LogGrows DEF TypeOK
  <1>4. q \in Call
    BY <1>3 DEF Call
  <1> QED  BY <1>2, <1>3, <1>4 DEF TypeOK

\* What a call that begins makes of the races: it only adds its own user, and
\* does so if that user has another call for the conversation.
LEMMA RacesAreNoted ==
    ASSUME TypeOK, NEW c \in Conversations, NEW u \in Users,
           raced' = IF Marking(u, c) THEN [raced EXCEPT ![c] = raced[c] \cup {u}] ELSE raced
    PROVE  /\ raced' \in [Conversations -> SUBSET Users]
           /\ \A d \in Conversations : raced[d] \subseteq raced'[d]
           /\ u \notin raced'[c] =>
                \A t \in Busy : ~(mark[t].user = u /\ mark[t].conv = c)
  <1>1. raced \in [Conversations -> SUBSET Users] /\ {u} \subseteq Users
    BY DEF TypeOK
  <1>2. CASE Marking(u, c)
    <2>1. raced' = [raced EXCEPT ![c] = raced[c] \cup {u}]
      BY <1>2
    <2>2. u \in raced'[c]
      BY <1>1, <2>1
    <2>3. raced' \in [Conversations -> SUBSET Users]
      BY <1>1, <2>1
    <2>4. \A d \in Conversations : raced[d] \subseteq raced'[d]
      BY <1>1, <2>1
    <2> QED  BY <2>2, <2>3, <2>4
  <1>3. CASE ~Marking(u, c)
    <2>1. \A t \in Busy : ~(mark[t].user = u /\ mark[t].conv = c)
      BY <1>3 DEF Marking, Busy
    <2> QED  BY <1>1, <1>3, <2>1
  <1> QED  BY <1>2, <1>3

\* Every step keeps the types, whichever calls overlap.
LEMMA TypeInvStep ==
    ASSUME TypeInv, [Next]_vars
    PROVE  TypeInv'
  <1>1. TypeOK /\ CallsNameMessages
    BY DEF TypeInv
  <1>2. ASSUME NEW s \in Slots, MarkLoad(s)
        PROVE  TypeInv'
    <2>1. mark' \in [Slots -> {Idle} \cup Call] /\ raced' \in [Conversations -> SUBSET Users]
      BY <1>1, <1>2, LoadSteps, RacesAreNoted DEF TypeOK
    <2>3. marks' \in Nat
      BY <1>1, <1>2 DEF MarkLoad, TypeOK
    <2>2. CallsNameMessages'
      BY <1>1, <1>2, LoadSteps DEF MarkLoad, CallsNameMessages, Busy
    <2> QED  BY <1>1, <1>2, <2>1, <2>2, <2>3 DEF TypeInv, TypeOK, MarkLoad
  <1>3. ASSUME NEW s \in Slots, MarkCheck(s)
        PROVE  TypeInv'
    <2>1. s \in Busy /\ mark[s] \in Call
      BY <1>1, <1>3, PcIsCall DEF MarkCheck
    <2>2. /\ mark' = [mark EXCEPT ![s] = [mark[s] EXCEPT !.pc = "write"]]
             \/ mark' = [mark EXCEPT ![s] = Idle]
      BY <1>1, <1>3 DEF MarkCheck, TypeOK
    <2>3. mark' \in [Slots -> {Idle} \cup Call] /\ CallsNameMessages'
      BY <1>1, <1>3, <2>1, <2>2, MovesOn DEF MarkCheck, TypeOK, CallsNameMessages, Busy
    <2> QED  BY <1>1, <1>3, <2>3 DEF TypeInv, TypeOK, MarkCheck
  <1>4. ASSUME NEW s \in Slots, MarkWrite(s)
        PROVE  TypeInv'
    <2> DEFINE q == mark[s]
    <2>1. s \in Busy /\ q \in Call /\ q.seq \in DOMAIN log[q.conv]
      BY <1>1, <1>4, PcIsCall DEF MarkWrite, CallsNameMessages
    <2>2. /\ q.conv \in Conversations /\ q.user \in Users /\ q.seq \in Nat
          /\ q.seq <= Len(log[q.conv])
      BY <1>1, <2>1, LogGrows DEF Call
    <2>3. /\ mark' = [mark EXCEPT ![s] = [mark[s] EXCEPT !.pc = "notify"]]
             \/ mark' = [mark EXCEPT ![s] = Idle]
      BY <1>1, <1>4 DEF MarkWrite, TypeOK
    <2>8. UNCHANGED log
      BY <1>4 DEF MarkWrite
    <2> DEFINE r == [mark[s] EXCEPT !.pc = "notify"]
    <2>9. r \in Call /\ r.conv = q.conv /\ r.seq = q.seq
      BY <2>1, MovesOn
    <2>10. mark' = [mark EXCEPT ![s] = r] \/ mark' = [mark EXCEPT ![s] = Idle]
      BY <2>3
    <2> HIDE DEF r, q
    <2>11. mark \in [Slots -> {Idle} \cup Call]
      BY <1>1 DEF TypeOK
    <2>12. /\ mark' \in [Slots -> {Idle} \cup Call]
           /\ mark'[s] = r \/ mark'[s] = Idle
           /\ \A t \in Slots \ {s} : mark'[t] = mark[t]
      BY <2>9, <2>10, <2>11
    <2>4. mark' \in [Slots -> {Idle} \cup Call] /\ CallsNameMessages'
      BY <1>1, <2>1, <2>8, <2>9, <2>12 DEF CallsNameMessages, Busy
    <2>5. \/ marker' = marker
          \/ q.user \in members[q.conv] /\ marker' = [marker EXCEPT ![q.conv][q.user] = q.seq]
      BY <1>4 DEF MarkWrite, q
    <2>6. marker' \in [Conversations -> [Users -> Nat]]
      BY <1>1, <2>2, <2>5, OneMarker DEF TypeOK
    <2>7. ASSUME NEW c \in Conversations, NEW u \in Users
          PROVE  marker'[c][u] <= Len(log[c]) /\ (u \notin members[c] => marker'[c][u] = 0)
      <3>1. marker[c][u] <= Len(log[c]) /\ (u \notin members[c] => marker[c][u] = 0)
        BY <1>1 DEF TypeOK
      <3> QED  BY <1>1, <2>2, <2>5, <3>1, OneMarker
    <2> QED  BY <1>1, <1>4, <2>4, <2>6, <2>7 DEF TypeInv, TypeOK, MarkWrite
  <1>5. ASSUME NEW s \in Slots, MarkNotify(s)
        PROVE  TypeInv'
    <2> DEFINE q == mark[s]
               e == [user |-> q.user, conv |-> q.conv, seq |-> q.seq, to |-> q.snap \ {q.user}]
    <2>1. e \in Receipt
      BY <1>1, <1>5, PcIsCall DEF MarkNotify, Call, Receipt
    <2>2. receipts' = receipts \/ receipts' = Append(receipts, e)
      BY <1>5 DEF MarkNotify
    <2> HIDE DEF e, q
    <2>3. receipts' \in Seq(Receipt)
      <3>1. receipts \in Seq(Receipt)
        BY <1>1 DEF TypeOK
      <3> QED  BY <2>1, <2>2, <3>1, AppendProperties
    <2>4. mark' \in [Slots -> {Idle} \cup Call] /\ CallsNameMessages'
      BY <1>1, <1>5 DEF MarkNotify, TypeOK, CallsNameMessages, Busy
    <2> QED  BY <1>1, <1>5, <2>3, <2>4 DEF TypeInv, TypeOK, MarkNotify
  <1>6. ASSUME NEW c \in Conversations, NEW u \in Users, NEW main \in BOOLEAN, Post(c, u, main)
        PROVE  TypeInv'
    <2> DEFINE m == [sender |-> u, main |-> main]
    <2>1. m \in Message
      BY DEF Message
    <2>2. log' = [log EXCEPT ![c] = Append(log[c], m)]
      BY <1>6 DEF Post
    <2> HIDE DEF m
    <2>3. /\ log' \in [Conversations -> Seq(Message)]
          /\ \A d \in Conversations : /\ Len(log[d]) \in Nat /\ Len(log'[d]) \in Nat
                                      /\ Len(log[d]) <= Len(log'[d])
                                      /\ DOMAIN log[d] \subseteq DOMAIN log'[d]
      BY <1>1, <2>1, <2>2, LogGrows DEF TypeOK
    <2>4. \A s \in Busy : mark[s].conv \in Conversations
      BY <1>1 DEF TypeOK, Busy, Call
    <2>5. CallsNameMessages'
      BY <1>1, <1>6, <2>3, <2>4 DEF Post, CallsNameMessages, Busy
    <2>6. \A d \in Conversations, v \in Users :
            /\ marker'[d][v] <= Len(log'[d])
            /\ v \notin members'[d] => marker'[d][v] = 0
      BY <1>1, <1>6, <2>3 DEF Post, TypeOK
    <2> QED  BY <1>1, <1>6, <2>3, <2>5, <2>6 DEF TypeInv, TypeOK, Post
  <1>7. ASSUME NEW c \in Conversations, NEW u \in Users, Join(c, u) \/ Leave(c, u)
        PROVE  TypeInv'
    <2>1. /\ marker' = [marker EXCEPT ![c][u] = 0] /\ UNCHANGED <<log, mark, receipts, raced, marks>>
          /\ churn' = churn + 1
          /\ left' = left \/ left' = [left EXCEPT ![c] = left[c] \cup {u}]
          /\ \/ members' = [members EXCEPT ![c] = members[c] \cup {u}]
             \/ members' = [members EXCEPT ![c] = members[c] \ {u}]
      BY <1>7 DEF Join, Leave
    <2>2. /\ members' \in [Conversations -> SUBSET Users]
          /\ left' \in [Conversations -> SUBSET Users]
      <3>1. /\ members \in [Conversations -> SUBSET Users]
            /\ left \in [Conversations -> SUBSET Users]
            /\ {u} \subseteq Users
        BY <1>1 DEF TypeOK
      <3>2. members' \in [Conversations -> SUBSET Users]
        BY <2>1, <3>1
      <3>3. left' \in [Conversations -> SUBSET Users]
        BY <2>1, <3>1
      <3> QED  BY <3>2, <3>3
    <2>4. /\ marker' \in [Conversations -> [Users -> Nat]]
          /\ \A d \in Conversations, v \in Users :
                marker'[d][v] = IF d = c /\ v = u THEN 0 ELSE marker[d][v]
      BY <1>1, <2>1, OneMarker
    <2>5. ASSUME NEW d \in Conversations, NEW v \in Users
          PROVE  marker'[d][v] <= Len(log[d]) /\ (v \notin members'[d] => marker'[d][v] = 0)
      <3>1. marker[d][v] <= Len(log[d]) /\ (v \notin members[d] => marker[d][v] = 0)
        BY <1>1 DEF TypeOK
      <3>2. ~(d = c /\ v = u) => (v \in members'[d] <=> v \in members[d])
        BY <1>1, <2>1 DEF TypeOK
      <3> QED  BY <1>1, <2>4, <3>1, <3>2, LogGrows
    <2>6. churn' \in Nat
      BY <1>1, <2>1 DEF TypeOK
    <2>3. CallsNameMessages'
      BY <1>1, <2>1 DEF CallsNameMessages, Busy
    <2> QED  BY <1>1, <2>1, <2>2, <2>3, <2>4, <2>5, <2>6 DEF TypeInv, TypeOK
  <1>8. CASE UNCHANGED vars
    BY <1>1, <1>8 DEF vars, TypeInv, TypeOK, CallsNameMessages, Busy
  <1> QED  BY <1>2, <1>3, <1>4, <1>5, <1>6, <1>7, <1>8 DEF Next, Mark

LEMMA InitHolds == Init => IInv
  <1> SUFFICES ASSUME Init  PROVE IInv
    OBVIOUS
  <1>1. \A c \in Conversations : log[c] = <<>> /\ \A u \in Users : marker[c][u] = 0
    BY DEF Init
  <1>2. TypeOK
    <2>1. /\ members \in [Conversations -> SUBSET Users] /\ left \in [Conversations -> SUBSET Users]
          /\ raced \in [Conversations -> SUBSET Users]
          /\ mark \in [Slots -> {Idle} \cup Call] /\ marks \in Nat /\ churn \in Nat
      BY ReadStateAssumption DEF Init
    <2>2. <<>> \in Seq(Message) /\ <<>> \in Seq(Receipt) /\ Len(<<>>) = 0
      BY EmptySeq
    <2>3. /\ log \in [Conversations -> Seq(Message)] /\ receipts \in Seq(Receipt)
          /\ marker \in [Conversations -> [Users -> Nat]]
      BY <2>2 DEF Init
    <2> QED  BY <1>1, <2>1, <2>2, <2>3 DEF TypeOK
  <1>3. Busy = {}
    BY DEF Init, Busy
  <1>4. ReceiptsAdvance
    <2>1. receipts = <<>> /\ DOMAIN receipts = {}
      BY DEF Init
    <2> QED  BY <2>1 DEF ReceiptsAdvance
  <1> QED  BY <1>2, <1>3, <1>4 DEF IInv, TypeInv, CallsNameMessages, OneCallEach, CallsAreCurrent

\* What a call that does not race relies on still holds when it comes to use it.
LEMMA IInvStep ==
    ASSUME IInv, [Next]_vars
    PROVE  IInv'
  <1>1. /\ TypeOK /\ CallsNameMessages /\ OneCallEach /\ CallsAreCurrent /\ ReceiptsAdvance
        /\ TypeInv' /\ TypeOK'
    BY TypeInvStep DEF IInv, TypeInv
  <1>2. ASSUME NEW s \in Slots, MarkLoad(s)
        PROVE  OneCallEach' /\ CallsAreCurrent' /\ ReceiptsAdvance'
    <2>1. UNCHANGED <<members, left, log, marker, receipts>>
      BY <1>2 DEF MarkLoad
    <2>2. PICK c \in Conversations : \E u \in members[c], seq \in DOMAIN log[c] :
             /\ u \in Users
             /\ raced' = IF Marking(u, c) THEN [raced EXCEPT ![c] = raced[c] \cup {u}] ELSE raced
             /\ mark'[s] \in Call /\ mark'[s].pc = "check" /\ mark'[s].user = u
             /\ mark'[s].conv = c /\ mark'[s].seq = seq /\ mark'[s].seen = marker[c][u]
             /\ mark' \in [Slots -> {Idle} \cup Call]
             /\ \A t \in Slots \ {s} : mark'[t] = mark[t]
      BY <1>1, <1>2, LoadSteps
    <2>3. PICK u \in members[c] :
             /\ u \in Users
             /\ raced' = IF Marking(u, c) THEN [raced EXCEPT ![c] = raced[c] \cup {u}] ELSE raced
             /\ mark'[s].pc = "check" /\ mark'[s].user = u
             /\ mark'[s].conv = c /\ mark'[s].seen = marker[c][u]
             /\ \A t \in Slots \ {s} : mark'[t] = mark[t]
      BY <2>2
    <2>4. /\ \A d \in Conversations : raced[d] \subseteq raced'[d]
          /\ u \notin raced'[c] =>
                \A t \in Busy : ~(mark[t].user = u /\ mark[t].conv = c)
      BY <1>1, <2>3, RacesAreNoted
    <2>9. \A t \in Busy : mark[t].conv \in Conversations
      BY <1>1, BusyIsCall DEF Busy, Call
    <2>5. OneCallEach'
      <3>1. ASSUME NEW p \in Slots, NEW r \in Slots, mark'[p] # Idle, mark'[r] # Idle,
                   mark'[p].user = mark'[r].user, mark'[p].conv = mark'[r].conv,
                   mark'[p].user \notin raced'[mark'[p].conv]
            PROVE  p = r
        <4>1. CASE p # s /\ r # s
          <5>1. p \in Busy /\ r \in Busy /\ mark'[p] = mark[p] /\ mark'[r] = mark[r]
            BY <2>3, <3>1, <4>1 DEF Busy
          <5>2. mark[p].user \notin raced[mark[p].conv]
            BY <2>4, <2>9, <3>1, <5>1
          <5> QED  BY <1>1, <3>1, <5>1, <5>2 DEF OneCallEach
        <4>2. CASE p = s /\ r # s
          <5>1. r \in Busy /\ mark'[r] = mark[r]
            BY <2>3, <3>1, <4>2 DEF Busy
          <5> QED  BY <2>3, <2>4, <3>1, <4>2, <5>1
        <4>3. CASE p # s /\ r = s
          <5>1. p \in Busy /\ mark'[p] = mark[p]
            BY <2>3, <3>1, <4>3 DEF Busy
          <5> QED  BY <2>3, <2>4, <3>1, <4>3, <5>1
        <4> QED  BY <4>1, <4>2, <4>3
      <3> QED  BY <3>1 DEF OneCallEach, Busy
    <2>6. marker[c][u] \in Nat
      BY <1>1, <2>3 DEF TypeOK
    <2>7. CallsAreCurrent'
      BY <1>1, <2>1, <2>3, <2>4, <2>6, <2>9 DEF CallsAreCurrent, Busy, ReceiptsOf
    <2>10. \A k \in DOMAIN receipts : receipts[k].conv \in Conversations
      <3>1. \A k \in DOMAIN receipts : receipts[k] \in Receipt
        BY <1>1, ElementOfSeq, LenProperties DEF TypeOK
      <3> QED  BY <3>1 DEF Receipt
    <2>8. ReceiptsAdvance'
      BY <1>1, <2>1, <2>4, <2>10 DEF ReceiptsAdvance
    <2> QED  BY <2>5, <2>7, <2>8
  <1>3. ASSUME NEW s \in Slots, MarkCheck(s)
        PROVE  OneCallEach' /\ CallsAreCurrent' /\ ReceiptsAdvance'
    <2> DEFINE r == [mark[s] EXCEPT !.pc = "write"]
    <2>1. s \in Busy /\ mark[s] \in Call /\ UNCHANGED <<members, left, log, marker, receipts, raced>>
      BY <1>1, <1>3, PcIsCall DEF MarkCheck
    <2>2. /\ r.pc = "write" /\ r.user = mark[s].user /\ r.conv = mark[s].conv
          /\ r.seq = mark[s].seq /\ r.seen = mark[s].seen
      BY <2>1, MovesOn
    <2>3. \/ mark' = [mark EXCEPT ![s] = r] /\ mark[s].seen < mark[s].seq
          \/ mark' = [mark EXCEPT ![s] = Idle]
      BY <1>3, <2>1 DEF MarkCheck, Advances, Call
    <2> HIDE DEF r
    <2>4. /\ (mark'[s] = r /\ mark[s].seen < mark[s].seq) \/ mark'[s] = Idle
          /\ \A t \in Slots \ {s} : mark'[t] = mark[t]
      BY <1>1, <2>3 DEF TypeOK
    <2>5. mark[s].pc = "check"
      BY <1>3 DEF MarkCheck
    <2>6. OneCallEach'
      BY <1>1, <2>1, <2>2, <2>4 DEF OneCallEach, Busy
    <2>7. CallsAreCurrent'
      BY <1>1, <2>1, <2>2, <2>4, <2>5 DEF CallsAreCurrent, Busy, ReceiptsOf
    <2>8. ReceiptsAdvance'
      BY <1>1, <2>1 DEF ReceiptsAdvance
    <2> QED  BY <2>6, <2>7, <2>8
  <1>4. ASSUME NEW s \in Slots, MarkWrite(s)
        PROVE  OneCallEach' /\ CallsAreCurrent' /\ ReceiptsAdvance'
    <2> DEFINE q == mark[s]
               r == [mark[s] EXCEPT !.pc = "notify"]
    <2>1. /\ s \in Busy /\ q \in Call /\ q.pc = "write"
          /\ UNCHANGED <<members, left, log, receipts, raced>>
      BY <1>1, <1>4, PcIsCall DEF MarkWrite
    <2>2. r.pc = "notify" /\ r.user = q.user /\ r.conv = q.conv /\ r.seq = q.seq
      BY <2>1, MovesOn
    <2>3. /\ q.conv \in Conversations /\ q.user \in Users /\ q.seq \in Nat /\ q.seen \in Nat
          /\ marker[q.conv][q.user] \in Nat
          /\ q.user \notin raced[q.conv] => marker[q.conv][q.user] <= q.seen /\ q.seen < q.seq
      <3>1. /\ q.conv \in Conversations /\ q.user \in Users /\ q.seq \in Nat /\ q.seen \in Nat
        BY <2>1 DEF Call
      <3>2. marker[q.conv][q.user] \in Nat
        BY <1>1, <3>1 DEF TypeOK
      <3>3. q.user \notin raced[q.conv] => marker[q.conv][q.user] <= q.seen /\ q.seen < q.seq
        BY <1>1, <2>1 DEF CallsAreCurrent
      <3> QED  BY <3>1, <3>2, <3>3
    <2>4. \/ mark' = [mark EXCEPT ![s] = Idle] /\ marker' = marker
          \/ mark' = [mark EXCEPT ![s] = r] /\ marker' = [marker EXCEPT ![q.conv][q.user] = q.seq]
      BY <1>4 DEF MarkWrite
    <2> HIDE DEF q, r
    <2>5. /\ mark'[s] = Idle \/ mark'[s] = r
          /\ \A t \in Slots \ {s} : mark'[t] = mark[t]
      BY <1>1, <2>4 DEF TypeOK
    <2>6. /\ \A d \in Conversations, v \in Users :
                ~(d = q.conv /\ v = q.user) => marker'[d][v] = marker[d][v]
          /\ mark'[s] = r => marker'[q.conv][q.user] = q.seq
          /\ q.user \notin raced[q.conv] => marker'[q.conv][q.user] >= marker[q.conv][q.user]
      <3>1. CASE mark' = [mark EXCEPT ![s] = Idle] /\ marker' = marker
        <4>1. r # Idle
          BY <2>2 DEF Idle
        <4>2. mark'[s] = Idle
          BY <1>1, <3>1 DEF TypeOK
        <4> QED  BY <2>3, <3>1, <4>1, <4>2
      <3>2. CASE marker' = [marker EXCEPT ![q.conv][q.user] = q.seq]
        <4>1. \A d \in Conversations, v \in Users :
                marker'[d][v] = IF d = q.conv /\ v = q.user THEN q.seq ELSE marker[d][v]
          BY <1>1, <2>3, <3>2, OneMarker
        <4> QED  BY <2>3, <4>1
      <3> QED  BY <2>4, <3>1, <3>2
    <2>7. \A t \in Busy : /\ mark[t].user \in Users /\ mark[t].conv \in Conversations
                          /\ t # s /\ q.user \notin raced[q.conv] =>
                                ~(mark[t].user = q.user /\ mark[t].conv = q.conv)
      BY <1>1, <2>1, BusyIsCall DEF OneCallEach, Busy, Call, q
    <2>8. OneCallEach'
      BY <1>1, <2>1, <2>2, <2>5 DEF OneCallEach, Busy, q
    <2>9. ASSUME q.user \notin left[q.conv] \cup raced[q.conv], NEW k \in ReceiptsOf(q.user, q.conv)
          PROVE  receipts[k].seq < q.seq
      <3>1. k \in DOMAIN receipts /\ receipts[k].user = q.user /\ receipts[k].conv = q.conv
        BY <2>9 DEF ReceiptsOf
      <3>2. receipts[k] \in Receipt
        BY <1>1, <3>1, ElementOfSeq, LenProperties DEF TypeOK
      <3>3. receipts[k].seq <= marker[q.conv][q.user] /\ receipts[k].seq \in Nat
        <4>1. receipts[k].seq <= marker[receipts[k].conv][receipts[k].user]
          BY <1>1, <2>9, <3>1 DEF ReceiptsAdvance
        <4> QED  BY <3>1, <3>2, <4>1 DEF Receipt
      <3> QED  BY <2>3, <2>9, <3>3
    <2>10. CallsAreCurrent'
      <3> SUFFICES ASSUME NEW t \in Slots, mark'[t] # Idle
                   PROVE  LET p == mark'[t] IN
                     p.user \notin raced[p.conv] =>
                     /\ p.pc \in {"check", "write"} => marker'[p.conv][p.user] <= p.seen
                     /\ p.pc = "write" => p.seen < p.seq
                     /\ p.pc = "notify" /\ p.user \notin left[p.conv] =>
                         /\ p.seq <= marker'[p.conv][p.user]
                         /\ \A k \in ReceiptsOf(p.user, p.conv) : receipts[k].seq < p.seq
        BY <2>1 DEF CallsAreCurrent, Busy, ReceiptsOf
      <3>1. CASE t = s
        BY <2>2, <2>3, <2>5, <2>6, <2>9, <3>1
      <3>2. CASE t # s
        <4>1. t \in Busy /\ mark'[t] = mark[t]
          BY <2>5, <3>2 DEF Busy
        <4>2. mark[t].user \notin raced[mark[t].conv] =>
                marker'[mark[t].conv][mark[t].user] = marker[mark[t].conv][mark[t].user]
          BY <2>6, <2>7, <3>2, <4>1
        <4> QED  BY <1>1, <4>1, <4>2 DEF CallsAreCurrent
      <3> QED  BY <3>1, <3>2
    <2>11. ReceiptsAdvance'
      <3> SUFFICES ASSUME NEW k \in DOMAIN receipts,
                          receipts[k].user \notin left[receipts[k].conv]
                                                  \cup raced[receipts[k].conv]
                   PROVE  /\ receipts[k].seq <= marker'[receipts[k].conv][receipts[k].user]
                          /\ \A j \in 1..k - 1 :
                               receipts[j].user = receipts[k].user
                               /\ receipts[j].conv = receipts[k].conv
                                   => receipts[j].seq < receipts[k].seq
        BY <2>1 DEF ReceiptsAdvance
      <3>1. receipts[k] \in Receipt
        BY <1>1, ElementOfSeq, LenProperties DEF TypeOK
      <3> DEFINE d == receipts[k].conv
                 v == receipts[k].user
      <3>2. d \in Conversations /\ v \in Users /\ receipts[k].seq \in Nat
        BY <3>1 DEF Receipt
      <3>3. marker[d][v] \in Nat /\ marker'[d][v] \in Nat
        BY <1>1, <3>2 DEF TypeOK
      <3>4. marker[d][v] <= marker'[d][v]
        BY <2>6, <3>2, <3>3
      <3>5. receipts[k].seq <= marker[d][v]
        BY <1>1 DEF ReceiptsAdvance
      <3>6. receipts[k].seq <= marker'[d][v]
        BY <3>2, <3>3, <3>4, <3>5
      <3> QED  BY <1>1, <3>6 DEF ReceiptsAdvance
    <2> QED  BY <2>8, <2>10, <2>11
  <1>5. ASSUME NEW s \in Slots, MarkNotify(s)
        PROVE  OneCallEach' /\ CallsAreCurrent' /\ ReceiptsAdvance'
    <2> DEFINE q == mark[s]
               e == [user |-> q.user, conv |-> q.conv, seq |-> q.seq, to |-> q.snap \ {q.user}]
    <2>1. s \in Busy /\ q \in Call /\ q.pc = "notify"
          /\ UNCHANGED <<members, left, log, marker, raced>>
      BY <1>1, <1>5, PcIsCall DEF MarkNotify
    <2>2. e \in Receipt /\ e.user = q.user /\ e.conv = q.conv /\ e.seq = q.seq
      BY <2>1 DEF Call, Receipt
    <2>3. receipts' = receipts \/ receipts' = Append(receipts, e)
      BY <1>5 DEF MarkNotify
    <2>4. /\ mark'[s] = Idle
          /\ \A t \in Slots \ {s} : mark'[t] = mark[t]
      BY <1>1, <1>5 DEF MarkNotify, TypeOK
    <2>5. q.user \notin left[q.conv] \cup raced[q.conv] =>
            /\ q.seq <= marker[q.conv][q.user]
            /\ \A k \in ReceiptsOf(q.user, q.conv) : receipts[k].seq < q.seq
      BY <1>1, <2>1 DEF CallsAreCurrent
    <2>6. q.user \notin raced[q.conv] => \A t \in Busy :
            t # s => ~(mark[t].user = q.user /\ mark[t].conv = q.conv)
      BY <1>1, <2>1 DEF OneCallEach
    <2> HIDE DEF q, e
    <2>7. OneCallEach'
      BY <1>1, <2>1, <2>4 DEF OneCallEach, Busy
    <2> DEFINE n == Len(receipts)
    <2>8. /\ n \in Nat /\ DOMAIN receipts = 1..n
          /\ \A k \in 1..n : receipts'[k] = receipts[k]
          /\ \/ DOMAIN receipts' = 1..n
             \/ DOMAIN receipts' = 1..(n + 1) /\ receipts'[n + 1] = e
      <3>1. receipts \in Seq(Receipt)
        BY <1>1 DEF TypeOK
      <3>2. n \in Nat /\ DOMAIN receipts = 1..n
        BY <3>1, LenProperties
      <3>3. CASE receipts' = Append(receipts, e)
        <4>1. /\ Append(receipts, e) \in Seq(Receipt) /\ Len(Append(receipts, e)) = n + 1
              /\ \A k \in 1..n : Append(receipts, e)[k] = receipts[k]
              /\ Append(receipts, e)[n + 1] = e
          BY <2>2, <3>1, AppendProperties
        <4>2. DOMAIN Append(receipts, e) = 1..(n + 1)
          BY <4>1, LenProperties
        <4> QED  BY <3>2, <3>3, <4>1, <4>2
      <3> QED  BY <2>3, <3>2, <3>3
    <2> HIDE DEF n
    <2>9. CallsAreCurrent'
      <3> SUFFICES ASSUME NEW t \in Slots, mark'[t] # Idle
                   PROVE  LET p == mark'[t] IN
                     p.user \notin raced[p.conv] =>
                     /\ p.pc \in {"check", "write"} => marker[p.conv][p.user] <= p.seen
                     /\ p.pc = "write" => p.seen < p.seq
                     /\ p.pc = "notify" /\ p.user \notin left[p.conv] =>
                         /\ p.seq <= marker[p.conv][p.user]
                         /\ \A k \in DOMAIN receipts' :
                              receipts'[k].user = p.user /\ receipts'[k].conv = p.conv
                                => receipts'[k].seq < p.seq
        BY <2>1 DEF CallsAreCurrent, Busy, ReceiptsOf
      <3>1. t # s /\ t \in Busy /\ mark'[t] = mark[t]
        BY <2>4 DEF Busy
      <3>2. mark[t].user \notin raced[mark[t].conv] =>
              ~(mark[t].user = e.user /\ mark[t].conv = e.conv)
        BY <2>2, <2>6, <3>1
      <3>3. mark[t].user \notin raced[mark[t].conv] => \A k \in DOMAIN receipts' :
              receipts'[k].user = mark[t].user /\ receipts'[k].conv = mark[t].conv =>
                k \in DOMAIN receipts /\ receipts'[k] = receipts[k]
        BY <2>8, <3>2
      <3> QED  BY <1>1, <2>1, <3>1, <3>3 DEF CallsAreCurrent, ReceiptsOf
    <2>10. ReceiptsAdvance'
      <3> SUFFICES ASSUME NEW k \in DOMAIN receipts',
                          receipts'[k].user \notin left[receipts'[k].conv]
                                                   \cup raced[receipts'[k].conv]
                   PROVE  /\ receipts'[k].seq <= marker[receipts'[k].conv][receipts'[k].user]
                          /\ \A j \in 1..k - 1 :
                               receipts'[j].user = receipts'[k].user
                               /\ receipts'[j].conv = receipts'[k].conv
                                   => receipts'[j].seq < receipts'[k].seq
        BY <2>1 DEF ReceiptsAdvance
      <3>1. CASE k \in 1..n
        <4>1. \A j \in 1..k - 1 : j \in 1..n
          BY <2>8, <3>1
        <4> QED  BY <1>1, <2>8, <3>1, <4>1 DEF ReceiptsAdvance
      <3>2. CASE k = n + 1 /\ receipts'[k] = e
        <4>1. \A j \in 1..k - 1 : j \in DOMAIN receipts /\ receipts'[j] = receipts[j]
          BY <2>8, <3>2
        <4> QED  BY <2>2, <2>5, <3>2, <4>1 DEF ReceiptsOf
      <3> QED  BY <2>8, <3>1, <3>2
    <2> QED  BY <2>7, <2>9, <2>10
  <1>6. ASSUME NEW c \in Conversations, NEW u \in Users, NEW main \in BOOLEAN, Post(c, u, main)
        PROVE  OneCallEach' /\ CallsAreCurrent' /\ ReceiptsAdvance'
    <2>1. UNCHANGED <<members, left, marker, mark, receipts, raced>>
      BY <1>6 DEF Post
    <2>2. OneCallEach' /\ CallsAreCurrent'
      BY <1>1, <2>1 DEF OneCallEach, CallsAreCurrent, Busy, ReceiptsOf
    <2>3. ReceiptsAdvance'
      BY <1>1, <2>1 DEF ReceiptsAdvance
    <2> QED  BY <2>2, <2>3
  <1>7. ASSUME NEW c \in Conversations, NEW u \in Users, Join(c, u) \/ Leave(c, u)
        PROVE  OneCallEach' /\ CallsAreCurrent' /\ ReceiptsAdvance'
    <2>1. /\ marker' = [marker EXCEPT ![c][u] = 0] /\ UNCHANGED <<log, mark, receipts, raced>>
          /\ \/ u \notin members[c] /\ left' = left
             \/ left' = [left EXCEPT ![c] = left[c] \cup {u}]
      BY <1>7 DEF Join, Leave
    <2>2. \A d \in Conversations, v \in Users :
            marker'[d][v] = IF d = c /\ v = u THEN 0 ELSE marker[d][v]
      BY <1>1, <2>1, OneMarker
    <2>3. \A d \in Conversations, v \in Users :
            /\ marker[d][v] \in Nat /\ marker'[d][v] \in Nat
            /\ marker'[d][v] <= marker[d][v]
            /\ v \notin left'[d] => v \notin left[d] /\ marker'[d][v] = marker[d][v]
      <3> SUFFICES ASSUME NEW d \in Conversations, NEW v \in Users
                   PROVE  /\ marker[d][v] \in Nat /\ marker'[d][v] \in Nat
                          /\ marker'[d][v] <= marker[d][v]
                          /\ v \notin left'[d] => /\ v \notin left[d]
                                                  /\ marker'[d][v] = marker[d][v]
        OBVIOUS
      <3>1. marker[d][v] \in Nat /\ (v \notin members[d] => marker[d][v] = 0)
        BY <1>1 DEF TypeOK
      <3>2. v \notin left'[d] => v \notin left[d] /\ (d = c /\ v = u => u \notin members[c])
        BY <1>1, <2>1 DEF TypeOK
      <3> QED  BY <2>2, <3>1, <3>2
    <2>4. \A t \in Busy : mark[t] \in Call
      BY <1>1, BusyIsCall DEF Busy
    <2>5. OneCallEach' /\ Busy' = Busy
      BY <1>1, <2>1 DEF OneCallEach, Busy
    <2>6. CallsAreCurrent'
      <3> SUFFICES ASSUME NEW t \in Busy
                   PROVE  LET p == mark[t] IN
                     p.user \notin raced[p.conv] =>
                     /\ p.pc \in {"check", "write"} => marker'[p.conv][p.user] <= p.seen
                     /\ p.pc = "write" => p.seen < p.seq
                     /\ p.pc = "notify" /\ p.user \notin left'[p.conv] =>
                         /\ p.seq <= marker'[p.conv][p.user]
                         /\ \A k \in ReceiptsOf(p.user, p.conv) : receipts[k].seq < p.seq
        BY <2>1, <2>5 DEF CallsAreCurrent, ReceiptsOf
      <3>1. /\ mark[t].conv \in Conversations /\ mark[t].user \in Users
            /\ mark[t].seen \in Nat /\ mark[t].seq \in Nat
        BY <2>4 DEF Call
      <3> QED  BY <1>1, <2>3, <3>1 DEF CallsAreCurrent
    <2>7. ReceiptsAdvance'
      <3> SUFFICES ASSUME NEW k \in DOMAIN receipts,
                          receipts[k].user \notin left'[receipts[k].conv]
                                                  \cup raced[receipts[k].conv]
                   PROVE  /\ receipts[k].seq <= marker'[receipts[k].conv][receipts[k].user]
                          /\ \A j \in 1..k - 1 :
                               receipts[j].user = receipts[k].user
                               /\ receipts[j].conv = receipts[k].conv
                                   => receipts[j].seq < receipts[k].seq
        BY <2>1 DEF ReceiptsAdvance
      <3>1. receipts[k].conv \in Conversations /\ receipts[k].user \in Users
        <4>1. receipts[k] \in Receipt
          BY <1>1, ElementOfSeq, LenProperties DEF TypeOK
        <4> QED  BY <4>1 DEF Receipt
      <3> QED  BY <1>1, <2>3, <3>1 DEF ReceiptsAdvance
    <2> QED  BY <2>5, <2>6, <2>7
  <1>8. CASE UNCHANGED vars
    <2>1. UNCHANGED <<members, left, log, marker, mark, receipts, raced>>
      BY <1>8 DEF vars
    <2>2. OneCallEach' /\ CallsAreCurrent'
      BY <1>1, <2>1 DEF OneCallEach, CallsAreCurrent, Busy, ReceiptsOf
    <2>3. ReceiptsAdvance'
      BY <1>1, <2>1 DEF ReceiptsAdvance
    <2> QED  BY <1>1, <2>2, <2>3 DEF IInv
  <1> QED  BY <1>1, <1>2, <1>3, <1>4, <1>5, <1>6, <1>7, <1>8 DEF Next, Mark, IInv

\* What is unread of a conversation is finitely many of its messages.
LEMMA UnreadIsFinite ==
    ASSUME TypeOK, NEW c \in Conversations, NEW S, S \subseteq DOMAIN log[c]
    PROVE  IsFiniteSet(S) /\ Cardinality(S) \in Nat
           /\ \A T : T \subseteq S => Cardinality(T) \in Nat /\ Cardinality(T) <= Cardinality(S)
  <1>1. IsFiniteSet(DOMAIN log[c])
    BY LogGrows, FS_Interval
  <1>2. IsFiniteSet(S)
    BY <1>1, FS_Subset
  <1>3. Cardinality(S) \in Nat
    BY <1>2, FS_CardinalityType
  <1>4. ASSUME NEW T, T \subseteq S
        PROVE  Cardinality(T) \in Nat /\ Cardinality(T) <= Cardinality(S)
    BY <1>2, <1>4, FS_Subset, FS_CardinalityType
  <1> QED  BY <1>2, <1>3, <1>4

\* In a step that stores no message in a conversation, the marker of somebody
\* who is in it and has had no race advances, or they leave.
LEMMA MarkersAdvance ==
    ASSUME IInv, [Next]_vars, NEW c \in Conversations, NEW u \in members[c] \ raced[c]
    PROVE  \/ Len(log'[c]) > Len(log[c])
           \/ log'[c] = log[c] /\ (u \notin members'[c] \/ marker'[c][u] >= marker[c][u])
  <1>1. /\ TypeOK /\ CallsAreCurrent /\ u \in Users
        /\ marker[c][u] \in Nat
    BY DEF IInv, TypeInv, TypeOK
  <1>2. ASSUME NEW s \in Slots, Mark(s)
        PROVE  UNCHANGED log /\ marker'[c][u] >= marker[c][u]
    <2>1. CASE UNCHANGED <<log, marker>>
      BY <1>1, <2>1
    <2>2. CASE MarkWrite(s) /\ mark[s].user \in members[mark[s].conv]
      <3> DEFINE q == mark[s]
      <3>1. /\ s \in Busy /\ q \in Call /\ q.pc = "write" /\ UNCHANGED log
            /\ marker' = [marker EXCEPT ![q.conv][q.user] = q.seq]
        BY <1>1, <2>2, PcIsCall DEF MarkWrite
      <3>2. q.user \notin raced[q.conv] => marker[q.conv][q.user] <= q.seen /\ q.seen < q.seq
        BY <1>1, <3>1 DEF CallsAreCurrent
      <3>3. q.conv \in Conversations /\ q.user \in Users /\ q.seq \in Nat /\ q.seen \in Nat
        BY <3>1 DEF Call
      <3> HIDE DEF q
      <3>4. marker'[c][u] = IF c = q.conv /\ u = q.user THEN q.seq ELSE marker[c][u]
        BY <1>1, <3>1, <3>3, OneMarker
      <3> QED  BY <1>1, <3>1, <3>2, <3>3, <3>4
    <2> QED  BY <1>2, <2>1, <2>2 DEF Mark, MarkLoad, MarkCheck, MarkWrite, MarkNotify
  <1>3. ASSUME NEW d \in Conversations, NEW v \in Users, NEW main \in BOOLEAN, Post(d, v, main)
        PROVE  \/ Len(log'[c]) > Len(log[c])
               \/ log'[c] = log[c] /\ marker'[c][u] >= marker[c][u]
    <2> DEFINE m == [sender |-> v, main |-> main]
    <2>1. m \in Message
      BY DEF Message
    <2>2. log' = [log EXCEPT ![d] = Append(log[d], m)] /\ UNCHANGED marker
      BY <1>3 DEF Post
    <2> HIDE DEF m
    <2>3. CASE c = d
      <3>1. log'[c] = Append(log[c], m)
        BY <1>1, <2>2, <2>3 DEF TypeOK
      <3> QED  BY <1>1, <2>1, <3>1, LogGrows
    <2>4. CASE c # d
      BY <1>1, <2>2, <2>4 DEF TypeOK
    <2> QED  BY <2>3, <2>4
  <1>4. ASSUME NEW d \in Conversations, NEW v \in Users, Join(d, v) \/ Leave(d, v)
        PROVE  UNCHANGED log /\ (u \notin members'[c] \/ marker'[c][u] >= marker[c][u])
    <2>1. /\ UNCHANGED log /\ marker' = [marker EXCEPT ![d][v] = 0]
          /\ v \notin members[d] \/ members' = [members EXCEPT ![d] = members[d] \ {v}]
      BY <1>4 DEF Join, Leave
    <2>2. marker'[c][u] = IF c = d /\ u = v THEN 0 ELSE marker[c][u]
      BY <1>1, <2>1, OneMarker
    <2>3. c = d /\ u = v => u \notin members'[c]
      BY <1>1, <2>1 DEF TypeOK
    <2> QED  BY <1>1, <2>1, <2>2, <2>3
  <1>5. CASE UNCHANGED vars
    BY <1>1, <1>5 DEF vars
  <1> QED  BY <1>2, <1>3, <1>4, <1>5 DEF Next

\* A marker that advances leaves no more unread than there was.
LEMMA UnreadStep ==
    ASSUME IInv, TypeOK', [Next]_vars
    PROVE  UnreadGrowsOnlyFromMessages
  <1> SUFFICES ASSUME NEW c \in Conversations, NEW u \in members[c] \ raced[c],
                      ~(Len(log'[c]) > Len(log[c]))
               PROVE  ~(Unread(c, u)' > Unread(c, u))
    BY DEF UnreadGrowsOnlyFromMessages, OnlyMessagesAdd
  <1>1. log'[c] = log[c] /\ (u \notin members'[c] \/ marker'[c][u] >= marker[c][u])
    BY MarkersAdvance
  <1>2. TypeOK /\ u \in Users /\ marker[c][u] \in Nat /\ marker'[c][u] \in Nat
    BY DEF IInv, TypeInv, TypeOK
  <1> DEFINE after(n) == {seq \in DOMAIN log[c] : /\ seq > n
                                                 /\ log[c][seq].main
                                                 /\ log[c][seq].sender # u}
  <1>3. Unread(c, u) = Cardinality(after(marker[c][u]))
    BY DEF Unread
  <1>4. Unread(c, u)' = IF u \notin members'[c] THEN 0 ELSE Cardinality(after(marker'[c][u]))
    BY <1>1 DEF Unread
  <1>5. DOMAIN log[c] \subseteq Nat
    BY <1>2, LogGrows
  <1>6. Cardinality(after(marker[c][u])) \in Nat
    BY <1>2, UnreadIsFinite
  <1>7. ASSUME marker'[c][u] >= marker[c][u]
        PROVE  /\ Cardinality(after(marker'[c][u])) \in Nat
               /\ Cardinality(after(marker'[c][u])) <= Cardinality(after(marker[c][u]))
    <2>1. after(marker'[c][u]) \subseteq after(marker[c][u])
      BY <1>2, <1>5, <1>7
    <2>2. after(marker[c][u]) \subseteq DOMAIN log[c]
      OBVIOUS
    <2> HIDE DEF after
    <2> QED  BY <1>2, <2>1, <2>2, UnreadIsFinite
  <1> HIDE DEF after
  <1> QED  BY <1>1, <1>3, <1>4, <1>6, <1>7
-----------------------------------------------------------------------------
(* Every reachable state is well typed, and a marker names a message of its own
   conversation, whichever markRead calls overlap. *)
THEOREM TypeCorrect == Spec => []TypeOK
  <1>1. Init => TypeInv
    BY InitHolds DEF IInv
  <1>2. TypeInv /\ [Next]_vars => TypeInv'
    BY TypeInvStep
  <1>3. TypeInv => TypeOK
    BY DEF TypeInv
  <1> QED  BY <1>1, <1>2, <1>3, PTL DEF Spec

LEMMA Invariant == Spec => []IInv
  <1>1. IInv /\ [Next]_vars => IInv'
    BY IInvStep
  <1> QED  BY <1>1, InitHolds, PTL DEF Spec

(* Whichever calls overlap, marks only advance for whoever's own marks of the
   conversation have not raced: an unread count grows only with a new message,
   and the receipts somebody causes while they stay name ever later messages and
   are never ahead of the stored read-state. *)
THEOREM MarksAdvance == Spec => MarksOnlyAdvance
  <1>1. IInv /\ [Next]_vars => IInv'
    BY IInvStep
  <1>2. IInv /\ IInv' /\ [Next]_vars
          => [UnreadGrowsOnlyFromMessages /\ ReceiptsAdvance']_vars
    BY UnreadStep DEF IInv, TypeInv
  <1> QED  BY <1>1, <1>2, Invariant, PTL DEF Spec, MarksOnlyAdvance
=============================================================================
