---------------------------- MODULE PresenceProofs ---------------------------
(***************************************************************************)
(* Proofs about Presence, for any nodes and number of streams, all         *)
(* intervals that meet PresenceAssumption, and any number of mishaps.      *)
(***************************************************************************)
EXTENDS Presence, TLAPS, SequenceTheorems

-----------------------------------------------------------------------------
(* The types.                                                               *)

Decisions == {"nothing", "online", "offline"}

Reply ==
  [kind : {"open"}, conn : Conns, result : {"online", "nothing"}, no : Nat]
    \union [kind : {"close"}, conn : Conns, result : Conns \union {NoToken}, no : Nat]
    \union [kind : {"finalize"}, conn : Conns, result : {"offline"}, no : Nat]

Token == [token : Conns \union {NoToken}, left : Int]
ConnRecord == [phase : Phases, node : Nodes \union {"none"}, gone : BOOLEAN]
Past == [decided : Decisions, count : Nat, away : Nat, again : SUBSET Decisions,
         crossed : BOOLEAN, swallowed : Nat, failures : Nat]

StateType ==
  /\ lease \in [Conns -> Nat]
  /\ pending \in Token
  /\ conn \in [Conns -> ConnRecord]
  /\ beat \in [Conns -> Int] /\ beating \in SUBSET Conns
  /\ missed \in [Conns -> Nat]
  /\ timer \in [Nodes -> Token]
  /\ replies \in [Nodes -> Seq(Reply)]
  /\ history \in Past
  /\ \A c \in Conns : conn[c].phase # "unused" => conn[c].node \in Nodes

-----------------------------------------------------------------------------
(* Leases: one that is needed is renewed before it runs out.                *)

\* An answer to an open finds its stream waiting for it, and there is one of them.
OpensAreAwaited ==
  \A n \in Nodes : \A k \in 1..Len(replies[n]) :
    LET r == replies[n][k] IN
    r.kind = "open" =>
      /\ conn[r.conn].phase = "opened" /\ conn[r.conn].node = n
      /\ \A l \in 1..Len(replies[n]) :
           replies[n][l].kind = "open" /\ replies[n][l].conn = r.conn => l = k

OpensAreAnswered ==
  \A c \in Conns : conn[c].phase = "opened" =>
    /\ lease[c] = LeaseTtl
    /\ \E k \in 1..Len(replies[conn[c].node]) :
         LET r == replies[conn[c].node][k] IN r.kind = "open" /\ r.conn = c

\* How long so many heartbeats may take.
Spell(m) == m * (BeatEvery + MaxLag)

\* What remains of a lease when m heartbeats in a row have failed: it outlives the
\* next one, however late that is, unless m are too many.
Remains(left, next, sent, m) ==
  IF sent THEN next = BeatEvery /\ left >= LeaseTtl - Spell(m + 1)
  ELSE left - next >= LeaseTtl - BeatEvery - Spell(m)

BeatsInTime ==
  \A c \in Conns : conn[c].phase = "open" =>
    /\ -MaxLag <= beat[c] /\ beat[c] <= BeatEvery
    /\ Outlives(missed[c]) => Remains(lease[c], beat[c], c \in beating, missed[c])

\* Heartbeats begin when the stream has its lease.
Early(c) == conn[c].phase \in {"unused", "opening", "opened"}

NoBeatYet == \A c \in Conns : Early(c) => c \notin beating /\ missed[c] = 0

-----------------------------------------------------------------------------
(* Tokens: an offline is confirmed after the delay.                         *)

Left(c) == conn[c].phase \in {"closed", "dead"}

PendingIsLeft == pending.token # NoToken => Live = {} /\ Left(pending.token)

TimersAreLeft == \A n \in Nodes : timer[n].token # NoToken => Left(timer[n].token)

AnswersAreLeft ==
  \A n \in Nodes : \A k \in 1..Len(replies[n]) :
    LET r == replies[n][k] IN r.kind = "close" /\ r.result # NoToken => Left(r.result)

TokensAreLeft == PendingIsLeft /\ TimersAreLeft /\ AnswersAreLeft

AwayForLong ==
  /\ history.away <= OfflineDelay
  /\ \A n \in Nodes : pending.token # NoToken /\ timer[n].token = pending.token =>
       timer[n].left + history.away >= OfflineDelay \/ history.away = OfflineDelay

-----------------------------------------------------------------------------
(* Decisions: they alternate.                                               *)

DecidedOnline ==
  /\ Live # {} \/ pending.token # NoToken => history.decided = "online"
  /\ history.again \subseteq {"online"}
  /\ history.decided = "nothing" <=> history.count = 0

\* No mishap: leases are of streams that are up, and no heartbeat failed.
LeasesAreUp ==
  Mishaps = 0 =>
    /\ \A c \in Live : conn[c].phase \in {"opened", "open", "closing"}
    /\ \A c \in Conns : missed[c] = 0

NoTokenAfter(n, k) ==
  \A l \in 1..Len(replies[n]) : l > k /\ replies[n][l].kind = "close" =>
    replies[n][l].result = NoToken

\* No mishap: somebody will present the token that waits, or comes online first.
TimerHolds(n) ==
  /\ timer[n].token = pending.token /\ pending.left = timer[n].left + TokenSlack
  /\ NoTokenAfter(n, 0)

IsComing(n, t) ==
  \E k \in 1..Len(replies[n]) :
    replies[n][k].kind = "close" /\ replies[n][k].result = t /\ NoTokenAfter(n, k)

TokenIsComing(n) == pending.left = TokenLife /\ IsComing(n, pending.token)

WillBePresented ==
  Mishaps = 0 /\ pending.token # NoToken =>
    \/ \E c \in Conns : conn[c].phase = "opening"
    \/ TimerHolds(conn[pending.token].node)
    \/ TokenIsComing(conn[pending.token].node)

NoneIsRepeated ==
  Mishaps = 0 =>
    /\ history.again = {}
    /\ history.decided = "online" => Live # {} \/ pending.token # NoToken

-----------------------------------------------------------------------------
(* Delivery: the last decision reaches the partners.                        *)

Note == [node : Nodes, what : {"online", "offline"}, no : Nat]

\* r answers with a transition.
Tells(r) == r.kind \in {"open", "finalize"} /\ r.result # "nothing"

NumbersAreTrue ==
  history.swallowed = 0 =>
    /\ \A n \in Nodes : \A k \in 1..Len(replies[n]) :
         LET r == replies[n][k] IN
         Tells(r) => /\ r.no <= history.count
                     /\ r.no = history.count => r.result = history.decided
    /\ announcing \in Seq(Note)
    /\ \A i \in 1..Len(announcing) :
         /\ announcing[i].no <= history.count
         /\ announcing[i].no = history.count => announcing[i].what = history.decided

LastIsAnswered ==
  \E n \in Nodes : \E k \in 1..Len(replies[n]) :
    LET r == replies[n][k] IN
    Tells(r) /\ r.no = history.count /\ r.result = history.decided

LastIsLookedUp ==
  \E i \in 1..Len(announcing) :
    announcing[i].no = history.count /\ announcing[i].what = history.decided

LastIsTold == told.no = history.count /\ told.what = history.decided

LastIsKept ==
  history.swallowed = 0 /\ ~history.crossed /\ history.count > 0 =>
    LastIsAnswered \/ LastIsLookedUp \/ LastIsTold

-----------------------------------------------------------------------------
LeaseInv == OpensAreAwaited /\ OpensAreAnswered /\ BeatsInTime /\ NoBeatYet
TokenInv == TokensAreLeft /\ AwayForLong
DecisionInv == DecidedOnline /\ LeasesAreUp /\ WillBePresented /\ NoneIsRepeated
DeliveryInv == NumbersAreTrue /\ LastIsKept

IInv == StateType /\ LeaseInv /\ TokenInv /\ DecisionInv /\ DeliveryInv
-----------------------------------------------------------------------------
(* Constants, queues and the types.                                         *)

LEMMA Sizes ==
  /\ LeaseTtl \in Nat /\ LeaseTtl > 0 /\ BeatEvery \in Nat /\ BeatEvery > 0
  /\ OfflineDelay \in Nat /\ OfflineDelay > 0 /\ TokenSlack \in Nat /\ MaxLag \in Nat
  /\ MaxConns \in Nat /\ MaxMishaps \in Nat
  /\ BeatEvery + MaxLag < LeaseTtl /\ MaxLag < TokenSlack
  /\ \A c \in Conns : c # NoToken
  BY PresenceAssumption DEF Conns, NoToken

\* Arithmetic of the spells, for the provers that know no products.
LEMMA Spells ==
  ASSUME NEW m \in Nat, NEW k \in Nat, k = m + 1
  PROVE  /\ Spell(m) \in Nat /\ Spell(k) \in Nat /\ Spell(0) = 0
         /\ Spell(k) = Spell(m) + BeatEvery + MaxLag
         /\ Outlives(m) <=> Spell(k) < LeaseTtl
  <1>1. PICK d \in Nat : d = BeatEvery + MaxLag
    BY Sizes
  <1>2. m * d \in Nat /\ k * d = m * d + d /\ k * d \in Nat /\ 0 * d = 0
    OBVIOUS
  <1>3. Spell(m) = m * d /\ Spell(k) = k * d /\ Spell(0) = 0 * d /\ (Outlives(m) <=> k * d < LeaseTtl)
    BY <1>1 DEF Spell, Outlives
  <1> QED  BY <1>1, <1>2, <1>3, Sizes

\* A lease that remains is one, and a new one remains.
LEMMA Remaining ==
  ASSUME NEW left \in Nat, NEW next \in Int, NEW sent \in BOOLEAN, NEW m \in Nat
  PROVE  /\ Outlives(m) /\ -MaxLag <= next /\ Remains(left, next, sent, m) => left > 0
         /\ next <= BeatEvery => Remains(LeaseTtl, next, FALSE, 0)
         /\ Outlives(0)
         /\ Outlives(m + 1) => Outlives(m)
         /\ -MaxLag <= next /\ Remains(left, next, FALSE, m) =>
              Remains(left, BeatEvery, TRUE, m)
         /\ Remains(left, next, TRUE, m) => Remains(left, next, FALSE, m + 1)
         /\ Remains(left, next, FALSE, m) => Remains(left - 1, next - 1, FALSE, m)
  <1>1. PICK k \in Nat, l \in Nat, one \in Nat : k = m + 1 /\ l = k + 1 /\ one = 0 + 1
    OBVIOUS
  <1>2. PICK a \in Nat, b \in Nat : a = Spell(m) /\ b = Spell(k)
    BY <1>1, Spells
  <1>3. /\ b = a + BeatEvery + MaxLag /\ (Outlives(m) <=> b < LeaseTtl)
        /\ Outlives(k) <=> b + BeatEvery + MaxLag < LeaseTtl
    BY <1>1, <1>2, Spells
  <1>4. Spell(0) = 0 /\ Outlives(0)
    BY <1>1, Spells, Sizes
  <1>5. Outlives(m) /\ -MaxLag <= next /\ Remains(left, next, sent, m) => left > 0
    <2>1. CASE sent
      BY <1>1, <1>2, <1>3, <2>1, Sizes DEF Remains
    <2>2. CASE ~sent
      BY <1>1, <1>2, <1>3, <2>2, Sizes DEF Remains
    <2> QED  BY <2>1, <2>2
  <1>6. next <= BeatEvery => Remains(LeaseTtl, next, FALSE, 0)
    BY <1>4, Sizes DEF Remains
  <1>7. -MaxLag <= next /\ Remains(left, next, FALSE, m) => Remains(left, BeatEvery, TRUE, m)
    BY <1>1, <1>2, <1>3, Sizes DEF Remains
  <1>8. Remains(left, next, TRUE, m) => Remains(left, next, FALSE, k)
    BY <1>1, <1>2, <1>3, Sizes DEF Remains
  <1>9. Remains(left, next, FALSE, m) => Remains(left - 1, next - 1, FALSE, m)
    BY <1>2, Sizes DEF Remains
  <1>10. Outlives(k) => Outlives(m)
    BY <1>3, Sizes
  <1> QED  BY <1>1, <1>4, <1>5, <1>6, <1>7, <1>8, <1>9, <1>10

LEMMA Appended ==
  ASSUME NEW S, NEW s \in Seq(S), NEW r \in S
  PROVE  /\ Append(s, r) \in Seq(S) /\ Len(s) \in Nat /\ Len(Append(s, r)) = Len(s) + 1
         /\ \A k \in 1..Len(s) : Append(s, r)[k] = s[k]
         /\ Append(s, r)[Len(s) + 1] = r
  BY AppendProperties, LenProperties

LEMMA Popped ==
  ASSUME NEW S, NEW s \in Seq(S), s # <<>>
  PROVE  /\ Tail(s) \in Seq(S) /\ Len(s) \in Nat /\ Len(s) >= 1
         /\ Len(Tail(s)) = Len(s) - 1 /\ Head(s) = s[1] /\ Head(s) \in S
         /\ \A k \in 1..Len(Tail(s)) : Tail(s)[k] = s[k + 1]
  BY HeadTailProperties, LenProperties, EmptySeq, ElementOfSeq

LEMMA Removed ==
  ASSUME NEW S, NEW s \in Seq(S), NEW i \in 1..Len(s)
  PROVE  /\ RemoveAt(s, i) \in Seq(S)
         /\ \A k \in 1..Len(RemoveAt(s, i)) : \E j \in 1..Len(s) : RemoveAt(s, i)[k] = s[j]
         /\ \A j \in 1..Len(s) : j # i =>
              \E k \in 1..Len(RemoveAt(s, i)) : RemoveAt(s, i)[k] = s[j]
  <1> DEFINE a == SubSeq(s, 1, i - 1)
             b == SubSeq(s, i + 1, Len(s))
  <1>1. Len(s) \in Nat /\ i \in Nat /\ 1 <= i /\ i <= Len(s)
    BY LenProperties
  <1>2. /\ a \in Seq(S) /\ Len(a) = i - 1 /\ \A k \in 1..(i - 1) : a[k] = s[k]
    <2>1. 1 \in 1..Len(s) + 1 /\ i - 1 \in 1 - 1..Len(s)
      BY <1>1
    <2> QED  BY <1>1, SubSeqProperties
  <1>3. /\ b \in Seq(S) /\ Len(b) = Len(s) - i
        /\ \A k \in 1..(Len(s) - i) : b[k] = s[i + k]
    BY <1>1, SubSeqProperties
  <1>4. RemoveAt(s, i) = a \o b
    BY DEF RemoveAt
  <1> HIDE DEF a, b
  <1>5. /\ a \o b \in Seq(S) /\ Len(a \o b) = Len(s) - 1
        /\ \A k \in 1..(Len(s) - 1) : (a \o b)[k] = IF k <= i - 1 THEN a[k] ELSE b[k - (i - 1)]
    <2>1. /\ a \o b \in Seq(S) /\ Len(a \o b) = Len(a) + Len(b)
          /\ \A k \in 1..Len(a) + Len(b) : (a \o b)[k] = IF k <= Len(a) THEN a[k] ELSE b[k - Len(a)]
      BY <1>2, <1>3, ConcatProperties
    <2>2. Len(a) = i - 1 /\ Len(a) + Len(b) = Len(s) - 1
      BY <1>1, <1>2, <1>3
    <2>3. \A k \in 1..(Len(s) - 1) : (a \o b)[k] = IF k <= Len(a) THEN a[k] ELSE b[k - Len(a)]
      BY <2>1, <2>2
    <2> QED  BY <2>1, <2>2, <2>3
  <1>6. \A k \in 1..(Len(s) - 1) : (a \o b)[k] = IF k <= i - 1 THEN s[k] ELSE s[k + 1]
    <2> SUFFICES ASSUME NEW k \in 1..(Len(s) - 1)
                 PROVE  (a \o b)[k] = IF k <= i - 1 THEN s[k] ELSE s[k + 1]
      OBVIOUS
    <2>1. CASE k <= i - 1
      BY <1>1, <1>2, <1>5, <2>1
    <2>2. CASE ~(k <= i - 1)
      <3>1. k - (i - 1) \in 1..(Len(s) - i) /\ i + (k - (i - 1)) = k + 1
        BY <1>1, <2>2
      <3> QED  BY <1>1, <1>3, <1>5, <2>2, <3>1
    <2> QED  BY <2>1, <2>2
  <1>7. ASSUME NEW k \in 1..(Len(s) - 1)
        PROVE  \E j \in 1..Len(s) : (a \o b)[k] = s[j]
    <2>1. k \in 1..Len(s) /\ k + 1 \in 1..Len(s)
      BY <1>1
    <2>2. (a \o b)[k] = s[k] \/ (a \o b)[k] = s[k + 1]
      BY <1>6
    <2> QED  BY <2>1, <2>2
  <1>8. ASSUME NEW j \in 1..Len(s), j # i
        PROVE  \E k \in 1..(Len(s) - 1) : (a \o b)[k] = s[j]
    <2>1. CASE j < i
      <3>1. j \in 1..(Len(s) - 1) /\ j <= i - 1
        BY <1>1, <2>1
      <3> QED  BY <1>6, <3>1
    <2>2. CASE j > i
      <3>1. j - 1 \in 1..(Len(s) - 1) /\ ~(j - 1 <= i - 1) /\ (j - 1) + 1 = j
        BY <1>1, <2>2
      <3> QED  BY <1>6, <3>1
    <2>3. j \in Nat /\ (j < i \/ j > i)
      BY <1>1, <1>8
    <2> QED  BY <2>1, <2>2, <2>3
  <1> QED  BY <1>4, <1>5, <1>7, <1>8
\* A queue after the store has answered.
LEMMA Answered ==
  ASSUME replies \in [Nodes -> Seq(Reply)], NEW n \in Nodes, NEW r \in Reply,
         replies' = [replies EXCEPT ![n] = Append(@, r)]
  PROVE  /\ replies' \in [Nodes -> Seq(Reply)]
         /\ \A m \in Nodes : Len(replies[m]) \in Nat /\ Len(replies'[m]) \in Nat
         /\ \A m \in Nodes \ {n} : replies'[m] = replies[m]
         /\ Len(replies'[n]) = Len(replies[n]) + 1
         /\ \A k \in 1..Len(replies[n]) : replies'[n][k] = replies[n][k]
         /\ replies'[n][Len(replies[n]) + 1] = r
  <1>1. \A m \in Nodes : replies[m] \in Seq(Reply) /\ Len(replies[m]) \in Nat
    BY LenProperties
  <1>2. /\ Append(replies[n], r) \in Seq(Reply)
        /\ Len(Append(replies[n], r)) = Len(replies[n]) + 1
        /\ \A k \in 1..Len(replies[n]) : Append(replies[n], r)[k] = replies[n][k]
        /\ Append(replies[n], r)[Len(replies[n]) + 1] = r
    BY <1>1, Appended
  <1>3. replies'[n] = Append(replies[n], r) /\ \A m \in Nodes \ {n} : replies'[m] = replies[m]
    OBVIOUS
  <1>4. replies' \in [Nodes -> Seq(Reply)]
    BY <1>1, <1>2
  <1>5. \A m \in Nodes : Len(replies'[m]) \in Nat
    BY <1>4, LenProperties
  <1> QED  BY <1>1, <1>2, <1>3, <1>4, <1>5

\* A queue after its node has taken the first answer.
LEMMA Taken ==
  ASSUME replies \in [Nodes -> Seq(Reply)], NEW n \in Nodes, replies[n] # <<>>,
         replies' = [replies EXCEPT ![n] = Tail(@)]
  PROVE  /\ replies' \in [Nodes -> Seq(Reply)]
         /\ \A m \in Nodes : Len(replies[m]) \in Nat /\ Len(replies'[m]) \in Nat
         /\ \A m \in Nodes \ {n} : replies'[m] = replies[m]
         /\ Len(replies'[n]) = Len(replies[n]) - 1
         /\ Head(replies[n]) \in Reply /\ Head(replies[n]) = replies[n][1]
         /\ 1 \in 1..Len(replies[n])
         /\ \A k \in 1..Len(replies'[n]) :
              k + 1 \in 1..Len(replies[n]) /\ replies'[n][k] = replies[n][k + 1]
         /\ \A k \in 1..Len(replies[n]) : k # 1 =>
              k - 1 \in 1..Len(replies'[n]) /\ replies'[n][k - 1] = replies[n][k]
  <1>1. \A m \in Nodes : replies[m] \in Seq(Reply) /\ Len(replies[m]) \in Nat
    BY LenProperties
  <1>2. PICK t : t = Tail(replies[n])
    OBVIOUS
  <1>3. /\ t \in Seq(Reply) /\ Len(replies[n]) >= 1 /\ Len(t) = Len(replies[n]) - 1
        /\ Head(replies[n]) = replies[n][1] /\ Head(replies[n]) \in Reply
        /\ \A k \in 1..Len(t) : t[k] = replies[n][k + 1]
    BY <1>1, <1>2, Popped
  <1>4. replies'[n] = t /\ \A m \in Nodes \ {n} : replies'[m] = replies[m]
    BY <1>2
  <1>5. replies' \in [Nodes -> Seq(Reply)]
    BY <1>1, <1>2, <1>3
  <1>6. \A m \in Nodes : Len(replies'[m]) \in Nat
    BY <1>5, LenProperties
  <1>7. \A k \in 1..Len(t) : k + 1 \in 1..Len(replies[n]) /\ t[k] = replies[n][k + 1]
    BY <1>1, <1>3
  <1>8. \A k \in 1..Len(replies[n]) : k # 1 => k - 1 \in 1..Len(t) /\ t[k - 1] = replies[n][k]
    BY <1>1, <1>3
  <1> QED  BY <1>1, <1>3, <1>4, <1>5, <1>6, <1>7, <1>8

LEMMA Decided ==
  ASSUME history \in Past, NEW d \in Decisions
  PROVE  /\ Decide(d) \in Past
         /\ Decide(d).decided = IF d = "nothing" THEN history.decided ELSE d
         /\ Decide(d).count = IF d = "nothing" THEN history.count ELSE history.count + 1
         /\ Decide(d).again = IF d # "nothing" /\ history.decided = d
                              THEN history.again \union {d} ELSE history.again
         /\ Decide(d).away = history.away /\ Decide(d).crossed = history.crossed
         /\ Decide(d).swallowed = history.swallowed /\ Decide(d).failures = history.failures
  <1>1. CASE d = "nothing"
    BY <1>1 DEF Decide
  <1>2. CASE d # "nothing"
    <2>1. history.again \in SUBSET Decisions /\ history.count \in Nat
      BY DEF Past
    <2>2. PICK a \in SUBSET Decisions :
            a = IF history.decided = d THEN history.again \union {d} ELSE history.again
      BY <2>1
    <2>3. PICK n \in Nat : n = history.count + 1
      BY <2>1
    <2>4. Decide(d) = [history EXCEPT !.decided = d, !.count = n, !.again = a]
      BY <1>2, <2>2, <2>3 DEF Decide
    <2>5. /\ Decide(d) \in Past /\ Decide(d).decided = d /\ Decide(d).count = n
          /\ Decide(d).again = a
          /\ Decide(d).away = history.away /\ Decide(d).crossed = history.crossed
          /\ Decide(d).swallowed = history.swallowed /\ Decide(d).failures = history.failures
      BY <2>4 DEF Past
    <2> QED  BY <1>2, <2>2, <2>3, <2>5
  <1> QED  BY <1>1, <1>2

LEMMA Counted ==
  ASSUME history \in Past
  PROVE  /\ history.swallowed \in Nat /\ history.failures \in Nat /\ history.count \in Nat
         /\ [history EXCEPT !.failures = @ + 1] \in Past
         /\ [history EXCEPT !.swallowed = @ + 1] \in Past
  <1>1. history.swallowed \in Nat /\ history.failures \in Nat /\ history.count \in Nat
    BY DEF Past
  <1>2. PICK n, m \in Nat : n = history.failures + 1 /\ m = history.swallowed + 1
    BY <1>1
  <1>3. [history EXCEPT !.failures = n] \in Past /\ [history EXCEPT !.swallowed = m] \in Past
    BY DEF Past
  <1> QED  BY <1>1, <1>2, <1>3

\* The steps that go wrong.
Fails ==
  \/ \E c \in Conns : StoreOpenFails(c) \/ StoreBeatFails(c) \/ StoreCloseFails(c)
  \/ \E n \in Nodes : FinalizeFails(n)

Loses == \E n \in Nodes : AnswerLost(n) \/ Crash(n)

LEMMA MishapsCount ==
  ASSUME StateType, Fails \/ Loses
  PROVE  /\ history' \in Past /\ Mishaps' > 0 /\ UNCHANGED <<lease, pending, told>>
         /\ history'.decided = history.decided /\ history'.count = history.count
         /\ history'.away = history.away /\ history'.again = history.again
         /\ history'.crossed = history.crossed /\ Mishaps' >= Mishaps
         /\ Fails => history'.swallowed = history.swallowed /\ UNCHANGED announcing
         /\ Loses => history'.swallowed > 0
  <1>0. history \in Past /\ history.swallowed \in Nat /\ history.failures \in Nat
    BY DEF StateType, Past
  <1>1. PICK f, g \in Nat : f = history.failures + 1 /\ g = history.swallowed + 1
    BY <1>0
  <1>2. Fails => /\ history' = [history EXCEPT !.failures = f]
                 /\ UNCHANGED <<lease, pending, told, announcing>>
    BY <1>1 DEF Fails, Failure, StoreOpenFails, StoreBeatFails, StoreCloseFails, FinalizeFails
  <1>3. Loses => /\ history' = [history EXCEPT !.swallowed = g]
                 /\ UNCHANGED <<lease, pending, told>>
    BY <1>1 DEF Loses, AnswerLost, Crash
  <1>4. CASE Fails
    <2>1. history' = [history EXCEPT !.failures = f]
      BY <1>2, <1>4
    <2>2. /\ history' \in Past /\ history'.failures = f /\ history'.swallowed = history.swallowed
          /\ history'.decided = history.decided /\ history'.count = history.count
          /\ history'.away = history.away /\ history'.again = history.again
          /\ history'.crossed = history.crossed
      BY <1>0, <2>1 DEF Past
    <2>3. ~Loses
      <3>1. Loses => [history EXCEPT !.swallowed = g].swallowed = history'.swallowed
        BY <1>3
      <3> QED  BY <1>0, <1>1, <2>2, <3>1 DEF Past
    <2> QED  BY <1>0, <1>1, <1>2, <1>4, <2>2, <2>3 DEF Mishaps
  <1>5. CASE Loses /\ ~Fails
    <2>1. history' = [history EXCEPT !.swallowed = g]
      BY <1>3, <1>5
    <2>2. /\ history' \in Past /\ history'.swallowed = g /\ history'.failures = history.failures
          /\ history'.decided = history.decided /\ history'.count = history.count
          /\ history'.away = history.away /\ history'.again = history.again
          /\ history'.crossed = history.crossed
      BY <1>0, <2>1 DEF Past
    <2> QED  BY <1>0, <1>1, <1>3, <1>5, <2>2 DEF Mishaps
  <1> QED  BY <1>4, <1>5

LEMMA OpenIs == OpenResult \in {"online", "nothing"} /\ OpenResult \in Decisions
  BY DEF OpenResult, Decisions

LEMMA InitialTypes == Init => StateType
  <1> SUFFICES ASSUME Init PROVE StateType
    OBVIOUS
  <1>1. /\ lease \in [Conns -> Nat] /\ beat \in [Conns -> Int] /\ beating \in SUBSET Conns
        /\ missed \in [Conns -> Nat]
    BY DEF Init
  <1>2. NoPending \in Token
    BY DEF NoPending, Token, NoToken
  <1>3. pending \in Token /\ timer \in [Nodes -> Token]
    BY <1>2 DEF Init
  <1>4. conn \in [Conns -> ConnRecord] /\ \A c \in Conns : conn[c].phase = "unused"
    BY DEF Init, ConnRecord, Phases
  <1>5. replies \in [Nodes -> Seq(Reply)]
    BY EmptySeq DEF Init
  <1>6. history \in Past
    BY Sizes DEF Init, Past, Decisions
  <1> QED  BY <1>1, <1>3, <1>4, <1>5, <1>6 DEF StateType

LEMMA StoreTypes ==
  ASSUME StateType, NEW c \in Conns, StoreStep(c)
  PROVE  StateType'
  <1>1. /\ LeaseTtl \in Nat /\ TokenLife \in Int
        /\ NoPending \in Token /\ [token |-> c, left |-> TokenLife] \in Token
    BY Sizes DEF NoPending, Token, NoToken, TokenLife
  <1>2. history.count \in Nat /\ OpenResult \in {"online", "nothing"} /\ OpenResult \in Decisions
    BY OpenIs DEF StateType, Past
  <1>3. CASE StoreOpen(c)
    <2>1. conn[c].phase = "opening" /\ conn[c].node \in Nodes
      BY <1>3 DEF StoreOpen, StateType
    <2> DEFINE r == [kind |-> "open", conn |-> c, result |-> OpenResult, no |-> history.count + 1]
    <2>2. r \in Reply
      BY <1>2 DEF Reply
    <2>3. replies' = [replies EXCEPT ![conn[c].node] = Append(@, r)]
      BY <1>3 DEF StoreOpen, Answer
    <2> HIDE DEF r
    <2>4. replies' \in [Nodes -> Seq(Reply)]
      BY <2>1, <2>2, <2>3, Answered DEF StateType
    <2>5. Decide(OpenResult) \in Past
      BY <1>2, Decided DEF StateType
    <2>6. history' = [Decide(OpenResult) EXCEPT !.away = 0]
      BY <1>3 DEF StoreOpen
    <2>7. history' \in Past
      BY <2>5, <2>6 DEF Past
    <2>8. /\ lease' \in [Conns -> Nat] /\ pending' \in Token
          /\ beat' = beat /\ beating' = beating /\ timer' = timer /\ missed' = missed
      BY <1>1, <1>3 DEF StoreOpen, StateType
    <2>9. conn' = [conn EXCEPT ![c].phase = "opened"]
      BY <1>3 DEF StoreOpen
    <2>10. conn' \in [Conns -> ConnRecord]
           /\ \A b \in Conns : conn'[b].phase # "unused" => conn'[b].node \in Nodes
      BY <2>1, <2>9 DEF StateType, ConnRecord, Phases
    <2> QED  BY <2>4, <2>7, <2>8, <2>10 DEF StateType
  <1>4. CASE StoreOpenFails(c) \/ StoreCloseFails(c)
    <2>1. /\ lease' = lease /\ pending' = pending /\ beat' = beat /\ beating' = beating
          /\ timer' = timer /\ replies' = replies /\ missed' = missed
          /\ \/ conn' = [conn EXCEPT ![c].phase = "unleased"]
             \/ conn' = [conn EXCEPT ![c].phase = "closed"]
          /\ conn[c].phase \in {"opening", "closing"}
      BY <1>4 DEF StoreOpenFails, StoreCloseFails
    <2>2. history' \in Past
      BY <1>4, MishapsCount DEF Fails
    <2>3. conn' \in [Conns -> ConnRecord]
          /\ \A b \in Conns : conn'[b].phase # "unused" => conn'[b].node \in Nodes
      <3>1. PICK p \in {"unleased", "closed"} : conn' = [conn EXCEPT ![c].phase = p]
        BY <2>1
      <3>2. conn \in [Conns -> ConnRecord] /\ p \in Phases
            /\ \A b \in Conns : conn[b].phase # "unused" => conn[b].node \in Nodes
        BY DEF StateType, Phases
      <3>3. conn[c].phase # "unused"
        BY <2>1
      <3> QED  BY <3>1, <3>2, <3>3 DEF ConnRecord
    <2> QED  BY <2>1, <2>2, <2>3 DEF StateType
  <1>5. CASE StoreBeat(c)
    <2>1. Renewed(c) \in Nat
      BY <1>1 DEF Renewed
    <2>2. /\ lease' = [lease EXCEPT ![c] = Renewed(c)] /\ beating' = beating \ {c}
          /\ missed' = [missed EXCEPT ![c] = IF Outlives(@) THEN 0 ELSE @]
          /\ UNCHANGED <<pending, conn, beat, timer, replies, history>>
      BY <1>5 DEF StoreBeat
    <2>3. missed' \in [Conns -> Nat]
      BY <2>2 DEF StateType
    <2> QED  BY <2>1, <2>2, <2>3 DEF StateType
  <1>7. CASE StoreBeatFails(c)
    <2>1. /\ beating' = beating \ {c} /\ missed' = [missed EXCEPT ![c] = @ + 1]
          /\ UNCHANGED <<lease, pending, conn, beat, timer, replies>>
      BY <1>7 DEF StoreBeatFails
    <2>2. history' \in Past
      BY <1>7, MishapsCount DEF Fails
    <2>3. missed' \in [Conns -> Nat]
      BY <2>1 DEF StateType
    <2> QED  BY <2>1, <2>2, <2>3 DEF StateType
  <1>6. CASE StoreClose(c)
    <2>1. conn[c].phase = "closing" /\ conn[c].node \in Nodes
      BY <1>6 DEF StoreClose, StateType
    <2> DEFINE r == [kind |-> "close", conn |-> c,
                     result |-> IF LeavesToken(c) THEN c ELSE NoToken, no |-> history.count + 1]
    <2>2. r \in Reply
      BY <1>2 DEF Reply
    <2>3. replies' = [replies EXCEPT ![conn[c].node] = Append(@, r)]
      BY <1>6 DEF StoreClose, Answer
    <2> HIDE DEF r
    <2>4. replies' \in [Nodes -> Seq(Reply)]
      BY <2>1, <2>2, <2>3, Answered DEF StateType
    <2>5. /\ lease' = [lease EXCEPT ![c] = 0]
          /\ pending' = IF LeavesToken(c) THEN [token |-> c, left |-> TokenLife] ELSE pending
          /\ conn' = [conn EXCEPT ![c].phase = "closed"]
          /\ UNCHANGED <<beat, beating, timer, history, missed>>
      BY <1>6 DEF StoreClose, WithoutLease
    <2>6. conn' \in [Conns -> ConnRecord]
          /\ \A b \in Conns : conn'[b].phase # "unused" => conn'[b].node \in Nodes
      BY <2>1, <2>5 DEF StateType, ConnRecord, Phases
    <2>7. lease' \in [Conns -> Nat] /\ pending' \in Token
      BY <1>1, <2>5 DEF StateType
    <2> QED  BY <2>4, <2>5, <2>6, <2>7 DEF StateType
  <1> QED  BY <1>3, <1>4, <1>5, <1>6, <1>7 DEF StoreStep, Opening, Beating, Closing

LEMMA StreamTypes ==
  ASSUME StateType, NEW c \in Conns, StreamStep(c)
  PROVE  StateType'
  <1>1. CASE StreamGone(c)
    <2>1. /\ conn' = [conn EXCEPT ![c].gone = TRUE] /\ conn[c].phase # "unused"
          /\ UNCHANGED <<lease, pending, beat, beating, timer, replies, history, missed>>
      BY <1>1 DEF StreamGone
    <2> QED  BY <2>1 DEF StateType, ConnRecord
  <1>2. CASE StreamClose(c)
    <2>1. /\ conn' = [conn EXCEPT ![c].phase = "closing"] /\ conn[c].phase # "unused"
          /\ UNCHANGED <<lease, pending, beat, beating, timer, replies, history, missed>>
      BY <1>2 DEF StreamClose
    <2> QED  BY <2>1 DEF StateType, ConnRecord, Phases
  <1>3. CASE BeatFires(c)
    <2>1. /\ beating' = beating \union {c} /\ beat' = [beat EXCEPT ![c] = BeatEvery]
          /\ UNCHANGED <<lease, pending, conn, timer, replies, history, missed>>
      BY <1>3 DEF BeatFires
    <2> QED  BY <2>1, Sizes DEF StateType
  <1>4. ASSUME NEW n \in Nodes, StreamOpen(c, n)
        PROVE  StateType'
    <2>1. /\ conn' = [conn EXCEPT ![c] = [phase |-> "opening", node |-> n, gone |-> FALSE]]
          /\ timer' = [timer EXCEPT ![n] = NoPending]
          /\ UNCHANGED <<lease, pending, beat, beating, replies, history, missed>>
      BY <1>4 DEF StreamOpen
    <2>2. NoPending \in Token
      BY DEF NoPending, Token, NoToken
    <2>3. [phase |-> "opening", node |-> n, gone |-> FALSE] \in ConnRecord
      BY DEF ConnRecord, Phases
    <2>4. conn' \in [Conns -> ConnRecord]
          /\ \A b \in Conns : conn'[b].phase # "unused" => conn'[b].node \in Nodes
      BY <2>1, <2>3 DEF StateType
    <2> QED  BY <2>1, <2>2, <2>4 DEF StateType
  <1> QED  BY <1>1, <1>2, <1>3, <1>4 DEF StreamStep

\* The answer to an open that a node takes, or loses, is the one its stream waits for.
LEMMA OpenIsAwaited ==
  ASSUME StateType, OpensAreAwaited, NEW n \in Nodes, replies[n] # <<>>,
         Head(replies[n]).kind = "open"
  PROVE  LET r == Head(replies[n]) IN
         /\ r = replies[n][1] /\ 1 \in 1..Len(replies[n]) /\ r \in Reply /\ r.conn \in Conns
         /\ conn[r.conn].phase = "opened" /\ conn[r.conn].node = n
         /\ \A l \in 1..Len(replies[n]) :
              replies[n][l].kind = "open" /\ replies[n][l].conn = r.conn => l = 1
  <1> DEFINE r == Head(replies[n])
  <1>1. r = replies[n][1] /\ 1 \in 1..Len(replies[n]) /\ r \in Reply
    <2>1. replies \in [Nodes -> Seq(Reply)] /\ replies[n] \in Seq(Reply)
      BY DEF StateType
    <2> QED  BY <2>1, Popped
  <1>2. r.conn \in Conns
    BY <1>1 DEF Reply
  <1>3. LET q == replies[n][1] IN
        /\ conn[q.conn].phase = "opened" /\ conn[q.conn].node = n
        /\ \A l \in 1..Len(replies[n]) :
             replies[n][l].kind = "open" /\ replies[n][l].conn = q.conn => l = 1
    BY <1>1 DEF OpensAreAwaited
  <1> QED  BY <1>1, <1>2, <1>3

\* What the taking of one is for the variables of the types.
LEMMA OpenReplyIs ==
  ASSUME StateType, OpensAreAwaited, NEW n \in Nodes, OpenReply(n)
  PROVE  LET r == Head(replies[n]) IN
         /\ replies[n] # <<>> /\ r.kind = "open" /\ r.conn \in Conns
         /\ conn[r.conn].phase = "opened" /\ conn[r.conn].node = n
         /\ conn' = [conn EXCEPT ![r.conn].phase = "open"]
         /\ beat' = [beat EXCEPT ![r.conn] = BeatEvery]
         /\ replies' = [replies EXCEPT ![n] = Tail(@)]
         /\ Transition(n, r)
         /\ UNCHANGED <<lease, pending, beating, timer, told, history, missed>>
  <1>1. replies[n] # <<>> /\ Head(replies[n]).kind = "open"
    BY DEF OpenReply
  <1> QED  BY <1>1, OpenIsAwaited DEF OpenReply

LEMMA AnswerLostIs ==
  ASSUME StateType, OpensAreAwaited, NEW n \in Nodes, AnswerLost(n)
  PROVE  LET r == Head(replies[n]) IN
         /\ replies[n] # <<>>
         /\ \/ /\ r.kind = "open" /\ r.conn \in Conns /\ conn[r.conn].phase = "opened"
               /\ conn' = [conn EXCEPT ![r.conn].phase = "unleased"]
            \/ r.kind # "open" /\ conn' = conn
         /\ replies' = [replies EXCEPT ![n] = Tail(@)]
         /\ UNCHANGED <<lease, pending, beat, beating, timer, told, announcing, missed>>
  BY OpenIsAwaited DEF AnswerLost

LEMMA NodeTypes ==
  ASSUME StateType, OpensAreAwaited, NEW n \in Nodes, NodeStep(n)
  PROVE  StateType'
  <1>1. CASE OpenReply(n)
    <2>1. PICK r : r = Head(replies[n])
      OBVIOUS
    <2>2. /\ replies[n] # <<>> /\ r.conn \in Conns /\ conn[r.conn].phase = "opened"
          /\ conn' = [conn EXCEPT ![r.conn].phase = "open"]
          /\ beat' = [beat EXCEPT ![r.conn] = BeatEvery]
          /\ replies' = [replies EXCEPT ![n] = Tail(@)]
          /\ UNCHANGED <<lease, pending, beating, timer, told, history, missed>>
      BY <1>1, <2>1, OpenReplyIs
    <2>3. conn' \in [Conns -> ConnRecord]
          /\ \A b \in Conns : conn'[b].phase # "unused" => conn'[b].node \in Nodes
      BY <2>2 DEF StateType, ConnRecord, Phases
    <2>4. replies' \in [Nodes -> Seq(Reply)]
      BY <2>2, Taken DEF StateType
    <2>5. beat' \in [Conns -> Int]
      BY <2>2, Sizes DEF StateType
    <2> QED  BY <2>2, <2>3, <2>4, <2>5 DEF StateType
  <1>2. CASE CloseReply(n)
    <2>1. /\ replies[n] # <<>> /\ Head(replies[n]).kind = "close"
          /\ timer' = IF Head(replies[n]).result = NoToken THEN timer
                      ELSE [timer EXCEPT ![n] = [token |-> Head(replies[n]).result,
                                                 left |-> OfflineDelay]]
          /\ replies' = [replies EXCEPT ![n] = Tail(@)]
          /\ UNCHANGED <<lease, pending, conn, beat, beating, history, missed>>
      BY <1>2 DEF CloseReply
    <2>2. replies' \in [Nodes -> Seq(Reply)] /\ Head(replies[n]) \in Reply
      BY <2>1, Taken DEF StateType
    <2>3. Head(replies[n]).result \in Conns \union {NoToken}
      BY <2>1, <2>2 DEF Reply
    <2>4. timer' \in [Nodes -> Token]
      <3>1. [token |-> Head(replies[n]).result, left |-> OfflineDelay] \in Token
        BY <2>3, Sizes DEF Token
      <3> QED  BY <2>1, <3>1 DEF StateType
    <2> QED  BY <2>1, <2>2, <2>4 DEF StateType
  <1>3. CASE FinalizeReply(n)
    <2>1. /\ replies[n] # <<>> /\ replies' = [replies EXCEPT ![n] = Tail(@)]
          /\ UNCHANGED <<lease, pending, conn, beat, beating, timer, history, missed>>
      BY <1>3 DEF FinalizeReply
    <2>2. replies' \in [Nodes -> Seq(Reply)]
      BY <2>1, Taken DEF StateType
    <2> QED  BY <2>1, <2>2 DEF StateType
  <1>4. CASE TimerFires(n)
    <2>1. NoPending \in Token
      BY DEF NoPending, Token, NoToken
    <2>2. /\ timer' = [timer EXCEPT ![n] = NoPending] /\ timer[n].token # NoToken
          /\ UNCHANGED <<lease, conn, beat, beating, missed>>
      BY <1>4 DEF TimerFires
    <2>3. timer' \in [Nodes -> Token] /\ timer[n].token \in Conns
      BY <2>1, <2>2 DEF StateType, Token
    <2>4. pending' \in Token /\ history' \in Past /\ replies' \in [Nodes -> Seq(Reply)]
      <3>1. CASE Confirms(timer[n].token)
        <4> DEFINE r == [kind |-> "finalize", conn |-> timer[n].token, result |-> "offline",
                         no |-> history.count + 1]
        <4>1. pending' = NoPending /\ history' = Decide("offline")
              /\ replies' = [replies EXCEPT ![n] = Append(@, r)]
          BY <1>4, <3>1 DEF TimerFires, Answer
        <4>2. r \in Reply
          BY <2>3, Counted DEF StateType, Reply
        <4> HIDE DEF r
        <4>3. replies' \in [Nodes -> Seq(Reply)]
          BY <4>1, <4>2, Answered DEF StateType
        <4>4. Decide("offline") \in Past
          BY Decided DEF StateType, Decisions
        <4> QED  BY <2>1, <4>1, <4>3, <4>4
      <3>2. CASE ~Confirms(timer[n].token)
        BY <1>4, <3>2 DEF TimerFires, StateType
      <3> QED  BY <3>1, <3>2
    <2> QED  BY <2>2, <2>3, <2>4 DEF StateType
  <1>5. CASE Crash(n)
    <2>1. NoPending \in Token
      BY DEF NoPending, Token, NoToken
    <2>2. /\ conn' = [c \in Conns |->
               IF conn[c].node = n THEN [conn[c] EXCEPT !.phase = "dead"] ELSE conn[c]]
          /\ timer' = [timer EXCEPT ![n] = NoPending]
          /\ replies' = [replies EXCEPT ![n] = <<>>]
          /\ beating' = {c \in beating : conn[c].node # n}
          /\ UNCHANGED <<lease, pending, beat, missed>>
      BY <1>5 DEF Crash
    <2>3. history' \in Past
      BY <1>5, MishapsCount DEF Loses
    <2>4. replies' \in [Nodes -> Seq(Reply)]
      BY <2>2, EmptySeq DEF StateType
    <2>5. timer' \in [Nodes -> Token] /\ beating' \in SUBSET Conns
      BY <2>1, <2>2 DEF StateType
    <2>6. conn' \in [Conns -> ConnRecord]
          /\ \A b \in Conns : conn'[b].phase # "unused" => conn'[b].node \in Nodes
      <3>1. ASSUME NEW b \in Conns
            PROVE  /\ conn'[b] \in ConnRecord
                   /\ conn'[b].phase # "unused" => conn'[b].node \in Nodes
        BY <2>2 DEF StateType, ConnRecord, Phases
      <3> QED  BY <2>2, <3>1
    <2> QED  BY <2>2, <2>3, <2>4, <2>5, <2>6 DEF StateType
  <1>6. CASE FinalizeFails(n)
    <2>1. NoPending \in Token
      BY DEF NoPending, Token, NoToken
    <2>2. /\ timer' = [timer EXCEPT ![n] = NoPending]
          /\ UNCHANGED <<lease, pending, conn, beat, beating, replies, missed>>
      BY <1>6 DEF FinalizeFails
    <2>3. history' \in Past
      BY <1>6, MishapsCount DEF Fails
    <2> QED  BY <2>1, <2>2, <2>3 DEF StateType
  <1>7. CASE AnswerLost(n)
    <2>1. PICK r : r = Head(replies[n])
      OBVIOUS
    <2>2. /\ replies[n] # <<>>
          /\ \/ /\ r.conn \in Conns /\ conn[r.conn].phase = "opened"
                /\ conn' = [conn EXCEPT ![r.conn].phase = "unleased"]
             \/ conn' = conn
          /\ replies' = [replies EXCEPT ![n] = Tail(@)]
          /\ UNCHANGED <<lease, pending, beat, beating, timer, missed>>
      BY <1>7, <2>1, AnswerLostIs
    <2>3. conn' \in [Conns -> ConnRecord]
          /\ \A b \in Conns : conn'[b].phase # "unused" => conn'[b].node \in Nodes
      <3>1. CASE conn' = conn
        BY <3>1 DEF StateType
      <3>2. ASSUME NEW c \in Conns, c = r.conn, conn[c].phase = "opened",
                   conn' = [conn EXCEPT ![c].phase = "unleased"]
            PROVE  /\ conn' \in [Conns -> ConnRecord]
                   /\ \A b \in Conns : conn'[b].phase # "unused" => conn'[b].node \in Nodes
        BY <3>2 DEF StateType, ConnRecord, Phases
      <3> QED  BY <2>2, <3>1, <3>2
    <2>4. replies' \in [Nodes -> Seq(Reply)] /\ history' \in Past
      BY <1>7, <2>2, Taken, MishapsCount DEF StateType, Loses
    <2> QED  BY <2>2, <2>3, <2>4 DEF StateType
  <1> QED  BY <1>1, <1>2, <1>3, <1>4, <1>5, <1>6, <1>7 DEF NodeStep, Replied, Confirming

LEMMA Earlier ==
  ASSUME NEW p \in Token
  PROVE  LET q == [p EXCEPT !.left = @ - 1] IN
         /\ q \in Token /\ q.token = p.token /\ q.left = p.left - 1
         /\ Aged(p) = IF p.left > 1 THEN q ELSE NoPending
  <1>1. p.left \in Int
    BY DEF Token
  <1>2. PICK l \in Int : l = p.left - 1
    BY <1>1
  <1>3. LET q == [p EXCEPT !.left = l] IN q \in Token /\ q.token = p.token /\ q.left = l
    BY DEF Token
  <1> QED  BY <1>2, <1>3 DEF Aged

LEMMA OtherTypes ==
  ASSUME StateType, Tick \/ \E i \in DOMAIN announcing : Announce(i)
  PROVE  StateType'
  <1>1. ASSUME NEW i \in DOMAIN announcing, Announce(i)
        PROVE  StateType'
    <2>1. /\ history' = [history EXCEPT !.crossed = @ \/ announcing[i].no < told.no]
          /\ UNCHANGED <<lease, pending, conn, beat, beating, timer, replies, missed>>
      BY <1>1 DEF Announce
    <2>2. PICK b \in BOOLEAN : b = (history.crossed \/ announcing[i].no < told.no)
      OBVIOUS
    <2>3. history' = [history EXCEPT !.crossed = b]
      BY <2>1, <2>2
    <2>4. history' \in Past
      BY <2>3 DEF StateType, Past
    <2> QED  BY <2>1, <2>4 DEF StateType
  <1>2. CASE Tick
    <2>1. /\ lease' = [c \in Conns |-> Less(lease[c])]
          /\ pending' = Aged(pending)
          /\ beat' = [c \in Conns |-> IF conn[c].phase = "open" THEN beat[c] - 1 ELSE 0]
          /\ timer' = [n \in Nodes |->
               IF timer[n].token = NoToken THEN NoPending ELSE [timer[n] EXCEPT !.left = @ - 1]]
          /\ history' = [history EXCEPT !.away =
                          IF Live = {} THEN Capped(@, OfflineDelay) ELSE 0]
          /\ UNCHANGED <<conn, beating, replies, missed>>
      BY <1>2 DEF Tick
    <2>2. NoPending \in Token
      BY DEF NoPending, Token, NoToken
    <2>3. lease' \in [Conns -> Nat] /\ beat' \in [Conns -> Int]
      BY <2>1 DEF StateType, Less
    <2>4. pending' \in Token
      BY <2>1, <2>2, Earlier DEF StateType
    <2>5. timer' \in [Nodes -> Token]
      <3>1. \A n \in Nodes : timer[n] \in Token
        BY DEF StateType
      <3>2. \A n \in Nodes : [timer[n] EXCEPT !.left = @ - 1] \in Token
        BY <3>1, Earlier
      <3> QED  BY <2>1, <2>2, <3>2
    <2>6. PICK a \in Nat : a = IF Live = {} THEN Capped(history.away, OfflineDelay) ELSE 0
      BY Sizes DEF StateType, Past, Capped
    <2>7. history' = [history EXCEPT !.away = a]
      BY <2>1, <2>6
    <2>8. history' \in Past
      BY <2>7 DEF StateType, Past
    <2> QED  BY <2>1, <2>3, <2>4, <2>5, <2>8 DEF StateType
  <1> QED  BY <1>1, <1>2
-----------------------------------------------------------------------------
(* Leases.                                                                  *)

\* The answers change otherwise than by one to an open.
OtherAnswers ==
  \/ replies' = replies
  \/ \E n \in Nodes, r \in Reply :
       r.kind # "open" /\ replies' = [replies EXCEPT ![n] = Append(@, r)]
  \/ \E n \in Nodes : /\ replies[n] # <<>> /\ Head(replies[n]).kind # "open"
                      /\ replies' = [replies EXCEPT ![n] = Tail(@)]

\* And the streams that wait for one are the same.
SameWait ==
  \A c \in Conns :
    /\ conn'[c].phase = "opened" <=> conn[c].phase = "opened"
    /\ conn[c].phase = "opened" => conn'[c].node = conn[c].node /\ lease'[c] = lease[c]

LEMMA OtherOpens ==
  ASSUME StateType, OpensAreAwaited, OpensAreAnswered, OtherAnswers, SameWait
  PROVE  OpensAreAwaited' /\ OpensAreAnswered'
  <1>0. /\ replies \in [Nodes -> Seq(Reply)]
        /\ \A c \in Conns : conn[c].phase = "opened" => conn[c].node \in Nodes
        /\ \A n \in Nodes : \A k \in 1..Len(replies[n]) : replies[n][k].conn \in Conns
    <2>1. replies \in [Nodes -> Seq(Reply)]
      BY DEF StateType
    <2>2. \A n \in Nodes : \A k \in 1..Len(replies[n]) : replies[n][k] \in Reply
      BY <2>1, ElementOfSeq
    <2>3. \A r \in Reply : r.conn \in Conns
      BY DEF Reply
    <2> QED  BY <2>1, <2>2, <2>3 DEF StateType
  <1>1. CASE replies' = replies
    BY <1>0, <1>1 DEF OpensAreAwaited, OpensAreAnswered, SameWait
  <1>2. ASSUME NEW n \in Nodes, NEW r \in Reply, r.kind # "open",
               replies' = [replies EXCEPT ![n] = Append(@, r)]
        PROVE  OpensAreAwaited' /\ OpensAreAnswered'
    <2>1. /\ \A m \in Nodes : Len(replies[m]) \in Nat /\ Len(replies'[m]) \in Nat
          /\ \A m \in Nodes \ {n} : replies'[m] = replies[m]
          /\ Len(replies'[n]) = Len(replies[n]) + 1
          /\ \A k \in 1..Len(replies[n]) : replies'[n][k] = replies[n][k]
          /\ replies'[n][Len(replies[n]) + 1] = r
      BY <1>0, <1>2, Answered
    <2>2. \A m \in Nodes : \A k \in 1..Len(replies'[m]) : replies'[m][k].kind = "open" =>
            k \in 1..Len(replies[m]) /\ replies'[m][k] = replies[m][k]
      BY <1>2, <2>1
    <2>3. \A m \in Nodes : \A k \in 1..Len(replies[m]) :
            k \in 1..Len(replies'[m]) /\ replies'[m][k] = replies[m][k]
      BY <2>1
    <2>4. OpensAreAwaited'
      <3>1. ASSUME NEW m \in Nodes, NEW k \in 1..Len(replies'[m]), replies'[m][k].kind = "open"
            PROVE  LET q == replies'[m][k] IN
                   /\ conn'[q.conn].phase = "opened" /\ conn'[q.conn].node = m
                   /\ \A l \in 1..Len(replies'[m]) :
                        replies'[m][l].kind = "open" /\ replies'[m][l].conn = q.conn => l = k
        <4>1. PICK q : q = replies[m][k]
          OBVIOUS
        <4>2. k \in 1..Len(replies[m]) /\ replies'[m][k] = q /\ q.kind = "open"
          BY <2>2, <3>1, <4>1
        <4>3. /\ conn[q.conn].phase = "opened" /\ conn[q.conn].node = m /\ q.conn \in Conns
              /\ \A l \in 1..Len(replies[m]) :
                   replies[m][l].kind = "open" /\ replies[m][l].conn = q.conn => l = k
          BY <1>0, <4>1, <4>2 DEF OpensAreAwaited
        <4>4. conn'[q.conn].phase = "opened" /\ conn'[q.conn].node = m
          BY <4>3 DEF SameWait
        <4> QED  BY <2>2, <4>2, <4>3, <4>4
      <3> QED  BY <3>1 DEF OpensAreAwaited
    <2>5. OpensAreAnswered'
      <3>1. ASSUME NEW c \in Conns, conn'[c].phase = "opened"
            PROVE  /\ lease'[c] = LeaseTtl
                   /\ \E k \in 1..Len(replies'[conn'[c].node]) :
                        LET q == replies'[conn'[c].node][k] IN q.kind = "open" /\ q.conn = c
        <4>1. /\ conn[c].phase = "opened" /\ lease'[c] = LeaseTtl /\ conn'[c].node = conn[c].node
              /\ conn[c].node \in Nodes
          BY <1>0, <3>1 DEF SameWait, OpensAreAnswered
        <4>2. PICK m \in Nodes : m = conn[c].node
          BY <4>1
        <4>3. \E k \in 1..Len(replies[m]) : replies[m][k].kind = "open" /\ replies[m][k].conn = c
          BY <4>1, <4>2 DEF OpensAreAnswered
        <4> QED  BY <2>3, <4>1, <4>2, <4>3
      <3> QED  BY <3>1 DEF OpensAreAnswered
    <2> QED  BY <2>4, <2>5
  <1>3. ASSUME NEW n \in Nodes, replies[n] # <<>>, Head(replies[n]).kind # "open",
               replies' = [replies EXCEPT ![n] = Tail(@)]
        PROVE  OpensAreAwaited' /\ OpensAreAnswered'
    <2>1. /\ \A m \in Nodes : Len(replies[m]) \in Nat /\ Len(replies'[m]) \in Nat
          /\ \A m \in Nodes \ {n} : replies'[m] = replies[m]
          /\ Head(replies[n]) = replies[n][1]
          /\ \A k \in 1..Len(replies'[n]) :
               k + 1 \in 1..Len(replies[n]) /\ replies'[n][k] = replies[n][k + 1]
          /\ \A k \in 1..Len(replies[n]) : k # 1 =>
               k - 1 \in 1..Len(replies'[n]) /\ replies'[n][k - 1] = replies[n][k]
      BY <1>0, <1>3, Taken
    <2>2. ASSUME NEW m \in Nodes, NEW k \in 1..Len(replies'[m]), replies'[m][k].kind = "open"
          PROVE  LET r == replies'[m][k] IN
                 /\ conn'[r.conn].phase = "opened" /\ conn'[r.conn].node = m
                 /\ \A l \in 1..Len(replies'[m]) :
                      replies'[m][l].kind = "open" /\ replies'[m][l].conn = r.conn => l = k
      <3>1. CASE m # n
        <4>1. PICK q : q = replies[m][k]
          OBVIOUS
        <4>2. replies'[m] = replies[m] /\ q.kind = "open"
          BY <2>1, <2>2, <3>1, <4>1
        <4>3. /\ conn[q.conn].phase = "opened" /\ conn[q.conn].node = m /\ q.conn \in Conns
              /\ \A l \in 1..Len(replies[m]) :
                   replies[m][l].kind = "open" /\ replies[m][l].conn = q.conn => l = k
          BY <1>0, <4>1, <4>2 DEF OpensAreAwaited
        <4>4. conn'[q.conn].phase = "opened" /\ conn'[q.conn].node = m
          BY <4>3 DEF SameWait
        <4> QED  BY <4>1, <4>2, <4>3, <4>4
      <3>2. CASE m = n
        <4>1. PICK j \in 1..Len(replies[n]) : j = k + 1 /\ replies'[n][k] = replies[n][j]
          BY <2>1, <3>2
        <4>2. LET r == replies[n][j] IN
              /\ conn[r.conn].phase = "opened" /\ conn[r.conn].node = n /\ r.conn \in Conns
              /\ \A l \in 1..Len(replies[n]) :
                   replies[n][l].kind = "open" /\ replies[n][l].conn = r.conn => l = j
          BY <1>0, <2>2, <3>2, <4>1 DEF OpensAreAwaited
        <4>3. \A l \in 1..Len(replies'[n]) :
                replies'[n][l].kind = "open" /\ replies'[n][l].conn = replies[n][j].conn => l = k
          <5>1. SUFFICES ASSUME NEW l \in 1..Len(replies'[n]), replies'[n][l].kind = "open",
                                replies'[n][l].conn = replies[n][j].conn
                         PROVE  l = k
            OBVIOUS
          <5>2. l + 1 \in 1..Len(replies[n]) /\ replies'[n][l] = replies[n][l + 1]
            BY <2>1
          <5>3. l + 1 = j
            BY <4>2, <5>1, <5>2
          <5> QED  BY <2>1, <3>2, <4>1, <5>3
        <4> QED  BY <3>2, <4>1, <4>2, <4>3 DEF SameWait
      <3> QED  BY <3>1, <3>2
    <2>3. ASSUME NEW c \in Conns, conn'[c].phase = "opened"
          PROVE  /\ lease'[c] = LeaseTtl
                 /\ \E k \in 1..Len(replies'[conn'[c].node]) :
                      LET r == replies'[conn'[c].node][k] IN r.kind = "open" /\ r.conn = c
      <3>1. /\ conn[c].phase = "opened" /\ lease'[c] = LeaseTtl /\ conn'[c].node = conn[c].node
            /\ conn[c].node \in Nodes
        BY <1>0, <2>3 DEF SameWait, OpensAreAnswered
      <3>2. PICK m \in Nodes : m = conn[c].node
        BY <3>1
      <3>3. PICK k \in 1..Len(replies[m]) : replies[m][k].kind = "open" /\ replies[m][k].conn = c
        BY <3>1, <3>2 DEF OpensAreAnswered
      <3>4. CASE m # n
        BY <2>1, <3>1, <3>2, <3>3, <3>4
      <3>5. CASE m = n
        <4>1. k # 1
          BY <1>3, <2>1, <3>3, <3>5
        <4>2. k - 1 \in 1..Len(replies'[n]) /\ replies'[n][k - 1] = replies[n][k]
          BY <2>1, <3>3, <3>5, <4>1
        <4> QED  BY <3>1, <3>2, <3>3, <3>5, <4>2
      <3> QED  BY <3>4, <3>5
    <2> QED  BY <2>2, <2>3 DEF OpensAreAwaited, OpensAreAnswered
  <1> QED  BY <1>1, <1>2, <1>3 DEF OtherAnswers

\* Streams that stay open keep their leases and heartbeats, and streams that have
\* not begun to send them still have not.
SameBeats ==
  \A c \in Conns :
    /\ conn'[c].phase = "open" =>
         /\ conn[c].phase = "open" /\ beat'[c] = beat[c] /\ lease'[c] = lease[c]
         /\ (c \in beating) = (c \in beating') /\ missed'[c] = missed[c]
    /\ conn'[c].phase \in {"unused", "opening", "opened"} =>
         /\ Early(c) /\ missed'[c] = missed[c]
         /\ c \in beating' => c \in beating

LEMMA OtherBeats ==
  ASSUME BeatsInTime, NoBeatYet, SameBeats
  PROVE  BeatsInTime' /\ NoBeatYet'
  <1>1. BeatsInTime'
    <2>1. SUFFICES ASSUME NEW c \in Conns, conn'[c].phase = "open"
                   PROVE  /\ -MaxLag <= beat'[c] /\ beat'[c] <= BeatEvery
                          /\ Outlives(missed'[c]) =>
                               Remains(lease'[c], beat'[c], c \in beating', missed'[c])
      BY DEF BeatsInTime, Outlives, Remains, Spell
    <2>2. /\ conn[c].phase = "open" /\ beat'[c] = beat[c] /\ lease'[c] = lease[c]
          /\ (c \in beating) = (c \in beating') /\ missed'[c] = missed[c]
      BY <2>1 DEF SameBeats
    <2> QED  BY <2>2 DEF BeatsInTime
  <1>2. NoBeatYet'
    BY DEF NoBeatYet, SameBeats, Early
  <1> QED  BY <1>1, <1>2

LEMMA StoreOpenLeases ==
  ASSUME StateType, LeaseInv, NEW c \in Conns, StoreOpen(c)
  PROVE  LeaseInv'
  <1>0. PICK n \in Nodes : n = conn[c].node
    BY DEF StoreOpen, StateType
  <1> DEFINE r == [kind |-> "open", conn |-> c, result |-> OpenResult, no |-> history.count + 1]
  <1>1. /\ conn[c].phase = "opening"
        /\ lease' = [lease EXCEPT ![c] = LeaseTtl] /\ conn' = [conn EXCEPT ![c].phase = "opened"]
        /\ replies' = [replies EXCEPT ![n] = Append(@, r)]
        /\ UNCHANGED <<beat, beating, missed>>
    BY <1>0 DEF StoreOpen, Answer
  <1>2. r \in Reply /\ r.kind = "open" /\ r.conn = c
    BY OpenIs, Counted DEF Reply, StateType
  <1> HIDE DEF r
  <1>3. /\ \A m \in Nodes : Len(replies[m]) \in Nat /\ Len(replies'[m]) \in Nat
        /\ \A m \in Nodes \ {n} : replies'[m] = replies[m]
        /\ Len(replies'[n]) = Len(replies[n]) + 1
        /\ \A k \in 1..Len(replies[n]) : replies'[n][k] = replies[n][k]
        /\ replies'[n][Len(replies[n]) + 1] = r
    BY <1>1, <1>2, Answered DEF StateType
  <1>4. /\ conn'[c].phase = "opened" /\ conn'[c].node = n /\ lease'[c] = LeaseTtl
        /\ \A b \in Conns \ {c} : conn'[b] = conn[b] /\ lease'[b] = lease[b]
    BY <1>0, <1>1 DEF StateType, ConnRecord
  <1>5. \A m \in Nodes : \A k \in 1..Len(replies[m]) :
          /\ k \in 1..Len(replies'[m]) /\ replies'[m][k] = replies[m][k]
          /\ replies[m][k].conn \in Conns
    <2>1. \A m \in Nodes : \A k \in 1..Len(replies[m]) : replies[m][k] \in Reply
      BY ElementOfSeq DEF StateType
    <2>2. \A q \in Reply : q.conn \in Conns
      BY DEF Reply
    <2> QED  BY <1>3, <2>1, <2>2
  \* No answer is on its way to a stream whose call has not been executed.
  <1>6. \A m \in Nodes : \A k \in 1..Len(replies[m]) :
          replies[m][k].kind = "open" => replies[m][k].conn # c
    BY <1>1 DEF LeaseInv, OpensAreAwaited
  <1>7. \A m \in Nodes : \A k \in 1..Len(replies'[m]) :
          \/ k \in 1..Len(replies[m]) /\ replies'[m][k] = replies[m][k]
          \/ m = n /\ k = Len(replies[n]) + 1 /\ replies'[m][k] = r
    BY <1>3
  <1>8. OpensAreAwaited'
    <2>1. ASSUME NEW m \in Nodes, NEW k \in 1..Len(replies'[m]), replies'[m][k].kind = "open"
          PROVE  LET q == replies'[m][k] IN
                 /\ conn'[q.conn].phase = "opened" /\ conn'[q.conn].node = m
                 /\ \A l \in 1..Len(replies'[m]) :
                      replies'[m][l].kind = "open" /\ replies'[m][l].conn = q.conn => l = k
      <3>1. CASE k \in 1..Len(replies[m]) /\ replies'[m][k] = replies[m][k]
        BY <1>2, <1>4, <1>5, <1>6, <1>7, <2>1, <3>1 DEF LeaseInv, OpensAreAwaited
      <3>2. CASE m = n /\ k = Len(replies[n]) + 1 /\ replies'[m][k] = r
        BY <1>2, <1>4, <1>6, <1>7, <3>2
      <3> QED  BY <1>7, <3>1, <3>2
    <2> QED  BY <2>1 DEF OpensAreAwaited
  <1>9. OpensAreAnswered'
    <2>1. ASSUME NEW b \in Conns, conn'[b].phase = "opened"
          PROVE  /\ lease'[b] = LeaseTtl
                 /\ \E k \in 1..Len(replies'[conn'[b].node]) :
                      LET q == replies'[conn'[b].node][k] IN q.kind = "open" /\ q.conn = b
      <3>1. CASE b = c
        <4>1. Len(replies[n]) + 1 \in 1..Len(replies'[n])
          BY <1>3
        <4> QED  BY <1>2, <1>3, <1>4, <3>1, <4>1
      <3>2. CASE b # c
        <4>1. conn'[b] = conn[b] /\ lease'[b] = lease[b] /\ conn[b].phase = "opened"
          BY <1>4, <2>1, <3>2
        <4>2. PICK m \in Nodes : m = conn[b].node
          BY <4>1 DEF StateType
        <4>3. /\ lease[b] = LeaseTtl
              /\ \E k \in 1..Len(replies[m]) :
                   replies[m][k].kind = "open" /\ replies[m][k].conn = b
          BY <4>1, <4>2 DEF LeaseInv, OpensAreAnswered
        <4> QED  BY <1>5, <4>1, <4>2, <4>3
      <3> QED  BY <3>1, <3>2
    <2> QED  BY <2>1 DEF OpensAreAnswered
  <1>10. SameBeats
    BY <1>1, <1>4 DEF SameBeats, Early
  <1> QED  BY <1>8, <1>9, <1>10, OtherBeats DEF LeaseInv

\* The answer to an open is gone, and its stream no longer waits for it.
LEMMA OpenTaken ==
  ASSUME StateType, OpensAreAwaited, OpensAreAnswered, NEW n \in Nodes, replies[n] # <<>>,
         Head(replies[n]).kind = "open", NEW p \in Phases \ {"opened"},
         conn' = [conn EXCEPT ![Head(replies[n]).conn].phase = p], UNCHANGED lease,
         replies' = [replies EXCEPT ![n] = Tail(@)]
  PROVE  OpensAreAwaited' /\ OpensAreAnswered'
  <1>0. OpensAreAwaited /\ OpensAreAnswered
    OBVIOUS
  <1>1. PICK r : r = Head(replies[n])
    OBVIOUS
  <1>2. /\ replies[n] # <<>> /\ r = replies[n][1] /\ 1 \in 1..Len(replies[n])
        /\ r \in Reply /\ r.kind = "open" /\ r.conn \in Conns
        /\ conn[r.conn].phase = "opened" /\ conn[r.conn].node = n
        /\ \A l \in 1..Len(replies[n]) :
             replies[n][l].kind = "open" /\ replies[n][l].conn = r.conn => l = 1
        /\ conn' = [conn EXCEPT ![r.conn].phase = p] /\ UNCHANGED lease
        /\ replies' = [replies EXCEPT ![n] = Tail(@)]
    BY <1>1, OpenIsAwaited
  <1>3. PICK c \in Conns : c = r.conn
    BY <1>2
  <1>4. conn'[c].phase = p /\ \A b \in Conns \ {c} : conn'[b] = conn[b]
    BY <1>2, <1>3 DEF StateType, ConnRecord
  <1>5. /\ \A m \in Nodes \ {n} : replies'[m] = replies[m]
        /\ \A m \in Nodes : Len(replies[m]) \in Nat /\ Len(replies'[m]) \in Nat
        /\ \A k \in 1..Len(replies'[n]) :
             k + 1 \in 1..Len(replies[n]) /\ replies'[n][k] = replies[n][k + 1]
        /\ \A k \in 1..Len(replies[n]) : k # 1 =>
             k - 1 \in 1..Len(replies'[n]) /\ replies'[n][k - 1] = replies[n][k]
    BY <1>2, Taken DEF StateType
  <1>6. OpensAreAwaited'
    <2>1. ASSUME NEW m \in Nodes, NEW k \in 1..Len(replies'[m]), replies'[m][k].kind = "open"
          PROVE  LET q == replies'[m][k] IN
                 /\ conn'[q.conn].phase = "opened" /\ conn'[q.conn].node = m
                 /\ \A l \in 1..Len(replies'[m]) :
                      replies'[m][l].kind = "open" /\ replies'[m][l].conn = q.conn => l = k
      <3>1. CASE m # n
        <4>1. PICK q : q = replies[m][k]
          OBVIOUS
        <4>2. replies'[m] = replies[m] /\ q.kind = "open"
          BY <1>5, <2>1, <3>1, <4>1
        <4>3. /\ conn[q.conn].phase = "opened" /\ conn[q.conn].node = m
              /\ \A l \in 1..Len(replies[m]) :
                   replies[m][l].kind = "open" /\ replies[m][l].conn = q.conn => l = k
          BY <1>0, <4>1, <4>2 DEF OpensAreAwaited
        <4>4. q.conn # c /\ q.conn \in Conns
          <5>1. replies[m][k] \in Reply
            BY <4>2, ElementOfSeq DEF StateType
          <5> QED  BY <1>2, <1>3, <3>1, <4>1, <4>3, <5>1 DEF Reply
        <4> QED  BY <1>4, <4>1, <4>2, <4>3, <4>4
      <3>2. CASE m = n
        <4>1. PICK j \in 1..Len(replies[n]) : j = k + 1 /\ replies'[n][k] = replies[n][j]
          BY <1>5, <3>2
        <4>2. PICK q : q = replies[n][j]
          OBVIOUS
        <4>3. /\ conn[q.conn].phase = "opened" /\ conn[q.conn].node = n
              /\ \A l \in 1..Len(replies[n]) :
                   replies[n][l].kind = "open" /\ replies[n][l].conn = q.conn => l = j
          BY <1>0, <2>1, <3>2, <4>1, <4>2 DEF OpensAreAwaited
        <4>4. \A l \in 1..Len(replies'[n]) :
                replies'[n][l].kind = "open" /\ replies'[n][l].conn = q.conn => l = k
          <5>1. SUFFICES ASSUME NEW l \in 1..Len(replies'[n]), replies'[n][l].kind = "open",
                                replies'[n][l].conn = q.conn
                         PROVE  l = k
            OBVIOUS
          <5>2. l + 1 \in 1..Len(replies[n]) /\ replies'[n][l] = replies[n][l + 1]
            BY <1>5
          <5>3. l + 1 = j
            BY <4>3, <5>1, <5>2
          <5> QED  BY <1>5, <3>2, <4>1, <5>3
        <4>5. q.conn # c /\ q.conn \in Conns
          <5>1. replies[n][j] \in Reply /\ j # 1
            BY <1>5, <3>2, <4>1, ElementOfSeq DEF StateType
          <5>2. q.kind = "open"
            BY <2>1, <3>2, <4>1, <4>2
          <5> QED  BY <1>2, <1>3, <4>2, <5>1, <5>2 DEF Reply
        <4> QED  BY <1>4, <3>2, <4>1, <4>2, <4>3, <4>4, <4>5
      <3> QED  BY <3>1, <3>2
    <2> QED  BY <2>1 DEF OpensAreAwaited
  <1>7. OpensAreAnswered'
    <2>1. ASSUME NEW b \in Conns, conn'[b].phase = "opened"
          PROVE  /\ lease'[b] = LeaseTtl
                 /\ \E k \in 1..Len(replies'[conn'[b].node]) :
                      LET q == replies'[conn'[b].node][k] IN q.kind = "open" /\ q.conn = b
      <3>1. b # c /\ conn'[b] = conn[b] /\ lease'[b] = lease[b] /\ conn[b].phase = "opened"
        BY <1>2, <1>4, <2>1
      <3>2. PICK m \in Nodes : m = conn[b].node
        BY <3>1 DEF StateType
      <3>3. PICK k \in 1..Len(replies[m]) : replies[m][k].kind = "open" /\ replies[m][k].conn = b
        BY <1>0, <3>1, <3>2 DEF OpensAreAnswered
      <3>4. lease[b] = LeaseTtl
        BY <1>0, <3>1 DEF OpensAreAnswered
      <3>5. CASE m # n
        <4>1. conn'[b].node = m /\ replies'[m] = replies[m]
          BY <1>5, <3>1, <3>2, <3>5
        <4> QED  BY <3>1, <3>3, <3>4, <4>1
      <3>6. CASE m = n
        <4>1. k # 1
          BY <1>2, <1>3, <3>1, <3>3, <3>6
        <4>2. k - 1 \in 1..Len(replies'[n]) /\ replies'[n][k - 1] = replies[n][k]
          BY <1>5, <3>3, <3>6, <4>1
        <4> QED  BY <3>1, <3>2, <3>3, <3>4, <3>6, <4>2
      <3> QED  BY <3>5, <3>6
    <2> QED  BY <2>1 DEF OpensAreAnswered
  <1> QED  BY <1>6, <1>7

LEMMA OpenReplyLeases ==
  ASSUME StateType, LeaseInv, NEW n \in Nodes, OpenReply(n)
  PROVE  LeaseInv'
  <1>0. OpensAreAwaited /\ OpensAreAnswered /\ BeatsInTime /\ NoBeatYet
    BY DEF LeaseInv
  <1>1. PICK c : c = Head(replies[n]).conn
    OBVIOUS
  <1>2. /\ replies[n] # <<>> /\ Head(replies[n]).kind = "open" /\ c \in Conns
        /\ conn[c].phase = "opened"
        /\ conn' = [conn EXCEPT ![c].phase = "open"]
        /\ beat' = [beat EXCEPT ![c] = BeatEvery]
        /\ replies' = [replies EXCEPT ![n] = Tail(@)]
        /\ UNCHANGED <<lease, beating, missed>>
    BY <1>0, <1>1, OpenReplyIs
  <1>3. /\ conn'[c].phase = "open" /\ beat'[c] = BeatEvery
        /\ \A b \in Conns \ {c} : conn'[b] = conn[b] /\ beat'[b] = beat[b]
    BY <1>2 DEF StateType, ConnRecord
  <1>4. OpensAreAwaited' /\ OpensAreAnswered'
    BY <1>0, <1>1, <1>2, OpenTaken DEF Phases
  <1>5. lease[c] = LeaseTtl /\ c \notin beating /\ missed[c] = 0
    BY <1>0, <1>2 DEF OpensAreAnswered, NoBeatYet, Early
  <1>6. BeatsInTime'
    <2>1. SUFFICES ASSUME NEW b \in Conns, conn'[b].phase = "open"
                   PROVE  /\ -MaxLag <= beat'[b] /\ beat'[b] <= BeatEvery
                          /\ Outlives(missed'[b]) =>
                               Remains(lease'[b], beat'[b], b \in beating', missed'[b])
      BY DEF BeatsInTime, Outlives, Remains, Spell
    <2>2. CASE b = c
      <3>1. /\ beat'[b] = BeatEvery /\ lease'[b] = LeaseTtl /\ (b \in beating') = FALSE
            /\ missed'[b] = 0
        BY <1>2, <1>3, <1>5, <2>2
      <3>2. BeatEvery \in Int /\ BeatEvery <= BeatEvery /\ -MaxLag <= BeatEvery /\ 0 \in Nat
            /\ LeaseTtl \in Nat /\ FALSE \in BOOLEAN
        BY Sizes
      <3>3. Remains(LeaseTtl, BeatEvery, FALSE, 0)
        BY <3>2, Remaining
      <3> QED  BY <3>1, <3>2, <3>3
    <2>3. CASE b # c
      <3>1. /\ conn[b].phase = "open" /\ beat'[b] = beat[b] /\ lease'[b] = lease[b]
            /\ beating' = beating /\ missed'[b] = missed[b]
        BY <1>2, <1>3, <2>1, <2>3
      <3> QED  BY <1>0, <3>1 DEF BeatsInTime
    <2> QED  BY <2>2, <2>3
  <1>7. NoBeatYet'
    BY <1>0, <1>2, <1>3 DEF NoBeatYet, Early
  <1> QED  BY <1>4, <1>6, <1>7 DEF LeaseInv

LEMMA CrashLeases ==
  ASSUME StateType, LeaseInv, NEW n \in Nodes, Crash(n)
  PROVE  LeaseInv'
  <1>0. OpensAreAwaited /\ OpensAreAnswered /\ BeatsInTime /\ NoBeatYet
    BY DEF LeaseInv
  <1>1. /\ conn' = [c \in Conns |->
             IF conn[c].node = n THEN [conn[c] EXCEPT !.phase = "dead"] ELSE conn[c]]
        /\ replies' = [replies EXCEPT ![n] = <<>>]
        /\ beating' = {c \in beating : conn[c].node # n}
        /\ UNCHANGED <<lease, beat, missed>>
    BY DEF Crash
  <1>2. \A c \in Conns : /\ conn[c].node = n => conn'[c].phase = "dead"
                         /\ conn[c].node # n => conn'[c] = conn[c]
    BY <1>1 DEF StateType, ConnRecord
  <1>3. /\ \A m \in Nodes \ {n} : replies'[m] = replies[m]
        /\ \A k : ~(k \in 1..Len(replies'[n]))
    <2>1. replies'[n] = <<>> /\ Len(replies'[n]) = 0
      BY <1>1, EmptySeq DEF StateType
    <2> QED  BY <1>1, <2>1 DEF StateType
  <1>4. OpensAreAwaited'
    <2>1. ASSUME NEW m \in Nodes, NEW k \in 1..Len(replies'[m]), replies'[m][k].kind = "open"
          PROVE  LET q == replies'[m][k] IN
                 /\ conn'[q.conn].phase = "opened" /\ conn'[q.conn].node = m
                 /\ \A l \in 1..Len(replies'[m]) :
                      replies'[m][l].kind = "open" /\ replies'[m][l].conn = q.conn => l = k
      <3>1. m # n /\ replies'[m] = replies[m]
        BY <1>3
      <3>2. PICK q \in Reply : q = replies[m][k]
        BY <3>1, ElementOfSeq DEF StateType
      <3>3. /\ conn[q.conn].phase = "opened" /\ conn[q.conn].node = m
            /\ \A l \in 1..Len(replies[m]) :
                 replies[m][l].kind = "open" /\ replies[m][l].conn = q.conn => l = k
        BY <1>0, <2>1, <3>1, <3>2 DEF OpensAreAwaited
      <3>4. q.conn \in Conns
        BY DEF Reply
      <3> QED  BY <1>2, <3>1, <3>2, <3>3, <3>4
    <2> QED  BY <2>1 DEF OpensAreAwaited
  <1>5. OpensAreAnswered'
    <2>1. ASSUME NEW c \in Conns, conn'[c].phase = "opened"
          PROVE  /\ lease'[c] = LeaseTtl
                 /\ \E k \in 1..Len(replies'[conn'[c].node]) :
                      LET q == replies'[conn'[c].node][k] IN q.kind = "open" /\ q.conn = c
      <3>1. conn'[c] = conn[c] /\ conn[c].node # n /\ conn[c].phase = "opened"
        BY <1>2, <2>1
      <3>2. PICK m \in Nodes \ {n} : m = conn[c].node
        BY <3>1 DEF StateType
      <3> QED  BY <1>0, <1>1, <1>3, <3>1, <3>2 DEF OpensAreAnswered
    <2> QED  BY <2>1 DEF OpensAreAnswered
  <1>6. SameBeats
    BY <1>1, <1>2 DEF SameBeats, Early
  <1> QED  BY <1>0, <1>4, <1>5, <1>6, OtherBeats DEF LeaseInv

LEMMA TickLeases ==
  ASSUME StateType, LeaseInv, Tick
  PROVE  LeaseInv' /\ \A c \in Conns : conn[c].phase = "open" /\ Outlives(missed[c]) => lease'[c] > 0
  <1>1. /\ beating = {} /\ \A n \in Nodes : replies[n] = <<>>
        /\ \A c \in Conns : conn[c].phase = "open" => beat[c] > -MaxLag
        /\ lease' = [c \in Conns |-> Less(lease[c])]
        /\ beat' = [c \in Conns |-> IF conn[c].phase = "open" THEN beat[c] - 1 ELSE 0]
        /\ UNCHANGED <<conn, beating, replies, missed>>
    BY DEF Tick, Prompt
  <1>2. \A n \in Nodes : Len(replies[n]) = 0
    BY <1>1, EmptySeq
  <1>3. \A c \in Conns : conn[c].phase # "opened"
    <2>1. SUFFICES ASSUME NEW c \in Conns, conn[c].phase = "opened" PROVE FALSE
      OBVIOUS
    <2>2. PICK n \in Nodes : n = conn[c].node
      BY <2>1 DEF StateType
    <2>3. \E k \in 1..Len(replies[n]) : replies[n][k].kind = "open"
      BY <2>1, <2>2 DEF LeaseInv, OpensAreAnswered
    <2> QED  BY <1>2, <2>3
  <1>4. OpensAreAwaited' /\ OpensAreAnswered'
    BY <1>1, <1>2, <1>3 DEF OpensAreAwaited, OpensAreAnswered
  <1>5. ASSUME NEW c \in Conns, conn[c].phase = "open"
        PROVE  /\ -MaxLag <= beat'[c] /\ beat'[c] <= BeatEvery
               /\ Outlives(missed[c]) =>
                    lease'[c] > 0 /\ Remains(lease'[c], beat'[c], FALSE, missed[c])
    <2>1. /\ beat[c] \in Int /\ lease[c] \in Nat /\ missed[c] \in Nat /\ (c \in beating) = FALSE
          /\ beat[c] > -MaxLag /\ beat[c] <= BeatEvery
      BY <1>1, <1>5 DEF StateType, LeaseInv, BeatsInTime
    <2>2. beat'[c] = beat[c] - 1 /\ beat'[c] \in Int /\ -MaxLag <= beat'[c] /\ beat'[c] <= BeatEvery
      BY <1>1, <1>5, <2>1, Sizes
    <2>3. ASSUME Outlives(missed[c])
          PROVE  lease'[c] > 0 /\ Remains(lease'[c], beat'[c], FALSE, missed[c])
      <3>1. Remains(lease[c], beat[c], FALSE, missed[c]) /\ -MaxLag <= beat[c]
        BY <1>5, <2>1, <2>3, Sizes DEF LeaseInv, BeatsInTime
      <3>2. lease[c] > 0
        BY <2>1, <2>3, <3>1, Remaining
      <3>3. lease'[c] = lease[c] - 1 /\ lease'[c] \in Nat
        BY <1>1, <2>1, <3>2 DEF Less
      <3>4. Remains(lease'[c], beat'[c], FALSE, missed[c])
        <4>1. Remains(lease[c] - 1, beat[c] - 1, FALSE, missed[c])
          BY <2>1, <3>1, Remaining
        <4> QED  BY <2>2, <3>3, <4>1
      <3>5. lease'[c] > 0
        BY <2>1, <2>2, <2>3, <3>3, <3>4, Remaining
      <3> QED  BY <3>4, <3>5
    <2> QED  BY <2>2, <2>3
  <1>6. BeatsInTime'
    <2>1. SUFFICES ASSUME NEW c \in Conns, conn'[c].phase = "open"
                   PROVE  /\ -MaxLag <= beat'[c] /\ beat'[c] <= BeatEvery
                          /\ Outlives(missed'[c]) =>
                               Remains(lease'[c], beat'[c], c \in beating', missed'[c])
      BY DEF BeatsInTime, Outlives, Remains, Spell
    <2>2. conn[c].phase = "open" /\ (c \in beating') = FALSE /\ missed'[c] = missed[c]
      BY <1>1, <2>1
    <2> QED  BY <1>5, <2>2
  <1>7. NoBeatYet'
    BY <1>1 DEF LeaseInv, NoBeatYet, Early
  <1> QED  BY <1>4, <1>5, <1>6, <1>7 DEF LeaseInv

LEMMA BeatLeases ==
  ASSUME StateType, LeaseInv, NEW c \in Conns, Beating(c) \/ BeatFires(c)
  PROVE  LeaseInv'
  <1>0. /\ OpensAreAwaited /\ OpensAreAnswered /\ BeatsInTime /\ NoBeatYet
        /\ lease[c] \in Nat /\ beat[c] \in Int /\ missed[c] \in Nat
    BY DEF LeaseInv, StateType
  \* The heartbeats of the other streams are as they were.
  <1>a. ASSUME OtherAnswers, SameWait, UNCHANGED conn,
               \A b \in Conns \ {c} :
                 /\ beat'[b] = beat[b] /\ lease'[b] = lease[b] /\ missed'[b] = missed[b]
                 /\ (b \in beating') = (b \in beating),
               ~Early(c),
               conn[c].phase = "open" =>
                 /\ -MaxLag <= beat'[c] /\ beat'[c] <= BeatEvery
                 /\ Outlives(missed'[c]) =>
                      Remains(lease'[c], beat'[c], c \in beating', missed'[c])
        PROVE  LeaseInv'
    <2>1. BeatsInTime'
      <3>1. SUFFICES ASSUME NEW b \in Conns, conn'[b].phase = "open"
                     PROVE  /\ -MaxLag <= beat'[b] /\ beat'[b] <= BeatEvery
                            /\ Outlives(missed'[b]) =>
                                 Remains(lease'[b], beat'[b], b \in beating', missed'[b])
        BY DEF BeatsInTime, Outlives, Remains, Spell
      <3>2. CASE b = c
        BY <1>a, <3>1, <3>2
      <3>3. CASE b # c
        BY <1>0, <1>a, <3>1, <3>3 DEF BeatsInTime
      <3> QED  BY <3>2, <3>3
    <2>2. NoBeatYet'
      BY <1>0, <1>a DEF NoBeatYet, Early
    <2> QED  BY <1>0, <1>a, <2>1, <2>2, OtherOpens DEF LeaseInv
  <1>1. CASE Beating(c)
    <2>1. /\ c \in beating /\ beating' = beating \ {c} /\ UNCHANGED <<conn, beat, replies>>
          /\ \/ /\ lease' = [lease EXCEPT ![c] = Renewed(c)]
                /\ missed' = [missed EXCEPT ![c] = IF Outlives(@) THEN 0 ELSE @]
             \/ lease' = lease /\ missed' = [missed EXCEPT ![c] = @ + 1]
      BY <1>1 DEF Beating, StoreBeat, StoreBeatFails
    <2>2. ~Early(c)
      BY <1>0, <2>1 DEF NoBeatYet
    <2>3. /\ OtherAnswers /\ SameWait
          /\ \A b \in Conns \ {c} :
               /\ beat'[b] = beat[b] /\ lease'[b] = lease[b] /\ missed'[b] = missed[b]
               /\ (b \in beating') = (b \in beating)
      <3>1. \A b \in Conns \ {c} : lease'[b] = lease[b] /\ missed'[b] = missed[b]
        BY <2>1 DEF StateType
      <3>2. OtherAnswers /\ SameWait
        BY <2>1, <2>2, <3>1 DEF OtherAnswers, SameWait, Early
      <3> QED  BY <2>1, <3>1, <3>2
    <2>4. ASSUME conn[c].phase = "open", Outlives(missed'[c])
          PROVE  Remains(lease'[c], beat'[c], c \in beating', missed'[c])
      <3>1. /\ -MaxLag <= beat[c] /\ beat[c] <= BeatEvery /\ (c \in beating) = TRUE
            /\ Outlives(missed[c]) => Remains(lease[c], beat[c], TRUE, missed[c])
        BY <1>0, <2>1, <2>4 DEF BeatsInTime
      <3>2. (c \in beating') = FALSE /\ beat'[c] = beat[c]
        BY <2>1
      <3>3. CASE lease' = lease /\ missed' = [missed EXCEPT ![c] = @ + 1]
        <4>1. lease'[c] = lease[c] /\ missed'[c] = missed[c] + 1
          BY <3>3 DEF StateType
        <4>2. Outlives(missed[c])
          BY <1>0, <2>4, <4>1, Remaining
        <4>3. Remains(lease[c], beat[c], FALSE, missed[c] + 1)
          BY <1>0, <3>1, <4>2, Remaining
        <4> QED  BY <3>2, <4>1, <4>3
      <3>4. CASE /\ lease' = [lease EXCEPT ![c] = Renewed(c)]
                 /\ missed' = [missed EXCEPT ![c] = IF Outlives(@) THEN 0 ELSE @]
        <4>1. /\ lease'[c] = Renewed(c)
              /\ missed'[c] = IF Outlives(missed[c]) THEN 0 ELSE missed[c]
          BY <3>4 DEF StateType
        <4>2. Outlives(missed[c])
          BY <2>4, <4>1
        <4>3. lease[c] > 0
          BY <1>0, <3>1, <4>2, Remaining
        <4>4. lease'[c] = LeaseTtl /\ missed'[c] = 0
          BY <4>1, <4>2, <4>3 DEF Renewed, Live
        <4>5. Remains(LeaseTtl, beat[c], FALSE, 0)
          BY <1>0, <3>1, Sizes, Remaining
        <4> QED  BY <3>2, <4>4, <4>5
      <3> QED  BY <2>1, <3>3, <3>4
    <2>5. conn[c].phase = "open" => -MaxLag <= beat'[c] /\ beat'[c] <= BeatEvery
      BY <1>0, <2>1 DEF BeatsInTime
    <2> QED  BY <1>a, <2>1, <2>2, <2>3, <2>4, <2>5
  <1>2. CASE BeatFires(c)
    <2>1. /\ beating' = beating \union {c} /\ beat' = [beat EXCEPT ![c] = BeatEvery]
          /\ conn[c].phase = "open" /\ (c \in beating) = FALSE
          /\ UNCHANGED <<lease, conn, replies, missed>>
      BY <1>2 DEF BeatFires
    <2>2. /\ OtherAnswers /\ SameWait /\ ~Early(c)
          /\ beat'[c] = BeatEvery /\ (c \in beating') = TRUE
          /\ \A b \in Conns \ {c} : beat'[b] = beat[b] /\ (b \in beating') = (b \in beating)
      BY <2>1 DEF OtherAnswers, SameWait, Early, StateType
    <2>3. /\ -MaxLag <= beat[c]
          /\ Outlives(missed[c]) => Remains(lease[c], beat[c], FALSE, missed[c])
      BY <1>0, <2>1 DEF BeatsInTime
    <2>4. Outlives(missed[c]) => Remains(lease[c], BeatEvery, TRUE, missed[c])
      BY <1>0, <2>3, Remaining
    <2>5. -MaxLag <= BeatEvery /\ BeatEvery <= BeatEvery
      BY Sizes
    <2> QED  BY <1>a, <2>1, <2>2, <2>4, <2>5
  <1> QED  BY <1>1, <1>2

LEMMA LeaseStep ==
  ASSUME StateType, LeaseInv, [Next]_vars
  PROVE  LeaseInv'
  <1>0. OpensAreAwaited /\ OpensAreAnswered /\ BeatsInTime /\ NoBeatYet
    BY DEF LeaseInv
  <1>a. ASSUME OtherAnswers, SameWait, SameBeats
        PROVE  LeaseInv'
    BY <1>0, <1>a, OtherOpens, OtherBeats DEF LeaseInv
  <1>1. ASSUME NEW c \in Conns, StoreStep(c)
        PROVE  LeaseInv'
    <2>1. CASE StoreOpen(c)
      BY <2>1, StoreOpenLeases
    <2>2. CASE StoreOpenFails(c) \/ StoreCloseFails(c)
      <3>1. /\ \/ conn[c].phase = "opening" /\ conn' = [conn EXCEPT ![c].phase = "unleased"]
               \/ conn[c].phase = "closing" /\ conn' = [conn EXCEPT ![c].phase = "closed"]
            /\ UNCHANGED <<lease, beat, beating, replies, missed>>
        BY <2>2 DEF StoreOpenFails, StoreCloseFails
      <3>2. conn'[c].phase \in {"unleased", "closed"} /\ \A b \in Conns \ {c} : conn'[b] = conn[b]
        BY <3>1 DEF StateType, ConnRecord
      <3>3. OtherAnswers /\ SameWait /\ SameBeats
        BY <3>1, <3>2 DEF OtherAnswers, SameWait, SameBeats, Early
      <3> QED  BY <1>a, <3>3
    <2>3. CASE Beating(c)
      BY <2>3, BeatLeases
    <2>4. CASE StoreClose(c)
      <3> DEFINE r == [kind |-> "close", conn |-> c,
                       result |-> IF LeavesToken(c) THEN c ELSE NoToken, no |-> history.count + 1]
      <3>1. /\ conn[c].phase = "closing" /\ conn[c].node \in Nodes
            /\ conn' = [conn EXCEPT ![c].phase = "closed"]
            /\ lease' = [lease EXCEPT ![c] = 0]
            /\ replies' = [replies EXCEPT ![conn[c].node] = Append(@, r)]
            /\ UNCHANGED <<beat, beating, missed>>
        BY <2>4 DEF StoreClose, WithoutLease, Answer, StateType
      <3>2. r \in Reply /\ r.kind # "open"
        BY Counted DEF Reply, StateType
      <3> HIDE DEF r
      <3>3. /\ conn'[c].phase = "closed"
            /\ \A b \in Conns \ {c} : conn'[b] = conn[b] /\ lease'[b] = lease[b]
        BY <3>1 DEF StateType, ConnRecord
      <3>4. OtherAnswers
        BY <3>1, <3>2 DEF OtherAnswers
      <3>5. SameWait /\ SameBeats
        BY <3>1, <3>3 DEF SameWait, SameBeats, Early
      <3> QED  BY <1>a, <3>4, <3>5
    <2> QED  BY <1>1, <2>1, <2>2, <2>3, <2>4 DEF StoreStep, Opening, Closing
  <1>2. ASSUME NEW c \in Conns, StreamStep(c)
        PROVE  LeaseInv'
    <2>1. CASE StreamGone(c)
      <3>1. conn' = [conn EXCEPT ![c].gone = TRUE] /\ UNCHANGED <<lease, beat, beating, replies, missed>>
        BY <2>1 DEF StreamGone
      <3>2. \A b \in Conns : conn'[b].phase = conn[b].phase /\ conn'[b].node = conn[b].node
        BY <3>1 DEF StateType, ConnRecord
      <3>3. OtherAnswers /\ SameWait /\ SameBeats
        BY <3>1, <3>2 DEF OtherAnswers, SameWait, SameBeats, Early
      <3> QED  BY <1>a, <3>3
    <2>2. CASE StreamClose(c)
      <3>1. /\ conn[c].phase \in {"open", "unleased"}
            /\ conn' = [conn EXCEPT ![c].phase = "closing"]
            /\ UNCHANGED <<lease, beat, beating, replies, missed>>
        BY <2>2 DEF StreamClose
      <3>2. conn'[c].phase = "closing" /\ \A b \in Conns \ {c} : conn'[b] = conn[b]
        BY <3>1 DEF StateType, ConnRecord
      <3>3. OtherAnswers /\ SameWait /\ SameBeats
        BY <3>1, <3>2 DEF OtherAnswers, SameWait, SameBeats, Early
      <3> QED  BY <1>a, <3>3
    <2>3. CASE BeatFires(c)
      BY <2>3, BeatLeases
    <2>4. ASSUME NEW n \in Nodes, StreamOpen(c, n)
          PROVE  LeaseInv'
      <3>1. /\ conn[c].phase = "unused"
            /\ conn' = [conn EXCEPT ![c] = [phase |-> "opening", node |-> n, gone |-> FALSE]]
            /\ UNCHANGED <<lease, beat, beating, replies, missed>>
        BY <2>4 DEF StreamOpen
      <3>2. conn'[c].phase = "opening" /\ \A b \in Conns \ {c} : conn'[b] = conn[b]
        BY <3>1 DEF StateType, ConnRecord
      <3>3. OtherAnswers /\ SameWait /\ SameBeats
        BY <3>1, <3>2 DEF OtherAnswers, SameWait, SameBeats, Early
      <3> QED  BY <1>a, <3>3
    <2> QED  BY <1>2, <2>1, <2>2, <2>3, <2>4 DEF StreamStep
  <1>3. ASSUME NEW n \in Nodes, NodeStep(n)
        PROVE  LeaseInv'
    <2>1. CASE OpenReply(n)
      BY <2>1, OpenReplyLeases
    <2>2. CASE CloseReply(n) \/ FinalizeReply(n)
      <3>1. /\ replies[n] # <<>> /\ Head(replies[n]).kind # "open"
            /\ replies' = [replies EXCEPT ![n] = Tail(@)]
            /\ UNCHANGED <<lease, conn, beat, beating, missed>>
        BY <2>2 DEF CloseReply, FinalizeReply
      <3>2. OtherAnswers /\ SameWait /\ SameBeats
        BY <3>1 DEF OtherAnswers, SameWait, SameBeats, Early
      <3> QED  BY <1>a, <3>2
    <2>3. CASE TimerFires(n)
      <3> DEFINE r == [kind |-> "finalize", conn |-> timer[n].token, result |-> "offline",
                       no |-> history.count + 1]
      <3>1. /\ timer[n].token # NoToken /\ UNCHANGED <<lease, conn, beat, beating, missed>>
            /\ replies' = replies \/ replies' = [replies EXCEPT ![n] = Append(@, r)]
        BY <2>3 DEF TimerFires, Answer
      <3>2. r \in Reply /\ r.kind # "open"
        <4>1. timer[n].token \in Conns
          BY <3>1 DEF StateType, Token
        <4>2. history.count + 1 \in Nat
          BY Counted DEF StateType
        <4> QED  BY <4>1, <4>2 DEF Reply
      <3> HIDE DEF r
      <3>3. OtherAnswers
        BY <3>1, <3>2 DEF OtherAnswers
      <3>4. SameWait /\ SameBeats
        BY <3>1 DEF SameWait, SameBeats, Early
      <3> QED  BY <1>a, <3>3, <3>4
    <2>4. CASE Crash(n)
      BY <2>4, CrashLeases
    <2>5. CASE FinalizeFails(n)
      <3>1. UNCHANGED <<lease, conn, beat, beating, replies, missed>>
        BY <2>5 DEF FinalizeFails
      <3>2. OtherAnswers /\ SameWait /\ SameBeats
        BY <3>1 DEF OtherAnswers, SameWait, SameBeats, Early
      <3> QED  BY <1>a, <3>2
    <2>6. CASE AnswerLost(n)
      <3>1. PICK c : c = Head(replies[n]).conn
        OBVIOUS
      <3>2. /\ replies[n] # <<>> /\ replies' = [replies EXCEPT ![n] = Tail(@)]
            /\ UNCHANGED <<lease, beat, beating, missed>>
            /\ \/ /\ Head(replies[n]).kind = "open" /\ c \in Conns /\ conn[c].phase = "opened"
                  /\ conn' = [conn EXCEPT ![c].phase = "unleased"]
               \/ Head(replies[n]).kind # "open" /\ conn' = conn
        BY <1>0, <2>6, <3>1, AnswerLostIs
      <3>3. CASE Head(replies[n]).kind = "open"
        <4>1. OpensAreAwaited' /\ OpensAreAnswered'
          <5>1. /\ conn' = [conn EXCEPT ![Head(replies[n]).conn].phase = "unleased"]
                /\ "unleased" \in Phases \ {"opened"} /\ lease' = lease
                /\ replies[n] # <<>> /\ replies' = [replies EXCEPT ![n] = Tail(@)]
            BY <3>1, <3>2, <3>3 DEF Phases
          <5> QED  BY <1>0, <3>3, <5>1, OpenTaken
        <4>2. conn'[c].phase = "unleased" /\ \A b \in Conns \ {c} : conn'[b] = conn[b]
          BY <3>2, <3>3 DEF StateType, ConnRecord
        <4>3. SameBeats
          BY <3>2, <4>2 DEF SameBeats, Early
        <4> QED  BY <1>0, <4>1, <4>3, OtherBeats DEF LeaseInv
      <3>4. CASE Head(replies[n]).kind # "open"
        <4>1. OtherAnswers /\ SameWait /\ SameBeats
          BY <3>2, <3>4 DEF OtherAnswers, SameWait, SameBeats, Early
        <4> QED  BY <1>a, <4>1
      <3> QED  BY <3>3, <3>4
    <2> QED  BY <1>3, <2>1, <2>2, <2>3, <2>4, <2>5, <2>6 DEF NodeStep, Replied, Confirming
  <1>4. ASSUME UNCHANGED <<lease, conn, beat, beating, replies, missed>>
        PROVE  LeaseInv'
    <2>1. OtherAnswers /\ SameWait /\ SameBeats
      BY <1>4 DEF OtherAnswers, SameWait, SameBeats, Early
    <2> QED  BY <1>a, <2>1
  <1>5. ASSUME NEW i \in DOMAIN announcing, Announce(i)
        PROVE  LeaseInv'
    BY <1>4, <1>5 DEF Announce
  <1>6. CASE Tick
    BY <1>6, TickLeases
  <1>7. CASE UNCHANGED vars
    BY <1>4, <1>7 DEF vars
  <1> QED  BY <1>1, <1>2, <1>3, <1>5, <1>6, <1>7 DEF Next
-----------------------------------------------------------------------------
(* The types, and the leases, in every step.                                *)

LEMMA TypesStep ==
  ASSUME StateType, LeaseInv, [Next]_vars
  PROVE  StateType'
  <1>1. OpensAreAwaited
    BY DEF LeaseInv
  <1>2. CASE Next
    BY <1>1, <1>2, StoreTypes, StreamTypes, NodeTypes, OtherTypes DEF Next
  <1>3. CASE UNCHANGED vars
    <2>1. UNCHANGED <<lease, pending, conn, beat, beating, timer, replies, history, missed>>
      BY <1>3 DEF vars
    <2> QED  BY <2>1 DEF StateType
  <1> QED  BY <1>2, <1>3

LEMMA NothingYet ==
  ASSUME Init
  PROVE  /\ \A n \in Nodes : replies[n] = <<>> /\ \A k : ~(k \in 1..Len(replies[n]))
         /\ \A n \in Nodes : timer[n].token = NoToken
         /\ pending.token = NoToken /\ Live = {}
         /\ \A c \in Conns : conn[c].phase = "unused" /\ lease[c] = 0
         /\ announcing = <<>> /\ \A k : ~(k \in 1..Len(announcing))
         /\ beating = {} /\ \A c \in Conns : missed[c] = 0
  <1>1. \A n \in Nodes : replies[n] = <<>> /\ Len(replies[n]) = 0
    BY EmptySeq DEF Init
  <1>2. announcing = <<>> /\ Len(announcing) = 0
    BY EmptySeq DEF Init
  <1> QED  BY <1>1, <1>2 DEF Init, NoPending, Live

LEMMA InitialLeases == Init => LeaseInv
  BY NothingYet DEF LeaseInv, OpensAreAwaited, OpensAreAnswered, BeatsInTime, NoBeatYet

-----------------------------------------------------------------------------
(* Tokens.                                                                  *)

\* Every answer that waits is one that waited already, or is in S.
AnswersWithin(S) ==
  \A n \in Nodes : \A k \in 1..Len(replies'[n]) :
    replies'[n][k] \in S \/ \E j \in 1..Len(replies[n]) : replies'[n][k] = replies[n][j]

LEMMA OneAnswer ==
  ASSUME StateType, NEW n \in Nodes, NEW r \in Reply,
         replies' = [replies EXCEPT ![n] = Append(@, r)]
  PROVE  AnswersWithin({r})
  <1>1. /\ \A m \in Nodes : Len(replies[m]) \in Nat /\ Len(replies'[m]) \in Nat
        /\ \A m \in Nodes \ {n} : replies'[m] = replies[m]
        /\ Len(replies'[n]) = Len(replies[n]) + 1
        /\ \A k \in 1..Len(replies[n]) : replies'[n][k] = replies[n][k]
        /\ replies'[n][Len(replies[n]) + 1] = r
    BY Answered DEF StateType
  <1>2. \A k \in 1..Len(replies'[n]) : k \in 1..Len(replies[n]) \/ k = Len(replies[n]) + 1
    BY <1>1
  <1> QED  BY <1>1, <1>2 DEF AnswersWithin

\* The answers are taken or lost.
FewerAnswers ==
  \/ replies' = replies
  \/ \E n \in Nodes : replies[n] # <<>> /\ replies' = [replies EXCEPT ![n] = Tail(@)]
  \/ \E n \in Nodes : replies' = [replies EXCEPT ![n] = <<>>]

LEMMA NoAnswer ==
  ASSUME StateType, FewerAnswers
  PROVE  AnswersWithin({})
  <1>1. CASE replies' = replies
    BY <1>1 DEF AnswersWithin
  <1>2. ASSUME NEW n \in Nodes, replies[n] # <<>>, replies' = [replies EXCEPT ![n] = Tail(@)]
        PROVE  AnswersWithin({})
    <2>1. /\ \A m \in Nodes \ {n} : replies'[m] = replies[m]
          /\ \A k \in 1..Len(replies'[n]) :
               k + 1 \in 1..Len(replies[n]) /\ replies'[n][k] = replies[n][k + 1]
      BY <1>2, Taken DEF StateType
    <2> QED  BY <2>1 DEF AnswersWithin
  <1>3. ASSUME NEW n \in Nodes, replies' = [replies EXCEPT ![n] = <<>>]
        PROVE  AnswersWithin({})
    <2>1. replies'[n] = <<>> /\ \A m \in Nodes \ {n} : replies'[m] = replies[m]
      BY <1>3 DEF StateType
    <2>2. Len(replies'[n]) = 0
      BY <2>1, EmptySeq
    <2> QED  BY <2>1, <2>2 DEF AnswersWithin
  <1> QED  BY <1>1, <1>2, <1>3 DEF FewerAnswers

\* What most steps leave alone of streams that are left, of tokens and of time.
TokensStay ==
  /\ \A c \in Conns : conn[c].phase \in {"closed", "dead"} => conn'[c].phase \in {"closed", "dead"}
  /\ pending'.token # NoToken => pending' = pending /\ Live' \subseteq Live
                                 /\ history'.away = history.away
  /\ \A n \in Nodes : timer'[n].token # NoToken => timer'[n] = timer[n]
  /\ history'.away \in {0, history.away}

QuietAnswers(S) == \A r \in S : r.kind # "close" \/ r.result = NoToken

LEMMA TokensKept ==
  ASSUME StateType, StateType', TokenInv, TokensStay, NEW S, AnswersWithin(S), QuietAnswers(S)
  PROVE  TokenInv'
  <1>0. /\ pending \in Token /\ pending' \in Token /\ replies \in [Nodes -> Seq(Reply)]
        /\ timer \in [Nodes -> Token] /\ timer' \in [Nodes -> Token]
    BY DEF StateType
  <1>1. PendingIsLeft'
    <2>1. SUFFICES ASSUME pending'.token # NoToken
                   PROVE  Live' = {} /\ conn'[pending'.token].phase \in {"closed", "dead"}
      BY DEF PendingIsLeft, Left
    <2>2. PICK c \in Conns : c = pending.token
      BY <1>0, <2>1 DEF TokensStay, Token
    <2>3. pending' = pending /\ Live = {} /\ Left(c) /\ Live' \subseteq Live
      BY <2>1, <2>2 DEF TokensStay, TokenInv, TokensAreLeft, PendingIsLeft
    <2>4. conn'[c].phase \in {"closed", "dead"}
      BY <2>3 DEF TokensStay, Left
    <2> QED  BY <2>2, <2>3, <2>4
  <1>2. TimersAreLeft'
    <2>1. SUFFICES ASSUME NEW n \in Nodes, timer'[n].token # NoToken
                   PROVE  conn'[timer'[n].token].phase \in {"closed", "dead"}
      BY DEF TimersAreLeft, Left
    <2>2. timer'[n] = timer[n] /\ timer[n].token # NoToken
      BY <2>1 DEF TokensStay
    <2>3. PICK c \in Conns : c = timer[n].token
      BY <1>0, <2>2 DEF Token
    <2>4. conn[c].phase \in {"closed", "dead"}
      BY <2>2, <2>3 DEF TokenInv, TokensAreLeft, TimersAreLeft, Left
    <2> QED  BY <2>2, <2>3, <2>4 DEF TokensStay
  <1>3. AnswersAreLeft'
    <2>1. SUFFICES ASSUME NEW n \in Nodes, NEW k \in 1..Len(replies'[n]),
                          replies'[n][k].kind = "close", replies'[n][k].result # NoToken
                   PROVE  conn'[replies'[n][k].result].phase \in {"closed", "dead"}
      BY DEF AnswersAreLeft, Left
    <2>2. ~(replies'[n][k] \in S)
      BY <2>1 DEF QuietAnswers
    <2>3. PICK j \in 1..Len(replies[n]) : replies'[n][k] = replies[n][j]
      BY <2>2 DEF AnswersWithin
    <2>4. PICK q \in Reply : q = replies[n][j]
      BY <1>0, ElementOfSeq
    <2>5. q.kind = "close" /\ q.result # NoToken
      BY <2>1, <2>3, <2>4
    <2>6. q.result \in Conns
      BY <2>5 DEF Reply
    <2>7. conn[q.result].phase \in {"closed", "dead"}
      BY <2>4, <2>5 DEF TokenInv, TokensAreLeft, AnswersAreLeft, Left
    <2> QED  BY <2>3, <2>4, <2>6, <2>7 DEF TokensStay
  <1>4. AwayForLong'
    <2>1. history.away \in Nat /\ history.away <= OfflineDelay /\ history'.away <= OfflineDelay
      BY Sizes DEF StateType, Past, TokenInv, AwayForLong, TokensStay
    <2>2. ASSUME NEW n \in Nodes, pending'.token # NoToken, timer'[n].token = pending'.token
          PROVE  timer'[n].left + history'.away >= OfflineDelay \/ history'.away = OfflineDelay
      <3>1. pending' = pending /\ timer'[n] = timer[n] /\ history'.away = history.away
        BY <2>2 DEF TokensStay
      <3> QED  BY <2>2, <3>1 DEF TokenInv, AwayForLong
    <2> QED  BY <2>1, <2>2 DEF AwayForLong
  <1> QED  BY <1>1, <1>2, <1>3, <1>4 DEF TokenInv, TokensAreLeft

LEMMA StoreTokens ==
  ASSUME StateType, StateType', TokenInv, NEW c \in Conns, StoreStep(c)
  PROVE  TokenInv'
  <1>0. /\ lease \in [Conns -> Nat] /\ conn \in [Conns -> ConnRecord] /\ history \in Past
        /\ replies \in [Nodes -> Seq(Reply)]
    BY DEF StateType
  <1>1. CASE StoreOpen(c)
    <2> DEFINE r == [kind |-> "open", conn |-> c, result |-> OpenResult, no |-> history.count + 1]
    <2>1. /\ conn[c].phase = "opening" /\ conn[c].node \in Nodes
          /\ pending' = NoPending
          /\ history' = [Decide(OpenResult) EXCEPT !.away = 0]
          /\ replies' = [replies EXCEPT ![conn[c].node] = Append(@, r)]
          /\ conn' = [conn EXCEPT ![c].phase = "opened"] /\ timer' = timer
      BY <1>1 DEF StoreOpen, Answer, StateType
    <2>2. r \in Reply
      BY OpenIs, Counted DEF Reply, StateType
    <2>3. r.kind # "close"
      OBVIOUS
    <2> HIDE DEF r
    <2>4. AnswersWithin({r}) /\ QuietAnswers({r})
      BY <2>1, <2>2, <2>3, OneAnswer DEF QuietAnswers
    <2>5. history'.away = 0
      BY <1>0, <2>1, OpenIs, Decided DEF Past
    <2>6. TokensStay
      BY <1>0, <2>1, <2>5 DEF TokensStay, NoPending
    <2> QED  BY <2>4, <2>6, TokensKept
  <1>2. CASE StoreOpenFails(c) \/ StoreCloseFails(c) \/ StoreBeatFails(c)
    <2>1. /\ \/ conn[c].phase = "opening" /\ conn' = [conn EXCEPT ![c].phase = "unleased"]
             \/ conn[c].phase = "closing" /\ conn' = [conn EXCEPT ![c].phase = "closed"]
             \/ conn' = conn
          /\ UNCHANGED <<lease, pending, timer, replies>>
      BY <1>2 DEF StoreOpenFails, StoreCloseFails, StoreBeatFails
    <2>2. history'.away = history.away
      BY <1>2, MishapsCount DEF Fails
    <2>3. TokensStay
      BY <1>0, <2>1, <2>2 DEF TokensStay, Live
    <2>4. AnswersWithin({}) /\ QuietAnswers({})
      BY <2>1, NoAnswer DEF FewerAnswers, QuietAnswers
    <2> QED  BY <2>3, <2>4, TokensKept
  <1>3. CASE StoreBeat(c)
    <2>1. /\ lease' = [lease EXCEPT ![c] = Renewed(c)]
          /\ UNCHANGED <<pending, conn, timer, replies, history>>
      BY <1>3 DEF StoreBeat
    <2>2. Live' \subseteq Live
      BY <1>0, <2>1 DEF Live, Renewed
    <2>3. TokensStay
      BY <2>1, <2>2 DEF TokensStay
    <2>4. AnswersWithin({}) /\ QuietAnswers({})
      BY <2>1, NoAnswer DEF FewerAnswers, QuietAnswers
    <2> QED  BY <2>3, <2>4, TokensKept
  <1>4. CASE StoreClose(c)
    <2>1. PICK t \in Conns \union {NoToken} : t = IF LeavesToken(c) THEN c ELSE NoToken
      OBVIOUS
    <2>2. PICK r : r = [kind |-> "close", conn |-> c, result |-> t, no |-> history.count + 1]
      OBVIOUS
    <2>3. /\ conn[c].phase = "closing" /\ conn[c].node \in Nodes
          /\ lease' = [lease EXCEPT ![c] = 0]
          /\ pending' = IF LeavesToken(c) THEN [token |-> c, left |-> TokenLife] ELSE pending
          /\ replies' = [replies EXCEPT ![conn[c].node] = Append(@, r)]
          /\ conn' = [conn EXCEPT ![c].phase = "closed"]
          /\ UNCHANGED <<timer, history>>
      BY <1>4, <2>1, <2>2 DEF StoreClose, WithoutLease, Answer, StateType
    <2>4. r \in Reply /\ r.kind = "close" /\ r.result = t
      BY <2>2, Counted DEF Reply, StateType
    <2>5. AnswersWithin({r})
      BY <2>3, <2>4, OneAnswer
    <2>6. Live' = Live \ {c}
      BY <1>0, <2>3 DEF Live
    <2>7. /\ conn'[c].phase = "closed" /\ \A b \in Conns \ {c} : conn'[b] = conn[b]
      BY <1>0, <2>3 DEF ConnRecord
    <2>8. CASE ~LeavesToken(c)
      <3>1. t = NoToken /\ pending' = pending
        BY <2>1, <2>3, <2>8
      <3>2. QuietAnswers({r})
        BY <2>4, <3>1 DEF QuietAnswers
      <3>3. TokensStay
        BY <2>3, <2>6, <2>7, <3>1 DEF TokensStay
      <3> QED  BY <2>5, <3>2, <3>3, TokensKept
    <2>9. CASE LeavesToken(c)
      <3>1. /\ t = c /\ pending' = [token |-> c, left |-> TokenLife] /\ Live' = {}
        BY <2>1, <2>3, <2>6, <2>9 DEF LeavesToken
      <3>2. PendingIsLeft'
        BY <2>7, <3>1 DEF PendingIsLeft, Left
      <3>3. ASSUME NEW n \in Nodes, timer[n].token # NoToken
            PROVE  /\ timer[n].token # c /\ conn'[timer[n].token].phase \in {"closed", "dead"}
        <4>1. PICK b \in Conns : b = timer[n].token
          BY <3>3 DEF StateType, Token
        <4>2. conn[b].phase \in {"closed", "dead"}
          BY <3>3, <4>1 DEF TokenInv, TokensAreLeft, TimersAreLeft, Left
        <4> QED  BY <2>3, <2>7, <4>1, <4>2
      <3>4. TimersAreLeft'
        BY <2>3, <3>3 DEF TimersAreLeft, Left
      <3>5. AnswersAreLeft'
        <4>1. SUFFICES ASSUME NEW n \in Nodes, NEW k \in 1..Len(replies'[n]),
                              replies'[n][k].kind = "close", replies'[n][k].result # NoToken
                       PROVE  conn'[replies'[n][k].result].phase \in {"closed", "dead"}
          BY DEF AnswersAreLeft, Left
        <4>2. CASE replies'[n][k] = r
          BY <2>4, <2>7, <3>1, <4>2
        <4>3. CASE replies'[n][k] # r
          <5>1. PICK j \in 1..Len(replies[n]) : replies'[n][k] = replies[n][j]
            BY <2>5, <4>3 DEF AnswersWithin
          <5>2. PICK q \in Reply : q = replies[n][j]
            BY <1>0, ElementOfSeq
          <5>3. q.kind = "close" /\ q.result # NoToken
            BY <4>1, <5>1, <5>2
          <5>4. q.result \in Conns /\ conn[q.result].phase \in {"closed", "dead"}
            BY <5>2, <5>3 DEF Reply, TokenInv, TokensAreLeft, AnswersAreLeft, Left
          <5> QED  BY <2>7, <5>1, <5>2, <5>4
        <4> QED  BY <4>2, <4>3
      <3>6. AwayForLong'
        BY <2>3, <3>1, <3>3, Sizes DEF AwayForLong, TokenInv
      <3> QED  BY <3>2, <3>4, <3>5, <3>6 DEF TokenInv, TokensAreLeft
    <2> QED  BY <2>8, <2>9
  <1> QED  BY <1>1, <1>2, <1>3, <1>4 DEF StoreStep, Opening, Beating, Closing

LEMMA StreamTokens ==
  ASSUME StateType, StateType', TokenInv, NEW c \in Conns, StreamStep(c)
  PROVE  TokenInv'
  <1>0. conn \in [Conns -> ConnRecord] /\ timer \in [Nodes -> Token]
    BY DEF StateType
  <1>1. UNCHANGED <<lease, pending, replies, history>>
    BY DEF StreamStep, StreamGone, StreamClose, BeatFires, StreamOpen
  <1>2. CASE StreamGone(c) \/ StreamClose(c) \/ BeatFires(c)
    <2>1. /\ timer' = timer
          /\ \/ conn' = conn
             \/ conn' = [conn EXCEPT ![c].gone = TRUE]
             \/ /\ conn[c].phase \in {"open", "unleased"}
                /\ conn' = [conn EXCEPT ![c].phase = "closing"]
      BY <1>2 DEF StreamGone, StreamClose, BeatFires
    <2>2. \A b \in Conns : conn[b].phase \in {"closed", "dead"} => conn'[b].phase = conn[b].phase
      BY <1>0, <2>1 DEF ConnRecord
    <2>3. TokensStay
      BY <1>1, <2>1, <2>2 DEF TokensStay, Live
    <2> QED  BY <1>1, <2>3, NoAnswer, TokensKept DEF FewerAnswers, QuietAnswers
  <1>3. ASSUME NEW n \in Nodes, StreamOpen(c, n)
        PROVE  TokenInv'
    <2>1. /\ conn[c].phase = "unused"
          /\ conn' = [conn EXCEPT ![c] = [phase |-> "opening", node |-> n, gone |-> FALSE]]
          /\ timer' = [timer EXCEPT ![n] = NoPending]
      BY <1>3 DEF StreamOpen
    <2>2. \A m \in Nodes : timer'[m].token # NoToken => timer'[m] = timer[m]
      BY <1>0, <2>1 DEF NoPending
    <2>3. \A b \in Conns : conn[b].phase \in {"closed", "dead"} => conn'[b] = conn[b]
      BY <1>0, <2>1
    <2>4. TokensStay
      BY <1>1, <2>2, <2>3 DEF TokensStay, Live
    <2> QED  BY <1>1, <2>4, NoAnswer, TokensKept DEF FewerAnswers, QuietAnswers
  <1> QED  BY <1>2, <1>3 DEF StreamStep

LEMMA CloseReplyTokens ==
  ASSUME StateType, StateType', TokenInv, NEW n \in Nodes, CloseReply(n)
  PROVE  TokenInv'
  <1>1. PICK t : t = Head(replies[n]).result
    OBVIOUS
  <1>2. /\ replies[n] # <<>> /\ Head(replies[n]).kind = "close"
        /\ timer' = IF t = NoToken THEN timer
                    ELSE [timer EXCEPT ![n] = [token |-> t, left |-> OfflineDelay]]
        /\ replies' = [replies EXCEPT ![n] = Tail(@)]
        /\ UNCHANGED <<lease, pending, conn, history>>
    BY <1>1 DEF CloseReply
  <1>3. AnswersWithin({}) /\ QuietAnswers({})
    BY <1>2, NoAnswer DEF FewerAnswers, QuietAnswers
  <1>4. CASE t = NoToken
    <2>1. TokensStay
      BY <1>2, <1>4 DEF TokensStay, Live
    <2> QED  BY <1>3, <2>1, TokensKept
  <1>5. CASE t # NoToken
    <2>1. replies[n][1] = Head(replies[n]) /\ 1 \in 1..Len(replies[n])
      BY <1>2, Taken DEF StateType
    <2>2. PICK q \in Reply : q = replies[n][1]
      BY <1>2, <2>1, Taken DEF StateType
    <2>3. q.kind = "close" /\ q.result = t
      BY <1>1, <1>2, <2>1, <2>2
    <2>4. t \in Conns /\ conn[t].phase \in {"closed", "dead"}
      BY <1>5, <2>1, <2>2, <2>3 DEF Reply, TokenInv, TokensAreLeft, AnswersAreLeft, Left
    <2>5. /\ timer'[n].token = t /\ timer'[n].left = OfflineDelay
          /\ \A m \in Nodes \ {n} : timer'[m] = timer[m]
      BY <1>2, <1>5 DEF StateType
    <2>6. PendingIsLeft' /\ TimersAreLeft'
      BY <1>2, <2>4, <2>5
        DEF TokenInv, TokensAreLeft, PendingIsLeft, TimersAreLeft, Left, Live
    <2>7. AnswersAreLeft'
      <3>1. SUFFICES ASSUME NEW m \in Nodes, NEW k \in 1..Len(replies'[m]),
                            replies'[m][k].kind = "close", replies'[m][k].result # NoToken
                     PROVE  conn'[replies'[m][k].result].phase \in {"closed", "dead"}
        BY DEF AnswersAreLeft, Left
      <3>2. PICK j \in 1..Len(replies[m]) : replies'[m][k] = replies[m][j]
        BY <1>3 DEF AnswersWithin
      <3> QED  BY <1>2, <3>1, <3>2 DEF TokenInv, TokensAreLeft, AnswersAreLeft, Left
    <2>8. AwayForLong'
      <3>1. history.away \in Nat /\ history' = history /\ pending' = pending
        BY <1>2 DEF StateType, Past
      <3>2. timer'[n].left + history.away >= OfflineDelay
        BY <2>5, <3>1, Sizes
      <3> QED  BY <2>5, <3>1, <3>2 DEF TokenInv, AwayForLong
    <2> QED  BY <2>6, <2>7, <2>8 DEF TokenInv, TokensAreLeft
  <1> QED  BY <1>4, <1>5

LEMMA NodeTokens ==
  ASSUME StateType, StateType', LeaseInv, TokenInv, NEW n \in Nodes, NodeStep(n)
  PROVE  TokenInv'
  <1>0. conn \in [Conns -> ConnRecord] /\ timer \in [Nodes -> Token] /\ history \in Past
    BY DEF StateType
  <1>1. CASE OpenReply(n)
    <2>1. PICK r : r = Head(replies[n])
      OBVIOUS
    <2>2. /\ replies[n] # <<>> /\ r.conn \in Conns /\ conn[r.conn].phase = "opened"
          /\ conn' = [conn EXCEPT ![r.conn].phase = "open"]
          /\ replies' = [replies EXCEPT ![n] = Tail(@)]
          /\ UNCHANGED <<lease, pending, timer, history>>
      BY <1>1, <2>1, OpenReplyIs DEF LeaseInv
    <2>3. TokensStay
      BY <1>0, <2>2 DEF TokensStay, Live
    <2> QED  BY <2>2, <2>3, NoAnswer, TokensKept DEF FewerAnswers, QuietAnswers
  <1>2. CASE CloseReply(n)
    BY <1>2, CloseReplyTokens
  <1>3. CASE FinalizeReply(n)
    <2>1. /\ replies[n] # <<>> /\ replies' = [replies EXCEPT ![n] = Tail(@)]
          /\ UNCHANGED <<lease, pending, conn, timer, history>>
      BY <1>3 DEF FinalizeReply
    <2>2. TokensStay
      BY <2>1 DEF TokensStay, Live
    <2> QED  BY <2>1, <2>2, NoAnswer, TokensKept DEF FewerAnswers, QuietAnswers
  <1>4. CASE TimerFires(n)
    <2> DEFINE r == [kind |-> "finalize", conn |-> timer[n].token, result |-> "offline",
                     no |-> history.count + 1]
    <2>1. /\ timer[n].token # NoToken /\ timer' = [timer EXCEPT ![n] = NoPending]
          /\ UNCHANGED <<lease, conn>>
          /\ \/ /\ pending' = NoPending /\ history' = Decide("offline")
                /\ replies' = [replies EXCEPT ![n] = Append(@, r)]
             \/ UNCHANGED <<pending, history, replies>>
      BY <1>4 DEF TimerFires, Answer
    <2>2. r \in Reply
      <3>1. timer[n].token \in Conns /\ history.count \in Nat
        BY <1>0, <2>1 DEF Token, Past
      <3> QED  BY <3>1 DEF Reply
    <2>3. r.kind # "close"
      OBVIOUS
    <2> HIDE DEF r
    <2>4. \A m \in Nodes : timer'[m].token # NoToken => timer'[m] = timer[m]
      BY <1>0, <2>1 DEF NoPending
    <2>5. CASE pending' = NoPending /\ history' = Decide("offline")
               /\ replies' = [replies EXCEPT ![n] = Append(@, r)]
      <3>1. history'.away = history.away
        BY <1>0, <2>5, Decided DEF Decisions
      <3>2. TokensStay
        BY <2>1, <2>4, <2>5, <3>1 DEF TokensStay, NoPending, Live
      <3>3. AnswersWithin({r}) /\ QuietAnswers({r})
        BY <2>2, <2>3, <2>5, OneAnswer DEF QuietAnswers
      <3> QED  BY <3>2, <3>3, TokensKept
    <2>6. CASE UNCHANGED <<pending, history, replies>>
      <3>1. TokensStay
        BY <2>1, <2>4, <2>6 DEF TokensStay, Live
      <3> QED  BY <2>6, <3>1, NoAnswer, TokensKept DEF FewerAnswers, QuietAnswers
    <2> QED  BY <2>1, <2>5, <2>6
  <1>5. CASE Crash(n)
    <2>1. /\ conn' = [c \in Conns |->
               IF conn[c].node = n THEN [conn[c] EXCEPT !.phase = "dead"] ELSE conn[c]]
          /\ timer' = [timer EXCEPT ![n] = NoPending]
          /\ replies' = [replies EXCEPT ![n] = <<>>]
          /\ UNCHANGED <<lease, pending>>
      BY <1>5 DEF Crash
    <2>2. \A c \in Conns : conn'[c].phase = "dead" \/ conn'[c] = conn[c]
      BY <1>0, <2>1 DEF ConnRecord
    <2>3. \A m \in Nodes : timer'[m].token # NoToken => timer'[m] = timer[m]
      BY <1>0, <2>1 DEF NoPending
    <2>4. history'.away = history.away
      BY <1>5, MishapsCount DEF Loses
    <2>5. TokensStay
      BY <2>1, <2>2, <2>3, <2>4 DEF TokensStay, Live
    <2> QED  BY <2>1, <2>5, NoAnswer, TokensKept DEF FewerAnswers, QuietAnswers
  <1>6. CASE FinalizeFails(n)
    <2>1. /\ timer' = [timer EXCEPT ![n] = NoPending]
          /\ UNCHANGED <<lease, pending, conn, replies>>
      BY <1>6 DEF FinalizeFails
    <2>2. \A m \in Nodes : timer'[m].token # NoToken => timer'[m] = timer[m]
      BY <1>0, <2>1 DEF NoPending
    <2>3. history'.away = history.away
      BY <1>6, MishapsCount DEF Fails
    <2>4. TokensStay
      BY <2>1, <2>2, <2>3 DEF TokensStay, Live
    <2> QED  BY <2>1, <2>4, NoAnswer, TokensKept DEF FewerAnswers, QuietAnswers
  <1>7. CASE AnswerLost(n)
    <2>1. PICK c : c = Head(replies[n]).conn
      OBVIOUS
    <2>2. /\ replies[n] # <<>> /\ replies' = [replies EXCEPT ![n] = Tail(@)]
          /\ UNCHANGED <<lease, pending, timer>>
          /\ \/ /\ c \in Conns /\ conn[c].phase = "opened"
                /\ conn' = [conn EXCEPT ![c].phase = "unleased"]
             \/ conn' = conn
      BY <1>7, <2>1, AnswerLostIs DEF LeaseInv
    <2>3. \A b \in Conns : conn[b].phase \in {"closed", "dead"} => conn'[b] = conn[b]
      BY <1>0, <2>2
    <2>4. history'.away = history.away
      BY <1>7, MishapsCount DEF Loses
    <2>5. TokensStay
      BY <2>2, <2>3, <2>4 DEF TokensStay, Live
    <2> QED  BY <2>2, <2>5, NoAnswer, TokensKept DEF FewerAnswers, QuietAnswers
  <1> QED  BY <1>1, <1>2, <1>3, <1>4, <1>5, <1>6, <1>7 DEF NodeStep, Replied, Confirming

\* What a tick does to tokens, timers and the time away.
LEMMA TickTimes ==
  ASSUME StateType, TokenInv, Tick
  PROVE  /\ Live' \subseteq Live
         /\ pending'.token = pending.token \/ pending'.token = NoToken
         /\ pending.left > 1 => pending'.token = pending.token /\ pending'.left = pending.left - 1
         /\ \A n \in Nodes :
              /\ timer'[n].token = timer[n].token
              /\ timer[n].token # NoToken => timer'[n].left = timer[n].left - 1
         /\ history'.away = IF Live = {} THEN Capped(history.away, OfflineDelay) ELSE 0
         /\ history'.decided = history.decided /\ history'.count = history.count
         /\ history'.again = history.again /\ history'.crossed = history.crossed
         /\ history'.swallowed = history.swallowed /\ history'.failures = history.failures
  <1>0. /\ lease \in [Conns -> Nat] /\ pending \in Token /\ timer \in [Nodes -> Token]
        /\ history \in Past
    BY DEF StateType
  <1>1. /\ lease' = [c \in Conns |-> Less(lease[c])]
        /\ pending' = Aged(pending)
        /\ timer' = [n \in Nodes |->
             IF timer[n].token = NoToken THEN NoPending ELSE [timer[n] EXCEPT !.left = @ - 1]]
        /\ history' = [history EXCEPT !.away =
                        IF Live = {} THEN Capped(@, OfflineDelay) ELSE 0]
    BY DEF Tick
  <1>2. Live' \subseteq Live
    BY <1>0, <1>1 DEF Live, Less
  <1>3. /\ pending'.token = pending.token \/ pending'.token = NoToken
        /\ pending.left > 1 => pending'.token = pending.token /\ pending'.left = pending.left - 1
    <2>1. PICK q : q = [pending EXCEPT !.left = @ - 1]
      OBVIOUS
    <2>2. /\ q.token = pending.token /\ q.left = pending.left - 1
          /\ Aged(pending) = IF pending.left > 1 THEN q ELSE NoPending
      BY <1>0, <2>1, Earlier
    <2> QED  BY <1>1, <2>2 DEF NoPending
  <1>4. \A n \in Nodes :
          /\ timer'[n].token = timer[n].token
          /\ timer[n].token # NoToken => timer'[n].left = timer[n].left - 1
    <2>1. ASSUME NEW n \in Nodes
          PROVE  /\ timer'[n].token = timer[n].token
                 /\ timer[n].token # NoToken => timer'[n].left = timer[n].left - 1
      <3>1. timer[n] \in Token
        BY <1>0
      <3>2. LET q == [timer[n] EXCEPT !.left = @ - 1] IN
            q.token = timer[n].token /\ q.left = timer[n].left - 1
        BY <3>1, Earlier
      <3> QED  BY <1>1, <3>2 DEF NoPending
    <2> QED  BY <2>1
  <1>5. PICK a : a = IF Live = {} THEN Capped(history.away, OfflineDelay) ELSE 0
    OBVIOUS
  <1>6. history' = [history EXCEPT !.away = a]
    BY <1>1, <1>5
  <1> QED  BY <1>0, <1>2, <1>3, <1>4, <1>5, <1>6 DEF Past

LEMMA TickTokens ==
  ASSUME StateType, TokenInv, Tick
  PROVE  TokenInv'
  <1>1. conn' = conn /\ replies' = replies
    BY DEF Tick
  <1>2. /\ Live' \subseteq Live
        /\ pending'.token = pending.token \/ pending'.token = NoToken
        /\ \A n \in Nodes :
             /\ timer'[n].token = timer[n].token
             /\ timer[n].token # NoToken => timer'[n].left = timer[n].left - 1
        /\ history'.away = IF Live = {} THEN Capped(history.away, OfflineDelay) ELSE 0
    BY TickTimes
  <1>3. PendingIsLeft' /\ TimersAreLeft' /\ AnswersAreLeft'
    BY <1>1, <1>2
      DEF TokenInv, TokensAreLeft, PendingIsLeft, TimersAreLeft, AnswersAreLeft, Left
  <1>4. history.away \in Nat /\ history.away <= OfflineDelay
    BY DEF StateType, Past, TokenInv, AwayForLong
  <1>5. ASSUME NEW n \in Nodes, pending'.token # NoToken, timer'[n].token = pending'.token
        PROVE  timer'[n].left + history'.away >= OfflineDelay \/ history'.away = OfflineDelay
    <2>1. pending.token # NoToken /\ timer[n].token = pending.token /\ Live = {}
      BY <1>2, <1>5 DEF TokenInv, TokensAreLeft, PendingIsLeft
    <2>2. timer[n].left + history.away >= OfflineDelay \/ history.away = OfflineDelay
      BY <2>1 DEF TokenInv, AwayForLong
    <2>3. timer[n].left \in Int /\ timer'[n].left = timer[n].left - 1
      BY <1>2, <2>1 DEF StateType, Token
    <2>4. history'.away = IF history.away < OfflineDelay THEN history.away + 1 ELSE OfflineDelay
      BY <1>2, <2>1 DEF Capped
    <2> QED  BY <1>4, <2>2, <2>3, <2>4, Sizes
  <1>6. history'.away <= OfflineDelay
    BY <1>2, <1>4, Sizes DEF Capped
  <1> QED  BY <1>3, <1>5, <1>6 DEF TokenInv, TokensAreLeft, AwayForLong

LEMMA TokenStep ==
  ASSUME StateType, LeaseInv, TokenInv, [Next]_vars
  PROVE  TokenInv'
  <1>0. StateType' /\ history \in Past
    BY TypesStep DEF StateType
  <1>1. ASSUME NEW c \in Conns, StoreStep(c) \/ StreamStep(c)
        PROVE  TokenInv'
    BY <1>0, <1>1, StoreTokens, StreamTokens
  <1>2. ASSUME NEW n \in Nodes, NodeStep(n)
        PROVE  TokenInv'
    BY <1>0, <1>2, NodeTokens
  <1>3. ASSUME UNCHANGED <<lease, pending, conn, timer, replies>>, history'.away = history.away
        PROVE  TokenInv'
    <2>1. TokensStay
      BY <1>3 DEF TokensStay, Live
    <2> QED  BY <1>0, <1>3, <2>1, NoAnswer, TokensKept DEF FewerAnswers, QuietAnswers
  <1>4. ASSUME NEW i \in DOMAIN announcing, Announce(i)
        PROVE  TokenInv'
    <2>1. /\ history' = [history EXCEPT !.crossed = @ \/ announcing[i].no < told.no]
          /\ UNCHANGED <<lease, pending, conn, timer, replies>>
      BY <1>4 DEF Announce
    <2>2. history'.away = history.away
      BY <1>0, <2>1 DEF Past
    <2> QED  BY <1>3, <2>1, <2>2
  <1>5. CASE Tick
    BY <1>5, TickTokens
  <1>6. CASE UNCHANGED vars
    BY <1>3, <1>6 DEF vars
  <1> QED  BY <1>1, <1>2, <1>4, <1>5, <1>6 DEF Next
-----------------------------------------------------------------------------
(* Decisions.                                                               *)

\* The steps that decide nothing and leave leases and the token alone.
SameDecision ==
  /\ pending' = pending /\ Live' = Live
  /\ history'.decided = history.decided /\ history'.count = history.count
  /\ history'.again = history.again /\ Mishaps' >= Mishaps

LEMMA SameHistory ==
  ASSUME StateType, UNCHANGED <<lease, pending, history>>
  PROVE  SameDecision
  BY DEF StateType, Past, SameDecision, Live, Mishaps

LEMMA DecidingSteps ==
  ASSUME StateType, [Next]_vars
  PROVE  \/ \E c \in Conns : StoreOpen(c) \/ StoreClose(c)
         \/ \E n \in Nodes : TimerFires(n)
         \/ Tick \/ SameDecision
  <1>0. /\ lease \in [Conns -> Nat] /\ history \in Past
        /\ history.swallowed \in Nat /\ history.failures \in Nat
    BY DEF StateType, Past
  <1>1. ASSUME NEW c \in Conns, StoreStep(c)
        PROVE  StoreOpen(c) \/ StoreClose(c) \/ SameDecision
    <2>1. CASE StoreOpenFails(c) \/ StoreCloseFails(c) \/ StoreBeatFails(c)
      BY <2>1, MishapsCount DEF Fails, SameDecision, Live
    <2>2. CASE StoreBeat(c)
      <3>1. /\ lease' = [lease EXCEPT ![c] = Renewed(c)] /\ UNCHANGED <<pending, history>>
        BY <2>2 DEF StoreBeat
      <3>2. Live' = Live
        BY <1>0, <3>1, Sizes DEF Live, Renewed
      <3> QED  BY <1>0, <3>1, <3>2 DEF SameDecision, Mishaps
    <2> QED  BY <1>1, <2>1, <2>2 DEF StoreStep, Opening, Beating, Closing
  <1>2. ASSUME NEW c \in Conns, StreamStep(c)
        PROVE  SameDecision
    <2>1. UNCHANGED <<lease, pending, history>>
      BY <1>2 DEF StreamStep, StreamGone, StreamClose, BeatFires, StreamOpen
    <2> QED  BY <2>1, SameHistory
  <1>3. ASSUME NEW n \in Nodes, NodeStep(n)
        PROVE  TimerFires(n) \/ SameDecision
    <2>1. CASE OpenReply(n) \/ CloseReply(n) \/ FinalizeReply(n)
      <3>1. UNCHANGED <<lease, pending, history>>
        BY <2>1 DEF OpenReply, CloseReply, FinalizeReply
      <3> QED  BY <3>1, SameHistory
    <2>2. CASE Crash(n) \/ AnswerLost(n) \/ FinalizeFails(n)
      BY <2>2, MishapsCount DEF Fails, Loses, SameDecision, Live
    <2> QED  BY <1>3, <2>1, <2>2 DEF NodeStep, Replied, Confirming
  <1>4. ASSUME NEW i \in DOMAIN announcing, Announce(i)
        PROVE  SameDecision
    <2>1. /\ history' = [history EXCEPT !.crossed = @ \/ announcing[i].no < told.no]
          /\ UNCHANGED <<lease, pending>>
      BY <1>4 DEF Announce
    <2>2. /\ history'.decided = history.decided /\ history'.count = history.count
          /\ history'.again = history.again /\ history'.swallowed = history.swallowed
          /\ history'.failures = history.failures
      BY <1>0, <2>1 DEF Past
    <2> QED  BY <1>0, <2>1, <2>2 DEF SameDecision, Mishaps, Live
  <1>5. CASE UNCHANGED vars
    <2>1. UNCHANGED <<lease, pending, history>>
      BY <1>5 DEF vars
    <2> QED  BY <2>1, SameHistory
  <1> QED  BY <1>1, <1>2, <1>3, <1>4, <1>5 DEF Next

\* What an open, a close and a confirmed offline decide.
LEMMA OpenDecides ==
  ASSUME StateType, DecidedOnline, NEW c \in Conns, StoreOpen(c)
  PROVE  /\ Live' = Live \union {c} /\ pending'.token = NoToken
         /\ history'.decided = "online"
         /\ OpenResult = "online" => history'.count = history.count + 1
         /\ OpenResult = "nothing" => history'.count = history.count
         /\ OpenResult = "online" => Live = {} /\ pending.token = NoToken
         /\ history'.again = IF OpenResult = "online" /\ history.decided = "online"
                             THEN history.again \union {"online"} ELSE history.again
         /\ OpenResult = "nothing" => history.decided = "online"
         /\ history'.crossed = history.crossed
         /\ history'.swallowed = history.swallowed /\ history'.failures = history.failures
  <1>1. lease \in [Conns -> Nat] /\ history \in Past
    BY DEF StateType
  <1>2. /\ lease' = [lease EXCEPT ![c] = LeaseTtl] /\ pending' = NoPending
        /\ history' = [Decide(OpenResult) EXCEPT !.away = 0]
    BY DEF StoreOpen
  <1>3. Live' = Live \union {c} /\ pending'.token = NoToken
    BY <1>1, <1>2, Sizes DEF Live, NoPending
  <1>4. /\ OpenResult = "online" => Live = {} /\ pending.token = NoToken
        /\ OpenResult = "nothing" => history.decided = "online"
    BY DEF OpenResult, DecidedOnline
  <1>5. PICK h \in Past : h = Decide(OpenResult)
    BY <1>1, OpenIs, Decided
  <1>6. /\ h.decided = IF OpenResult = "nothing" THEN history.decided ELSE OpenResult
        /\ h.count = IF OpenResult = "nothing" THEN history.count ELSE history.count + 1
        /\ h.again = IF OpenResult # "nothing" /\ history.decided = OpenResult
                     THEN history.again \union {OpenResult} ELSE history.again
        /\ h.crossed = history.crossed
        /\ h.swallowed = history.swallowed /\ h.failures = history.failures
    BY <1>1, <1>5, OpenIs, Decided
  <1>7. /\ history'.decided = h.decided /\ history'.count = h.count /\ history'.again = h.again
        /\ history'.crossed = h.crossed
        /\ history'.swallowed = h.swallowed /\ history'.failures = h.failures
    BY <1>2, <1>5 DEF Past
  <1> QED  BY <1>3, <1>4, <1>6, <1>7, OpenIs

LEMMA CloseDecides ==
  ASSUME StateType, NEW c \in Conns, StoreClose(c)
  PROVE  /\ Live' = Live \ {c} /\ history' = history
         /\ Live = {c} => pending'.token = c /\ pending'.left = TokenLife
         /\ Live # {c} => pending' = pending
  <1>1. /\ lease' = [lease EXCEPT ![c] = 0]
        /\ pending' = IF LeavesToken(c) THEN [token |-> c, left |-> TokenLife] ELSE pending
        /\ history' = history
    BY DEF StoreClose, WithoutLease
  <1> QED  BY <1>1 DEF StateType, Live, LeavesToken

LEMMA TimerDecides ==
  ASSUME StateType, DecidedOnline, NEW n \in Nodes, TimerFires(n)
  PROVE  \/ /\ Live = {} /\ Live' = {} /\ pending.token = timer[n].token
            /\ pending.token # NoToken /\ pending'.token = NoToken
            /\ history'.decided = "offline" /\ history.decided = "online"
            /\ history'.count = history.count + 1 /\ history'.again = history.again
            /\ history'.crossed = history.crossed
            /\ history'.swallowed = history.swallowed /\ history'.failures = history.failures
         \/ /\ UNCHANGED <<lease, pending, history, replies>>
            /\ ~(pending.token = timer[n].token /\ Live = {})
  <1>1. /\ timer[n].token # NoToken /\ lease' = lease
        /\ IF pending.token = timer[n].token /\ Live = {}
           THEN pending' = NoPending /\ history' = Decide("offline")
           ELSE UNCHANGED <<pending, history, replies>>
    BY DEF TimerFires, Confirms
  <1>2. CASE ~(pending.token = timer[n].token /\ Live = {})
    BY <1>1, <1>2
  <1>3. CASE pending.token = timer[n].token /\ Live = {}
    <2>1. pending' = NoPending /\ history' = Decide("offline") /\ Live' = {}
      BY <1>1, <1>3 DEF Live
    <2>2. history.decided = "online" /\ history \in Past
      BY <1>1, <1>3 DEF DecidedOnline, StateType
    <2>3. /\ history'.decided = "offline" /\ history'.count = history.count + 1
          /\ history'.again = history.again /\ history'.crossed = history.crossed
          /\ history'.swallowed = history.swallowed /\ history'.failures = history.failures
      BY <2>1, <2>2, Decided DEF Decisions
    <2> QED  BY <1>1, <1>3, <2>1, <2>2, <2>3 DEF NoPending
  <1> QED  BY <1>2, <1>3

LEMMA DecidedStep ==
  ASSUME StateType, TokenInv, DecidedOnline, [Next]_vars
  PROVE  DecidedOnline'
  <1>0. history.count \in Nat
    BY DEF StateType, Past
  <1>1. ASSUME NEW c \in Conns, StoreOpen(c)
        PROVE  DecidedOnline'
    BY <1>0, <1>1, OpenDecides, OpenIs DEF DecidedOnline
  <1>2. ASSUME NEW c \in Conns, StoreClose(c)
        PROVE  DecidedOnline'
    BY <1>2, CloseDecides DEF DecidedOnline
  <1>3. ASSUME NEW n \in Nodes, TimerFires(n)
        PROVE  DecidedOnline'
    BY <1>0, <1>3, TimerDecides DEF DecidedOnline, Live
  <1>4. CASE Tick
    BY <1>4, TickTimes DEF DecidedOnline
  <1>5. CASE SameDecision
    BY <1>5 DEF DecidedOnline, SameDecision
  <1> QED  BY <1>1, <1>2, <1>3, <1>4, <1>5, DecidingSteps
\* No mishap: leases and the token that waits survive a tick.
LEMMA TickKeeps ==
  ASSUME StateType, LeaseInv, TokenInv, DecisionInv, Tick, Mishaps = 0
  PROVE  /\ Live' = Live
         /\ pending.token # NoToken =>
              /\ pending'.token = pending.token /\ pending'.left = pending.left - 1
              /\ TimerHolds(conn[pending.token].node)
              /\ conn[pending.token].node \in Nodes /\ pending.token \in Conns
  <1>0. lease \in [Conns -> Nat] /\ pending \in Token /\ timer \in [Nodes -> Token]
    BY DEF StateType
  <1>1. /\ \A n \in Nodes : replies[n] = <<>>
        /\ \A c \in Conns : conn[c].phase \notin {"opening", "closing"}
        /\ \A n \in Nodes : timer[n].token # NoToken => timer[n].left > -MaxLag
        /\ lease' = [c \in Conns |-> Less(lease[c])]
    BY DEF Tick, Prompt
  <1>2. \A n \in Nodes : \A k : ~(k \in 1..Len(replies[n]))
    <2>1. \A n \in Nodes : Len(replies[n]) = 0
      BY <1>1, EmptySeq
    <2> QED  BY <2>1
  <1>3. ASSUME NEW c \in Live
        PROVE  lease'[c] > 0
    <2>1. c \in Conns /\ conn[c].phase \in {"opened", "open", "closing"}
      BY DEF DecisionInv, LeasesAreUp, Live
    <2>2. conn[c].phase # "opened"
      <3>1. SUFFICES ASSUME conn[c].phase = "opened" PROVE FALSE
        OBVIOUS
      <3>2. PICK n \in Nodes : n = conn[c].node
        BY <2>1, <3>1 DEF StateType
      <3> QED  BY <1>2, <2>1, <3>1, <3>2 DEF LeaseInv, OpensAreAnswered
    <2>3. conn[c].phase = "open"
      BY <1>1, <2>1, <2>2
    <2>4. missed[c] = 0 /\ Outlives(0)
      <3>1. 0 \in Nat /\ 0 \in Int /\ FALSE \in BOOLEAN
        OBVIOUS
      <3> QED  BY <2>1, <3>1, Remaining DEF DecisionInv, LeasesAreUp
    <2> QED  BY <2>1, <2>3, <2>4, TickLeases
  <1>4. Live' = Live
    BY <1>0, <1>1, <1>3 DEF Live, Less
  <1>5. ASSUME pending.token # NoToken
        PROVE  /\ pending'.token = pending.token /\ pending'.left = pending.left - 1
               /\ TimerHolds(conn[pending.token].node)
               /\ conn[pending.token].node \in Nodes /\ pending.token \in Conns
    <2>1. PICK t \in Conns : t = pending.token
      BY <1>0, <1>5 DEF Token
    <2>2. Left(t)
      BY <1>5, <2>1 DEF TokenInv, TokensAreLeft, PendingIsLeft
    <2>3. PICK n \in Nodes : n = conn[t].node
      BY <2>2 DEF Left, StateType
    <2>4. TimerHolds(n)
      BY <1>1, <1>2, <1>5, <2>1, <2>3 DEF DecisionInv, WillBePresented, TokenIsComing, IsComing
    <2>5. timer[n].left > -MaxLag /\ timer[n].left \in Int
          /\ pending.left = timer[n].left + TokenSlack
      BY <1>0, <1>1, <1>5, <2>1, <2>4 DEF TimerHolds, Token
    <2>6. pending.left > 1
      BY <2>5, Sizes
    <2> QED  BY <2>1, <2>3, <2>4, <2>6, TickTimes
  <1> QED  BY <1>4, <1>5

LEMMA RepeatStep ==
  ASSUME StateType, LeaseInv, TokenInv, DecisionInv, [Next]_vars
  PROVE  NoneIsRepeated'
  <1>0. DecidedOnline /\ NoneIsRepeated
    BY DEF DecisionInv
  <1>1. ASSUME NEW c \in Conns, StoreOpen(c)
        PROVE  NoneIsRepeated'
    <2>1. /\ Live' = Live \union {c} /\ Mishaps' = Mishaps
          /\ OpenResult = "online" => Live = {} /\ pending.token = NoToken
          /\ history'.again = IF OpenResult = "online" /\ history.decided = "online"
                              THEN history.again \union {"online"} ELSE history.again
      BY <1>0, <1>1, OpenDecides DEF Mishaps
    <2> QED  BY <1>0, <2>1 DEF NoneIsRepeated
  <1>2. ASSUME NEW c \in Conns, StoreClose(c)
        PROVE  NoneIsRepeated'
    <2>1. /\ Live' = Live \ {c} /\ history' = history
          /\ Live = {c} => pending'.token # NoToken
          /\ Live # {c} => pending' = pending
      BY <1>2, CloseDecides, Sizes
    <2>2. Mishaps' = Mishaps
      BY <2>1 DEF Mishaps
    <2> QED  BY <1>0, <2>1, <2>2 DEF NoneIsRepeated
  <1>3. ASSUME NEW n \in Nodes, TimerFires(n)
        PROVE  NoneIsRepeated'
    BY <1>0, <1>3, TimerDecides DEF NoneIsRepeated, Mishaps, Live
  <1>4. CASE Tick
    <2>1. Mishaps' = Mishaps /\ history'.again = history.again
          /\ history'.decided = history.decided
      BY <1>4, TickTimes DEF Mishaps, DecisionInv
    <2> QED  BY <1>0, <1>4, <2>1, TickKeeps DEF NoneIsRepeated
  <1>5. CASE SameDecision
    <2>1. Mishaps' = 0 => Mishaps = 0
      <3>1. Mishaps \in Nat
        BY DEF StateType, Past, Mishaps
      <3> QED  BY <1>5, <3>1 DEF SameDecision
    <2> QED  BY <1>0, <1>5, <2>1 DEF NoneIsRepeated, SameDecision
  <1> QED  BY <1>1, <1>2, <1>3, <1>4, <1>5, DecidingSteps

LEMMA UpStep ==
  ASSUME StateType, LeaseInv, TokenInv, DecisionInv, [Next]_vars
  PROVE  LeasesAreUp'
  <1> DEFINE Up(p) == p \in {"opened", "open", "closing"}
  <1>0. /\ conn \in [Conns -> ConnRecord] /\ LeasesAreUp /\ DecidedOnline
        /\ Mishaps \in Nat /\ OpensAreAwaited
    BY DEF StateType, DecisionInv, Past, Mishaps, LeaseInv
  <1>1. ASSUME NEW c \in Conns, StoreOpen(c)
        PROVE  LeasesAreUp'
    <2>1. Live' = Live \union {c} /\ Mishaps' = Mishaps
      BY <1>0, <1>1, OpenDecides DEF Mishaps
    <2>2. conn' = [conn EXCEPT ![c].phase = "opened"] /\ missed' = missed
      BY <1>1 DEF StoreOpen
    <2> QED  BY <1>0, <2>1, <2>2 DEF LeasesAreUp, ConnRecord
  <1>2. ASSUME NEW c \in Conns, StoreClose(c)
        PROVE  LeasesAreUp'
    <2>1. Live' = Live \ {c} /\ history' = history
      BY <1>2, CloseDecides
    <2>2. conn' = [conn EXCEPT ![c].phase = "closed"] /\ missed' = missed
      BY <1>2 DEF StoreClose
    <2> QED  BY <1>0, <2>1, <2>2 DEF LeasesAreUp, ConnRecord, Mishaps
  <1>3. ASSUME NEW n \in Nodes, TimerFires(n)
        PROVE  LeasesAreUp'
    <2>1. Live' \subseteq Live /\ Mishaps' = Mishaps
      BY <1>0, <1>3, TimerDecides DEF Mishaps, Live
    <2>2. conn' = conn /\ missed' = missed
      BY <1>3 DEF TimerFires
    <2> QED  BY <1>0, <2>1, <2>2 DEF LeasesAreUp
  <1>4. CASE Tick
    <2>1. Live' \subseteq Live /\ Mishaps' = Mishaps
      BY <1>4, TickTimes DEF Mishaps
    <2>2. conn' = conn /\ missed' = missed
      BY <1>4 DEF Tick
    <2> QED  BY <1>0, <2>1, <2>2 DEF LeasesAreUp
  <1>5. ASSUME SameDecision, \A c \in Conns : Up(conn[c].phase) => Up(conn'[c].phase),
               \A c \in Conns : missed[c] = 0 => missed'[c] = 0
        PROVE  LeasesAreUp'
    <2>1. Live' = Live /\ (Mishaps' = 0 => Mishaps = 0)
      BY <1>0, <1>5 DEF SameDecision
    <2> QED  BY <1>0, <1>5, <2>1 DEF LeasesAreUp, Live
  <1>6. CASE SameDecision /\ Mishaps' > 0
    BY <1>0, <1>6 DEF LeasesAreUp
  <1>7. ASSUME NEW c \in Conns, StoreStep(c), SameDecision
        PROVE  LeasesAreUp'
    <2>1. CASE StoreOpenFails(c) \/ StoreCloseFails(c) \/ StoreBeatFails(c)
      BY <1>6, <1>7, <2>1, MishapsCount DEF Fails
    <2>2. CASE StoreBeat(c)
      <3>1. conn' = conn /\ missed' = [missed EXCEPT ![c] = IF Outlives(@) THEN 0 ELSE @]
        BY <2>2 DEF StoreBeat
      <3>2. \A b \in Conns : missed[b] = 0 => missed'[b] = 0
        BY <3>1 DEF StateType
      <3> QED  BY <1>5, <1>7, <3>1, <3>2
    <2> QED  BY <1>1, <1>2, <1>7, <2>1, <2>2 DEF StoreStep, Opening, Beating, Closing
  <1>8. ASSUME NEW c \in Conns, StreamStep(c), SameDecision
        PROVE  LeasesAreUp'
    <2>1. \/ conn' = conn \/ conn' = [conn EXCEPT ![c].gone = TRUE]
          \/ conn' = [conn EXCEPT ![c].phase = "closing"]
          \/ /\ conn[c].phase = "unused"
             /\ \E n :
                  conn' = [conn EXCEPT ![c] = [phase |-> "opening", node |-> n, gone |-> FALSE]]
      BY <1>8 DEF StreamStep, StreamGone, StreamClose, BeatFires, StreamOpen
    <2>2. \A b \in Conns : Up(conn[b].phase) => Up(conn'[b].phase)
      BY <1>0, <2>1 DEF ConnRecord
    <2>3. missed' = missed
      BY <1>8 DEF StreamStep, StreamGone, StreamClose, BeatFires, StreamOpen
    <2> QED  BY <1>5, <1>8, <2>2, <2>3
  <1>9. ASSUME NEW n \in Nodes, NodeStep(n), SameDecision
        PROVE  LeasesAreUp'
    <2>1. CASE OpenReply(n)
      <3>1. PICK r : r = Head(replies[n])
        OBVIOUS
      <3>2. /\ r.conn \in Conns /\ conn' = [conn EXCEPT ![r.conn].phase = "open"]
            /\ missed' = missed
        BY <1>0, <2>1, <3>1, OpenReplyIs
      <3>3. \A b \in Conns : Up(conn[b].phase) => Up(conn'[b].phase)
        BY <1>0, <3>2 DEF ConnRecord
      <3> QED  BY <1>5, <1>9, <3>2, <3>3
    <2>2. CASE CloseReply(n) \/ FinalizeReply(n)
      BY <1>5, <1>9, <2>2 DEF CloseReply, FinalizeReply
    <2>3. CASE Crash(n) \/ AnswerLost(n) \/ FinalizeFails(n)
      BY <1>6, <1>9, <2>3, MishapsCount DEF Fails, Loses
    <2> QED  BY <1>3, <1>9, <2>1, <2>2, <2>3 DEF NodeStep, Replied, Confirming
  <1>10. ASSUME NEW i \in DOMAIN announcing, Announce(i), SameDecision
         PROVE  LeasesAreUp'
    BY <1>5, <1>10 DEF Announce
  <1>11. ASSUME UNCHANGED vars, SameDecision
         PROVE  LeasesAreUp'
    <2>1. conn' = conn /\ missed' = missed
      BY <1>11 DEF vars
    <2> QED  BY <1>5, <1>11, <2>1
  <1>12. CASE SameDecision
    BY <1>4, <1>7, <1>8, <1>9, <1>10, <1>11, <1>12 DEF Next
  <1> QED  BY <1>1, <1>2, <1>3, <1>4, <1>12, DecidingSteps
\* What waits of tokens in the queues stays there, and no later one comes.
QueuesStay ==
  \A m \in Nodes :
    /\ NoTokenAfter(m, 0) => NoTokenAfter(m, 0)'
    /\ \A t \in Conns : IsComing(m, t) => IsComing(m, t)'

LEMMA SameQueues ==
  ASSUME UNCHANGED replies
  PROVE  QueuesStay
  BY DEF QueuesStay, NoTokenAfter, IsComing

LEMMA QuietAppend ==
  ASSUME StateType, NEW n \in Nodes, NEW r \in Reply, r.kind # "close" \/ r.result = NoToken,
         replies' = [replies EXCEPT ![n] = Append(@, r)]
  PROVE  QueuesStay
  <1>1. /\ \A m \in Nodes : Len(replies[m]) \in Nat /\ Len(replies'[m]) \in Nat
        /\ \A m \in Nodes \ {n} : replies'[m] = replies[m]
        /\ Len(replies'[n]) = Len(replies[n]) + 1
        /\ \A k \in 1..Len(replies[n]) : replies'[n][k] = replies[n][k]
        /\ replies'[n][Len(replies[n]) + 1] = r
    BY Answered DEF StateType
  <1>2. ASSUME NEW m \in Nodes, NEW k \in Nat, NoTokenAfter(m, k)
        PROVE  NoTokenAfter(m, k)'
    <2>1. SUFFICES ASSUME NEW l \in 1..Len(replies'[m]), l > k, replies'[m][l].kind = "close"
                   PROVE  replies'[m][l].result = NoToken
      BY DEF NoTokenAfter
    <2>2. CASE l \in 1..Len(replies[m])
      BY <1>1, <1>2, <2>1, <2>2 DEF NoTokenAfter
    <2>3. CASE ~(l \in 1..Len(replies[m]))
      <3>1. m = n /\ l = Len(replies[n]) + 1
        BY <1>1, <2>1, <2>3
      <3> QED  BY <1>1, <2>1, <3>1
    <2> QED  BY <2>2, <2>3
  <1>3. ASSUME NEW m \in Nodes, NEW t \in Conns, IsComing(m, t)
        PROVE  IsComing(m, t)'
    <2>1. PICK k \in 1..Len(replies[m]) :
            replies[m][k].kind = "close" /\ replies[m][k].result = t /\ NoTokenAfter(m, k)
      BY <1>3 DEF IsComing
    <2>2. k \in 1..Len(replies'[m]) /\ replies'[m][k] = replies[m][k]
      BY <1>1
    <2>3. NoTokenAfter(m, k)'
      BY <1>2, <2>1
    <2> QED  BY <2>1, <2>2, <2>3 DEF IsComing
  <1> QED  BY <1>2, <1>3 DEF QueuesStay

\* The first answer is taken: those behind it move up.
LEMMA TailMoves ==
  ASSUME StateType, NEW n \in Nodes, replies[n] # <<>>,
         replies' = [replies EXCEPT ![n] = Tail(@)]
  PROVE  /\ \A m \in Nodes \ {n} : replies'[m] = replies[m]
         /\ NoTokenAfter(n, 0) \/ NoTokenAfter(n, 1) => NoTokenAfter(n, 0)'
         /\ \A t \in Conns : IsComing(n, t) =>
              \/ IsComing(n, t)'
              \/ /\ replies[n][1].kind = "close" /\ replies[n][1].result = t
                 /\ NoTokenAfter(n, 1)
  <1>1. /\ \A m \in Nodes : Len(replies[m]) \in Nat /\ Len(replies'[m]) \in Nat
        /\ \A m \in Nodes \ {n} : replies'[m] = replies[m]
        /\ \A k \in 1..Len(replies'[n]) :
             k + 1 \in 1..Len(replies[n]) /\ replies'[n][k] = replies[n][k + 1]
        /\ \A k \in 1..Len(replies[n]) : k # 1 =>
             k - 1 \in 1..Len(replies'[n]) /\ replies'[n][k - 1] = replies[n][k]
    BY Taken DEF StateType
  <1>2. ASSUME NEW k \in Nat, NoTokenAfter(n, k) \/ NoTokenAfter(n, k + 1)
        PROVE  NoTokenAfter(n, k)'
    <2>1. SUFFICES ASSUME NEW l \in 1..Len(replies'[n]), l > k, replies'[n][l].kind = "close"
                   PROVE  replies'[n][l].result = NoToken
      BY DEF NoTokenAfter
    <2>2. PICK j \in 1..Len(replies[n]) : j = l + 1 /\ replies'[n][l] = replies[n][j]
      BY <1>1
    <2>3. j > k /\ j > k + 1
      BY <1>1, <2>1, <2>2
    <2> QED  BY <1>2, <2>1, <2>2, <2>3 DEF NoTokenAfter
  <1>3. NoTokenAfter(n, 0) \/ NoTokenAfter(n, 1) => NoTokenAfter(n, 0)'
    <2>1. PICK z \in Nat : z = 0
      OBVIOUS
    <2>2. NoTokenAfter(n, z) \/ NoTokenAfter(n, z + 1) => NoTokenAfter(n, z)'
      BY <1>2
    <2>3. z + 1 = 1
      BY <2>1
    <2> QED  BY <2>1, <2>2, <2>3
  <1>4. ASSUME NEW t \in Conns, IsComing(n, t),
               ~(/\ replies[n][1].kind = "close" /\ replies[n][1].result = t
                 /\ NoTokenAfter(n, 1))
        PROVE  IsComing(n, t)'
    <2>1. PICK k \in 1..Len(replies[n]) :
            replies[n][k].kind = "close" /\ replies[n][k].result = t /\ NoTokenAfter(n, k)
      BY <1>4 DEF IsComing
    <2>2. k # 1
      BY <1>4, <2>1
    <2>3. PICK j \in 1..Len(replies'[n]) : j = k - 1 /\ replies'[n][j] = replies[n][k]
      BY <1>1, <2>2
    <2>4. j \in Nat /\ j + 1 = k
      BY <1>1, <2>3
    <2>5. NoTokenAfter(n, j)'
      BY <1>2, <2>1, <2>4
    <2> QED  BY <2>1, <2>3, <2>5 DEF IsComing
  <1> QED  BY <1>1, <1>3, <1>4

\* A token that waits is still waited for.
LEMMA StillPresented ==
  ASSUME StateType, TokenInv, WillBePresented, QueuesStay, pending' = pending,
         Mishaps' = 0 => Mishaps = 0,
         \A c \in Conns : conn[c].phase = "opening" => conn'[c].phase = "opening",
         \A c \in Conns : Left(c) => conn'[c].node = conn[c].node,
         \A n \in Nodes : pending.token # NoToken /\ timer[n].token = pending.token =>
                            timer'[n] = timer[n]
  PROVE  WillBePresented'
  <1>1. SUFFICES ASSUME Mishaps = 0, pending.token # NoToken
                 PROVE  \/ \E c \in Conns : conn'[c].phase = "opening"
                        \/ TimerHolds(conn[pending.token].node)'
                        \/ TokenIsComing(conn[pending.token].node)'
    BY DEF WillBePresented
  <1>2. PICK t \in Conns : t = pending.token
    BY <1>1 DEF StateType, Token
  <1>3. Left(t)
    BY <1>1, <1>2 DEF TokenInv, TokensAreLeft, PendingIsLeft
  <1>4. PICK n \in Nodes : n = conn[t].node /\ n = conn'[t].node
    BY <1>3 DEF Left, StateType
  <1>5. \/ \E c \in Conns : conn[c].phase = "opening"
        \/ TimerHolds(n) \/ TokenIsComing(n)
    BY <1>1, <1>2, <1>4 DEF WillBePresented
  <1>6. ASSUME TimerHolds(n)
        PROVE  TimerHolds(n)'
    BY <1>1, <1>6 DEF TimerHolds, QueuesStay
  <1>7. ASSUME TokenIsComing(n)
        PROVE  TokenIsComing(n)'
    BY <1>2, <1>7 DEF TokenIsComing, QueuesStay
  <1> QED  BY <1>2, <1>4, <1>5, <1>6, <1>7

LEMMA ClosePresents ==
  ASSUME StateType, TokenInv, WillBePresented, NEW c \in Conns, StoreClose(c)
  PROVE  WillBePresented'
  <1>1. PICK t \in Conns \union {NoToken} : t = IF LeavesToken(c) THEN c ELSE NoToken
    OBVIOUS
  <1>2. PICK r : r = [kind |-> "close", conn |-> c, result |-> t, no |-> history.count + 1]
    OBVIOUS
  <1>3. PICK n \in Nodes : n = conn[c].node
    BY DEF StoreClose, StateType
  <1>4. /\ conn[c].phase = "closing" /\ conn' = [conn EXCEPT ![c].phase = "closed"]
        /\ replies' = [replies EXCEPT ![n] = Append(@, r)]
        /\ UNCHANGED <<timer, history>>
    BY <1>1, <1>2, <1>3 DEF StoreClose, Answer
  <1>5. r \in Reply /\ r.kind = "close" /\ r.result = t
    BY <1>2, Counted DEF Reply, StateType
  <1>6. /\ \A b \in Conns \ {c} : conn'[b] = conn[b]
        /\ conn'[c].node = n
    BY <1>3, <1>4 DEF StateType, ConnRecord
  <1>7. /\ Live = {c} => pending'.token = c /\ pending'.left = TokenLife
        /\ Live # {c} => pending' = pending
    BY CloseDecides
  <1>8. CASE Live # {c}
    <2>1. pending' = pending /\ t = NoToken
      BY <1>1, <1>7, <1>8 DEF LeavesToken
    <2>2. QueuesStay
      BY <1>4, <1>5, <2>1, QuietAppend
    <2>3. /\ \A b \in Conns : conn[b].phase = "opening" => conn'[b].phase = "opening"
          /\ \A b \in Conns : Left(b) => conn'[b].node = conn[b].node
      BY <1>3, <1>4, <1>6
    <2>4. Mishaps' = Mishaps /\ timer' = timer
      BY <1>4 DEF Mishaps
    <2> QED  BY <2>1, <2>2, <2>3, <2>4, StillPresented
  <1>9. CASE Live = {c}
    <2>1. t = c
      BY <1>1, <1>9 DEF LeavesToken
    <2>2. PICK k \in Nat : k = Len(replies[n]) + 1
      BY <1>4, <1>5, Answered DEF StateType
    <2>3. k \in 1..Len(replies'[n]) /\ replies'[n][k] = r /\ \A l \in 1..Len(replies'[n]) : ~(l > k)
      BY <1>4, <1>5, <2>2, Answered DEF StateType
    <2>4. NoTokenAfter(n, k)'
      BY <2>3 DEF NoTokenAfter
    <2>5. IsComing(n, c)'
      BY <1>5, <2>1, <2>3, <2>4 DEF IsComing
    <2>6. TokenIsComing(n)'
      BY <1>7, <1>9, <2>5 DEF TokenIsComing, TokenLife
    <2> QED  BY <1>6, <1>7, <1>9, <2>6 DEF WillBePresented
  <1> QED  BY <1>8, <1>9

LEMMA CloseReplyPresents ==
  ASSUME StateType, TokenInv, WillBePresented, NEW n \in Nodes, CloseReply(n)
  PROVE  WillBePresented'
  <1>1. PICK t : t = Head(replies[n]).result
    OBVIOUS
  <1>2. /\ replies[n] # <<>> /\ Head(replies[n]).kind = "close"
        /\ timer' = IF t = NoToken THEN timer
                    ELSE [timer EXCEPT ![n] = [token |-> t, left |-> OfflineDelay]]
        /\ replies' = [replies EXCEPT ![n] = Tail(@)]
        /\ UNCHANGED <<pending, conn, history>>
    BY <1>1 DEF CloseReply
  <1>3. Head(replies[n]) = replies[n][1] /\ 1 \in 1..Len(replies[n])
    BY <1>2, Taken DEF StateType
  <1>4. /\ \A m \in Nodes \ {n} : replies'[m] = replies[m]
        /\ NoTokenAfter(n, 0) \/ NoTokenAfter(n, 1) => NoTokenAfter(n, 0)'
        /\ \A s \in Conns : IsComing(n, s) =>
             \/ IsComing(n, s)'
             \/ t = s /\ NoTokenAfter(n, 1)
    BY <1>1, <1>2, <1>3, TailMoves
  <1>5. SUFFICES ASSUME Mishaps = 0, pending.token # NoToken,
                        \A c \in Conns : conn[c].phase # "opening"
                 PROVE  \/ TimerHolds(conn[pending.token].node)'
                        \/ TokenIsComing(conn[pending.token].node)'
    <2>1. Mishaps' = Mishaps
      BY <1>2 DEF Mishaps
    <2> QED  BY <1>2, <2>1 DEF WillBePresented
  <1>6. PICK s \in Conns : s = pending.token
    BY <1>5 DEF StateType, Token
  <1>7. PICK m \in Nodes : m = conn[s].node
    BY <1>5, <1>6 DEF TokenInv, TokensAreLeft, PendingIsLeft, Left, StateType
  <1>8. TimerHolds(m) \/ TokenIsComing(m)
    BY <1>5, <1>6, <1>7 DEF WillBePresented
  <1>9. CASE m # n
    <2>1. replies'[m] = replies[m] /\ timer'[m] = timer[m]
      BY <1>2, <1>4, <1>9 DEF StateType
    <2>2. TimerHolds(m) => TimerHolds(m)'
      BY <1>2, <2>1 DEF TimerHolds, NoTokenAfter
    <2>3. TokenIsComing(m) => TokenIsComing(m)'
      <3>1. IsComing(m, s) => IsComing(m, s)'
        BY <2>1 DEF IsComing, NoTokenAfter
      <3> QED  BY <1>2, <1>6, <3>1 DEF TokenIsComing, TokenLife
    <2> QED  BY <1>2, <1>6, <1>7, <1>8, <2>2, <2>3
  <1>10. CASE m = n
    <2>1. CASE TimerHolds(n)
      <3>1. t = NoToken
        <4>1. replies[n][1].kind = "close" => replies[n][1].result = NoToken
          BY <1>3, <2>1 DEF TimerHolds, NoTokenAfter
        <4> QED  BY <1>1, <1>2, <1>3, <4>1
      <3>2. TimerHolds(n)'
        BY <1>2, <1>4, <2>1, <3>1 DEF TimerHolds
      <3> QED  BY <1>2, <1>6, <1>7, <1>10, <3>2
    <2>2. CASE TokenIsComing(n)
      <3>1. pending.left = TokenLife /\ IsComing(n, s)
        BY <1>6, <2>2 DEF TokenIsComing
      <3>2. CASE IsComing(n, s)'
        <4>1. TokenIsComing(n)'
          BY <1>2, <1>6, <3>1, <3>2 DEF TokenIsComing, TokenLife
        <4> QED  BY <1>2, <1>6, <1>7, <1>10, <4>1
      <3>3. CASE t = s /\ NoTokenAfter(n, 1)
        <4>1. timer'[n].token = s /\ timer'[n].left = OfflineDelay
          BY <1>2, <1>5, <1>6, <3>3 DEF StateType
        <4>2. TimerHolds(n)'
          BY <1>2, <1>4, <1>6, <3>1, <3>3, <4>1 DEF TimerHolds, TokenLife
        <4> QED  BY <1>2, <1>6, <1>7, <1>10, <4>2
      <3> QED  BY <1>4, <3>1, <3>2, <3>3
    <2> QED  BY <1>8, <1>10, <2>1, <2>2
  <1> QED  BY <1>9, <1>10

\* Taking an answer that is not of a close.
LEMMA QuietTail ==
  ASSUME StateType, NEW n \in Nodes, replies[n] # <<>>, Head(replies[n]).kind # "close",
         replies' = [replies EXCEPT ![n] = Tail(@)]
  PROVE  QueuesStay
  <1>1. Head(replies[n]) = replies[n][1] /\ \A m \in Nodes \ {n} : replies'[m] = replies[m]
    BY Taken DEF StateType
  <1>2. /\ NoTokenAfter(n, 0) => NoTokenAfter(n, 0)'
        /\ \A t \in Conns : IsComing(n, t) => IsComing(n, t)'
    BY <1>1, TailMoves
  <1>3. \A m \in Nodes \ {n} :
          /\ NoTokenAfter(m, 0) => NoTokenAfter(m, 0)'
          /\ \A t \in Conns : IsComing(m, t) => IsComing(m, t)'
    BY <1>1 DEF NoTokenAfter, IsComing
  <1> QED  BY <1>2, <1>3 DEF QueuesStay

LEMMA PresentedStep ==
  ASSUME StateType, LeaseInv, TokenInv, DecisionInv, [Next]_vars
  PROVE  WillBePresented'
  <1>0. /\ conn \in [Conns -> ConnRecord] /\ WillBePresented /\ OpensAreAwaited
        /\ timer \in [Nodes -> Token]
    BY DEF StateType, DecisionInv, LeaseInv
  <1>a. ASSUME QueuesStay, UNCHANGED <<pending, history, timer>>,
               \A b \in Conns : conn[b].phase = "opening" => conn'[b].phase = "opening",
               \A b \in Conns : Left(b) => conn'[b].node = conn[b].node
        PROVE  WillBePresented'
    BY <1>0, <1>a, StillPresented DEF Mishaps
  <1>1. ASSUME NEW c \in Conns, StoreStep(c)
        PROVE  WillBePresented'
    <2>1. CASE StoreOpen(c)
      BY <2>1 DEF StoreOpen, WillBePresented, NoPending
    <2>2. CASE StoreOpenFails(c) \/ StoreCloseFails(c) \/ StoreBeatFails(c)
      BY <2>2, MishapsCount DEF WillBePresented, Fails
    <2>3. CASE StoreBeat(c)
      BY <1>a, <2>3, SameQueues DEF StoreBeat
    <2>4. CASE StoreClose(c)
      BY <1>0, <2>4, ClosePresents
    <2> QED  BY <1>1, <2>1, <2>2, <2>3, <2>4 DEF StoreStep, Opening, Beating, Closing
  <1>2. ASSUME NEW c \in Conns, StreamStep(c)
        PROVE  WillBePresented'
    <2>1. UNCHANGED <<pending, history, replies>>
      BY <1>2 DEF StreamStep, StreamGone, StreamClose, BeatFires, StreamOpen
    <2>2. CASE StreamGone(c) \/ StreamClose(c) \/ BeatFires(c)
      <3>1. /\ timer' = timer
            /\ \/ conn' = conn \/ conn' = [conn EXCEPT ![c].gone = TRUE]
               \/ /\ conn[c].phase \in {"open", "unleased"}
                  /\ conn' = [conn EXCEPT ![c].phase = "closing"]
        BY <2>2 DEF StreamGone, StreamClose, BeatFires
      <3>2. \A b \in Conns : /\ conn[b].phase = "opening" => conn'[b].phase = "opening"
                             /\ conn'[b].node = conn[b].node
        BY <1>0, <3>1 DEF ConnRecord
      <3> QED  BY <1>a, <2>1, <3>1, <3>2, SameQueues
    <2>3. ASSUME NEW n \in Nodes, StreamOpen(c, n)
          PROVE  WillBePresented'
      <3>1. conn' = [conn EXCEPT ![c] = [phase |-> "opening", node |-> n, gone |-> FALSE]]
        BY <2>3 DEF StreamOpen
      <3>2. conn'[c].phase = "opening"
        BY <1>0, <3>1
      <3> QED  BY <3>2 DEF WillBePresented
    <2> QED  BY <1>2, <2>2, <2>3 DEF StreamStep
  <1>3. ASSUME NEW n \in Nodes, NodeStep(n)
        PROVE  WillBePresented'
    <2>1. CASE OpenReply(n)
      <3>1. PICK r : r = Head(replies[n])
        OBVIOUS
      <3>2. /\ replies[n] # <<>> /\ r.kind = "open"
            /\ r.conn \in Conns /\ conn[r.conn].phase = "opened"
            /\ conn' = [conn EXCEPT ![r.conn].phase = "open"]
            /\ replies' = [replies EXCEPT ![n] = Tail(@)]
            /\ UNCHANGED <<pending, timer, history>>
        BY <1>0, <2>1, <3>1, OpenReplyIs
      <3>3. \A b \in Conns : /\ conn[b].phase = "opening" => conn'[b].phase = "opening"
                             /\ conn'[b].node = conn[b].node
        BY <1>0, <3>2 DEF ConnRecord
      <3>4. QueuesStay
        BY <3>1, <3>2, QuietTail
      <3> QED  BY <1>a, <3>2, <3>3, <3>4
    <2>2. CASE CloseReply(n)
      BY <1>0, <2>2, CloseReplyPresents
    <2>3. CASE FinalizeReply(n)
      <3>1. /\ replies[n] # <<>> /\ Head(replies[n]).kind # "close"
            /\ replies' = [replies EXCEPT ![n] = Tail(@)]
            /\ UNCHANGED <<pending, timer, history, conn>>
        BY <2>3 DEF FinalizeReply
      <3> QED  BY <1>a, <3>1, QuietTail
    <2>4. CASE TimerFires(n)
      <3>1. CASE pending'.token = NoToken
        BY <3>1 DEF WillBePresented
      <3>2. CASE pending'.token # NoToken
        <4>1. /\ UNCHANGED <<pending, history, replies>>
              /\ ~(pending.token = timer[n].token /\ Live = {})
          BY <2>4, <3>2, TimerDecides DEF DecisionInv
        <4>2. timer' = [timer EXCEPT ![n] = NoPending] /\ conn' = conn
          BY <2>4 DEF TimerFires
        <4>3. pending.token # timer[n].token
          BY <3>2, <4>1 DEF TokenInv, TokensAreLeft, PendingIsLeft
        <4>4. \A m \in Nodes : timer[m].token = pending.token => timer'[m] = timer[m]
          BY <1>0, <4>2, <4>3
        <4>5. Mishaps' = Mishaps /\ QueuesStay
          BY <4>1, SameQueues DEF Mishaps
        <4> QED  BY <1>0, <4>1, <4>2, <4>4, <4>5, StillPresented
      <3> QED  BY <3>1, <3>2
    <2>5. CASE Crash(n) \/ AnswerLost(n) \/ FinalizeFails(n)
      BY <2>5, MishapsCount DEF WillBePresented, Fails, Loses
    <2> QED  BY <1>3, <2>1, <2>2, <2>3, <2>4, <2>5 DEF NodeStep, Replied, Confirming
  <1>4. ASSUME NEW i \in DOMAIN announcing, Announce(i)
        PROVE  WillBePresented'
    <2>1. /\ history' = [history EXCEPT !.crossed = @ \/ announcing[i].no < told.no]
          /\ UNCHANGED <<pending, conn, timer, replies>>
      BY <1>4 DEF Announce
    <2>2. Mishaps' = Mishaps
      BY <2>1 DEF StateType, Past, Mishaps
    <2> QED  BY <1>0, <2>1, <2>2, SameQueues, StillPresented
  <1>5. CASE Tick
    <2>1. /\ conn' = conn /\ replies' = replies /\ Mishaps' = Mishaps
          /\ pending'.token # NoToken => pending.token # NoToken
      BY <1>5, TickTimes DEF Tick, Mishaps
    <2>2. SUFFICES ASSUME Mishaps = 0, pending.token # NoToken
                   PROVE  TimerHolds(conn[pending.token].node)'
      BY <2>1 DEF WillBePresented
    <2>3. PICK m \in Nodes : m = conn[pending.token].node
      BY <1>5, <2>2, TickKeeps
    <2>4. /\ TimerHolds(m) /\ pending'.token = pending.token /\ pending'.left = pending.left - 1
          /\ timer'[m].token = timer[m].token
          /\ timer[m].token # NoToken => timer'[m].left = timer[m].left - 1
      BY <1>5, <2>2, <2>3, TickKeeps, TickTimes
    <2>5. timer[m].left \in Int /\ pending.left \in Int /\ NoTokenAfter(m, 0)'
      BY <1>0, <2>1, <2>4 DEF StateType, Token, TimerHolds, NoTokenAfter
    <2>6. TimerHolds(m)'
      BY <2>2, <2>4, <2>5, Sizes DEF TimerHolds
    <2> QED  BY <2>1, <2>3, <2>4, <2>6
  <1>6. CASE UNCHANGED vars
    <2>1. UNCHANGED <<pending, history, timer, conn, replies>>
      BY <1>6 DEF vars
    <2> QED  BY <1>a, <2>1, SameQueues
  <1> QED  BY <1>1, <1>2, <1>3, <1>4, <1>5, <1>6 DEF Next

LEMMA DecisionStep ==
  ASSUME StateType, LeaseInv, TokenInv, DecisionInv, [Next]_vars
  PROVE  DecisionInv'
  BY DecidedStep, UpStep, PresentedStep, RepeatStep DEF DecisionInv

-----------------------------------------------------------------------------
(* Delivery.                                                                *)

\* The answers that tell of a transition are still on their way.
TellersStay ==
  \A n \in Nodes : \A k \in 1..Len(replies[n]) : Tells(replies[n][k]) =>
    \E j \in 1..Len(replies'[n]) : replies'[n][j] = replies[n][k]

LEMMA AppendKeeps ==
  ASSUME StateType, NEW n \in Nodes, NEW r \in Reply,
         replies' = [replies EXCEPT ![n] = Append(@, r)]
  PROVE  TellersStay
  <1>1. /\ \A m \in Nodes : Len(replies[m]) \in Nat /\ Len(replies'[m]) \in Nat
        /\ \A m \in Nodes \ {n} : replies'[m] = replies[m]
        /\ Len(replies'[n]) = Len(replies[n]) + 1
        /\ \A k \in 1..Len(replies[n]) : replies'[n][k] = replies[n][k]
    BY Answered DEF StateType
  <1>2. \A m \in Nodes : \A k \in 1..Len(replies[m]) :
          k \in 1..Len(replies'[m]) /\ replies'[m][k] = replies[m][k]
    BY <1>1
  <1> QED  BY <1>2 DEF TellersStay

LEMMA TailKeeps ==
  ASSUME StateType, NEW n \in Nodes, replies[n] # <<>>,
         replies' = [replies EXCEPT ![n] = Tail(@)]
  PROVE  /\ ~Tells(replies[n][1]) => TellersStay
         /\ \A m \in Nodes \ {n} : replies'[m] = replies[m]
         /\ \A k \in 1..Len(replies[n]) : k # 1 =>
              \E j \in 1..Len(replies'[n]) : replies'[n][j] = replies[n][k]
  <1>1. /\ \A m \in Nodes \ {n} : replies'[m] = replies[m]
        /\ \A k \in 1..Len(replies[n]) : k # 1 =>
             k - 1 \in 1..Len(replies'[n]) /\ replies'[n][k - 1] = replies[n][k]
    BY Taken DEF StateType
  <1>2. \A k \in 1..Len(replies[n]) : k # 1 =>
          \E j \in 1..Len(replies'[n]) : replies'[n][j] = replies[n][k]
    BY <1>1
  <1>3. ASSUME ~Tells(replies[n][1])
        PROVE  TellersStay
    <2> SUFFICES ASSUME NEW m \in Nodes, NEW k \in 1..Len(replies[m]), Tells(replies[m][k])
                 PROVE  \E j \in 1..Len(replies'[m]) : replies'[m][j] = replies[m][k]
      BY DEF TellersStay
    <2>1. CASE m = n
      <3>1. k # 1
        BY <1>3, <2>1
      <3> QED  BY <1>2, <2>1, <3>1
    <2>2. CASE m # n
      <3>1. replies'[m] = replies[m]
        BY <1>1, <2>2
      <3> QED  BY <3>1
    <2> QED  BY <2>1, <2>2
  <1> QED  BY <1>1, <1>2, <1>3

SameDecisions ==
  /\ history'.decided = history.decided /\ history'.count = history.count
  /\ history'.crossed = history.crossed
  /\ history'.swallowed = 0 => history.swallowed = 0

LEMMA DeliveryKept ==
  ASSUME StateType, DeliveryInv, SameDecisions, UNCHANGED <<told, announcing>>, TellersStay,
         NEW S, AnswersWithin(S), \A r \in S : ~Tells(r)
  PROVE  DeliveryInv'
  <1>1. ASSUME history'.swallowed = 0, NEW n \in Nodes, NEW k \in 1..Len(replies'[n]),
               Tells(replies'[n][k])
        PROVE  LET r == replies'[n][k] IN
               r.no <= history.count /\ (r.no = history.count => r.result = history.decided)
    <2>1. PICK j \in 1..Len(replies[n]) : replies'[n][k] = replies[n][j]
      BY <1>1 DEF AnswersWithin
    <2>2. Tells(replies[n][j]) /\ history.swallowed = 0
      BY <1>1, <2>1 DEF SameDecisions
    <2> QED  BY <2>1, <2>2 DEF DeliveryInv, NumbersAreTrue
  <1>2. NumbersAreTrue'
    BY <1>1 DEF DeliveryInv, NumbersAreTrue, SameDecisions, Tells
  <1>3. LastIsAnswered => LastIsAnswered'
    <2>1. SUFFICES ASSUME NEW n \in Nodes, NEW k \in 1..Len(replies[n]), Tells(replies[n][k]),
                          replies[n][k].no = history.count, replies[n][k].result = history.decided
                   PROVE  LastIsAnswered'
      BY DEF LastIsAnswered
    <2>2. PICK j \in 1..Len(replies'[n]) : replies'[n][j] = replies[n][k]
      BY <2>1 DEF TellersStay
    <2> QED  BY <2>1, <2>2 DEF LastIsAnswered, SameDecisions, Tells
  <1>4. (LastIsLookedUp => LastIsLookedUp') /\ (LastIsTold => LastIsTold')
    BY DEF LastIsLookedUp, LastIsTold, SameDecisions
  <1>5. LastIsKept'
    BY <1>3, <1>4 DEF DeliveryInv, LastIsKept, SameDecisions
  <1> QED  BY <1>2, <1>5 DEF DeliveryInv

\* A new decision is told in the answer, and has a number of its own.
LEMMA DecisionIsAnswered ==
  ASSUME StateType, DeliveryInv, NEW n \in Nodes, NEW r \in Reply, Tells(r),
         r.no = history.count + 1, history'.count = history.count + 1,
         history'.decided = r.result, history'.swallowed = history.swallowed,
         replies' = [replies EXCEPT ![n] = Append(@, r)], UNCHANGED announcing
  PROVE  DeliveryInv'
  <1>0. history.count \in Nat
    BY DEF StateType, Past
  <1>1. AnswersWithin({r})
    BY OneAnswer
  <1>2. ASSUME history.swallowed = 0, NEW m \in Nodes, NEW k \in 1..Len(replies'[m]),
               Tells(replies'[m][k])
        PROVE  LET q == replies'[m][k] IN
               q.no <= history'.count /\ (q.no = history'.count => q.result = history'.decided)
    <2>1. CASE replies'[m][k] = r
      BY <1>0, <2>1
    <2>2. CASE replies'[m][k] # r
      <3>1. PICK j \in 1..Len(replies[m]) : replies'[m][k] = replies[m][j]
        BY <1>1, <2>2 DEF AnswersWithin
      <3>2. PICK q \in Reply : q = replies[m][j]
        BY ElementOfSeq DEF StateType
      <3>3. q.no <= history.count /\ q.no \in Nat
        BY <1>2, <3>1, <3>2 DEF DeliveryInv, NumbersAreTrue, Reply
      <3>4. q.no <= history'.count /\ q.no # history'.count
        BY <1>0, <3>3
      <3> QED  BY <3>1, <3>2, <3>4
    <2> QED  BY <2>1, <2>2
  <1>3. ASSUME history.swallowed = 0, NEW i \in 1..Len(announcing)
        PROVE  announcing[i].no <= history.count + 1 /\ announcing[i].no # history.count + 1
    <2>1. announcing \in Seq(Note) /\ announcing[i].no <= history.count
      BY <1>3 DEF DeliveryInv, NumbersAreTrue
    <2>2. PICK q \in Note : q = announcing[i]
      BY <2>1, ElementOfSeq
    <2>3. q.no \in Nat
      BY DEF Note
    <2> QED  BY <1>0, <2>1, <2>2, <2>3
  <1>4. NumbersAreTrue'
    BY <1>2, <1>3 DEF DeliveryInv, NumbersAreTrue, Tells
  <1>5. LastIsAnswered'
    <2>1. PICK k \in Nat : k = Len(replies[n]) + 1
      BY Answered DEF StateType
    <2>2. k \in 1..Len(replies'[n]) /\ replies'[n][k] = r
      BY <2>1, Answered DEF StateType
    <2> QED  BY <2>2 DEF LastIsAnswered, Tells
  <1> QED  BY <1>4, <1>5 DEF DeliveryInv, LastIsKept

\* A node takes an answer that tells of a transition, and looks the partners up.
LEMMA AnswerIsLookedUp ==
  ASSUME StateType, DeliveryInv, NEW n \in Nodes, replies[n] # <<>>, Tells(Head(replies[n])),
         replies' = [replies EXCEPT ![n] = Tail(@)], Transition(n, Head(replies[n])),
         UNCHANGED <<history, told>>
  PROVE  DeliveryInv'
  <1>1. Head(replies[n]) = replies[n][1] /\ 1 \in 1..Len(replies[n])
    BY Taken DEF StateType
  <1>2. PICK r \in Reply : r = replies[n][1] /\ r = Head(replies[n])
    BY <1>1, Taken DEF StateType
  <1>3. PICK a : a = [node |-> n, what |-> r.result, no |-> r.no]
    OBVIOUS
  <1>4. a \in Note /\ a.what = r.result /\ a.no = r.no
    <2>1. Tells(r)
      BY <1>2
    <2>2. r.result \in {"online", "offline"} /\ r.no \in Nat
      BY <2>1 DEF Tells, Reply
    <2> QED  BY <1>3, <2>2 DEF Note
  <1>5. announcing' = Append(announcing, a)
    BY <1>2, <1>3 DEF Transition, Tells
  <1>6. AnswersWithin({})
    BY NoAnswer DEF FewerAnswers
  <1>7. SUFFICES ASSUME history.swallowed = 0
                 PROVE  DeliveryInv'
    BY DEF DeliveryInv, NumbersAreTrue, LastIsKept
  <1>8. /\ announcing' \in Seq(Note) /\ Len(announcing) \in Nat
        /\ Len(announcing') = Len(announcing) + 1
        /\ \A i \in 1..Len(announcing) : announcing'[i] = announcing[i]
        /\ announcing'[Len(announcing) + 1] = a
    BY <1>4, <1>5, <1>7, Appended DEF DeliveryInv, NumbersAreTrue
  <1>9. ASSUME NEW m \in Nodes, NEW k \in 1..Len(replies'[m]), Tells(replies'[m][k])
        PROVE  LET q == replies'[m][k] IN
               q.no <= history.count /\ (q.no = history.count => q.result = history.decided)
    <2>1. PICK j \in 1..Len(replies[m]) : replies'[m][k] = replies[m][j]
      BY <1>6 DEF AnswersWithin
    <2> QED  BY <1>7, <1>9, <2>1 DEF DeliveryInv, NumbersAreTrue
  <1>10. ASSUME NEW i \in 1..Len(announcing')
         PROVE  LET q == announcing'[i] IN
                q.no <= history.count /\ (q.no = history.count => q.what = history.decided)
    <2>1. CASE i \in 1..Len(announcing)
      BY <1>7, <1>8, <2>1 DEF DeliveryInv, NumbersAreTrue
    <2>2. CASE ~(i \in 1..Len(announcing))
      <3>1. i = Len(announcing) + 1
        BY <1>8, <2>2
      <3>2. r.no <= history.count /\ (r.no = history.count => r.result = history.decided)
        BY <1>1, <1>2, <1>7 DEF DeliveryInv, NumbersAreTrue
      <3> QED  BY <1>4, <1>8, <3>1, <3>2
    <2> QED  BY <2>1, <2>2
  <1>11. NumbersAreTrue'
    BY <1>8, <1>9, <1>10, ZenonT(40) DEF NumbersAreTrue, Tells
  <1>12. LastIsAnswered => LastIsAnswered' \/ LastIsLookedUp'
    <2>1. SUFFICES ASSUME NEW m \in Nodes, NEW k \in 1..Len(replies[m]), Tells(replies[m][k]),
                          replies[m][k].no = history.count, replies[m][k].result = history.decided
                   PROVE  LastIsAnswered' \/ LastIsLookedUp'
      BY DEF LastIsAnswered
    <2>2. CASE m = n /\ k = 1
      <3>1. Len(announcing) + 1 \in 1..Len(announcing')
        BY <1>8
      <3> QED  BY <1>2, <1>4, <1>8, <2>1, <2>2, <3>1 DEF LastIsLookedUp
    <2>3. CASE ~(m = n /\ k = 1)
      <3>1. PICK j \in 1..Len(replies'[m]) : replies'[m][j] = replies[m][k]
        <4>1. CASE m = n
          BY <2>3, <4>1, TailKeeps
        <4>2. CASE m # n
          <5>1. replies'[m] = replies[m]
            BY <4>2, TailKeeps
          <5> QED  BY <5>1
        <4> QED  BY <4>1, <4>2
      <3> QED  BY <2>1, <3>1 DEF LastIsAnswered, Tells
    <2> QED  BY <2>2, <2>3
  <1>13. LastIsLookedUp => LastIsLookedUp'
    <2>1. 1..Len(announcing) \subseteq 1..Len(announcing')
      BY <1>8
    <2> QED  BY <1>8, <2>1 DEF LastIsLookedUp
  <1>14. LastIsTold => LastIsTold'
    BY DEF LastIsTold
  <1> QED  BY <1>11, <1>12, <1>13, <1>14 DEF DeliveryInv, LastIsKept

\* Partners are told; an older transition that is told late has been overtaken.
LEMMA AnnounceDelivers ==
  ASSUME StateType, DeliveryInv, NEW i \in DOMAIN announcing, Announce(i)
  PROVE  DeliveryInv'
  <1>1. PICK b \in BOOLEAN : b = (history.crossed \/ announcing[i].no < told.no)
    OBVIOUS
  <1>2. history' = [history EXCEPT !.crossed = b] /\ UNCHANGED replies
    BY <1>1 DEF Announce
  <1>3. /\ history'.crossed = b
        /\ history'.decided = history.decided /\ history'.count = history.count
        /\ history'.swallowed = history.swallowed
    BY <1>2 DEF StateType, Past
  <1>4. SUFFICES ASSUME history.swallowed = 0
                 PROVE  DeliveryInv'
    BY <1>3 DEF DeliveryInv, NumbersAreTrue, LastIsKept
  <1>5. announcing \in Seq(Note) /\ i \in 1..Len(announcing)
    BY <1>4, LenProperties DEF DeliveryInv, NumbersAreTrue
  <1>6. PICK a \in Note : a = announcing[i]
    BY <1>5, ElementOfSeq
  <1>7. /\ told'.what = a.what /\ told'.no = a.no /\ announcing' = RemoveAt(announcing, i)
    BY <1>6 DEF Announce
  <1>8. /\ announcing' \in Seq(Note)
        /\ \A k \in 1..Len(announcing') :
             \E j \in 1..Len(announcing) : announcing'[k] = announcing[j]
        /\ \A j \in 1..Len(announcing) : j # i =>
             \E k \in 1..Len(announcing') : announcing'[k] = announcing[j]
    BY <1>5, <1>7, Removed
  <1>9. NumbersAreTrue'
    BY <1>2, <1>3, <1>4, <1>8 DEF DeliveryInv, NumbersAreTrue, Tells
  <1>10. LastIsAnswered => LastIsAnswered'
    BY <1>2, <1>3 DEF LastIsAnswered, Tells
  <1>11. LastIsLookedUp => LastIsLookedUp' \/ LastIsTold'
    <2>1. SUFFICES ASSUME NEW j \in 1..Len(announcing), announcing[j].no = history.count,
                          announcing[j].what = history.decided
                   PROVE  LastIsLookedUp' \/ LastIsTold'
      BY DEF LastIsLookedUp
    <2>2. CASE j = i
      BY <1>3, <1>6, <1>7, <2>1, <2>2 DEF LastIsTold
    <2>3. CASE j # i
      BY <1>3, <1>8, <2>1, <2>3 DEF LastIsLookedUp
    <2> QED  BY <2>2, <2>3
  <1>12. LastIsTold => history'.crossed \/ LastIsTold'
    <2>1. SUFFICES ASSUME told.no = history.count, ~history'.crossed
                   PROVE  LastIsTold'
      BY DEF LastIsTold
    <2>2. a.no <= history.count /\ (a.no = history.count => a.what = history.decided)
      BY <1>4, <1>5, <1>6 DEF DeliveryInv, NumbersAreTrue
    <2>3. a.no \in Nat /\ history.count \in Nat /\ ~(a.no < history.count)
      BY <1>1, <1>3, <1>6, <2>1 DEF Note, StateType, Past
    <2>4. a.no = history.count
      BY <2>2, <2>3
    <2> QED  BY <1>3, <1>7, <2>2, <2>4 DEF LastIsTold
  <1>13. history'.crossed = FALSE => history.crossed = FALSE
    BY <1>1, <1>3 DEF StateType, Past
  <1>14. history'.crossed \in BOOLEAN /\ history.crossed \in BOOLEAN
    BY <1>1, <1>3 DEF StateType, Past
  <1> QED  BY <1>3, <1>9, <1>10, <1>11, <1>12, <1>13, <1>14 DEF DeliveryInv, LastIsKept

LEMMA StoreDelivers ==
  ASSUME StateType, DecidedOnline, DeliveryInv, NEW c \in Conns, StoreStep(c)
  PROVE  DeliveryInv'
  <1>0. history \in Past /\ history.count \in Nat
    BY DEF StateType, Past
  <1>1. CASE StoreOpen(c)
    <2>1. PICK n \in Nodes : n = conn[c].node
      BY <1>1 DEF StoreOpen, StateType
    <2>2. PICK r : r = [kind |-> "open", conn |-> c, result |-> OpenResult,
                        no |-> history.count + 1]
      OBVIOUS
    <2>3. r \in Reply /\ r.kind = "open" /\ r.result = OpenResult /\ r.no = history.count + 1
      BY <1>0, <2>2, OpenIs DEF Reply
    <2>4. replies' = [replies EXCEPT ![n] = Append(@, r)] /\ UNCHANGED <<announcing, told>>
      BY <1>1, <2>1, <2>2 DEF StoreOpen, Answer
    <2>5. CASE OpenResult = "online"
      <3>1. /\ history'.decided = r.result /\ history'.count = history.count + 1
            /\ history'.swallowed = history.swallowed /\ Tells(r)
        BY <1>1, <2>3, <2>5, OpenDecides DEF Tells
      <3> QED  BY <2>3, <2>4, <3>1, DecisionIsAnswered
    <2>6. CASE OpenResult = "nothing"
      <3>1. SameDecisions
        BY <1>1, <2>6, OpenDecides DEF SameDecisions
      <3>2. ~Tells(r)
        BY <2>3, <2>6 DEF Tells
      <3>3. TellersStay /\ AnswersWithin({r})
        BY <2>3, <2>4, AppendKeeps, OneAnswer
      <3> QED  BY <2>4, <3>1, <3>2, <3>3, DeliveryKept
    <2> QED  BY <2>5, <2>6, OpenIs
  <1>2. CASE StoreOpenFails(c) \/ StoreCloseFails(c) \/ Beating(c)
    <2>1. UNCHANGED <<replies, told, announcing>>
      BY <1>2 DEF StoreOpenFails, StoreCloseFails, Beating, StoreBeat, StoreBeatFails
    <2>2. SameDecisions
      <3>1. CASE StoreBeat(c)
        BY <3>1 DEF StoreBeat, SameDecisions
      <3>2. CASE ~StoreBeat(c)
        BY <1>2, <3>2, MishapsCount DEF Beating, Fails, SameDecisions
      <3> QED  BY <3>1, <3>2
    <2>3. TellersStay /\ AnswersWithin({})
      BY <2>1, NoAnswer DEF TellersStay, FewerAnswers
    <2> QED  BY <2>1, <2>2, <2>3, DeliveryKept
  <1>3. CASE StoreClose(c)
    <2>1. PICK n \in Nodes : n = conn[c].node
      BY <1>3 DEF StoreClose, StateType
    <2>2. PICK t \in Conns \union {NoToken} : t = IF LeavesToken(c) THEN c ELSE NoToken
      OBVIOUS
    <2>3. PICK r : r = [kind |-> "close", conn |-> c, result |-> t, no |-> history.count + 1]
      OBVIOUS
    <2>4. r \in Reply /\ ~Tells(r)
      BY <1>0, <2>3 DEF Reply, Tells
    <2>5. /\ replies' = [replies EXCEPT ![n] = Append(@, r)]
          /\ UNCHANGED <<announcing, told, history>>
      BY <1>3, <2>1, <2>2, <2>3 DEF StoreClose, Answer
    <2>6. SameDecisions /\ TellersStay /\ AnswersWithin({r})
      BY <2>4, <2>5, AppendKeeps, OneAnswer DEF SameDecisions
    <2> QED  BY <2>4, <2>5, <2>6, DeliveryKept
  <1> QED  BY <1>1, <1>2, <1>3 DEF StoreStep, Opening, Closing

LEMMA NodeDelivers ==
  ASSUME StateType, LeaseInv, DecidedOnline, DeliveryInv, NEW n \in Nodes, NodeStep(n)
  PROVE  DeliveryInv'
  <1>0. history \in Past /\ history.count \in Nat
    BY DEF StateType, Past
  <1>1. CASE OpenReply(n) \/ FinalizeReply(n)
    <2>1. /\ replies[n] # <<>> /\ Head(replies[n]).kind \in {"open", "finalize"}
          /\ replies' = [replies EXCEPT ![n] = Tail(@)] /\ Transition(n, Head(replies[n]))
          /\ UNCHANGED <<history, told>>
      BY <1>1 DEF OpenReply, FinalizeReply
    <2>2. CASE Tells(Head(replies[n]))
      BY <2>1, <2>2, AnswerIsLookedUp
    <2>3. CASE ~Tells(Head(replies[n]))
      <3>1. announcing' = announcing
        BY <2>1, <2>3 DEF Transition, Tells
      <3>2. Head(replies[n]) = replies[n][1]
        BY <2>1, Taken DEF StateType
      <3>3. TellersStay /\ AnswersWithin({}) /\ SameDecisions
        BY <2>1, <2>3, <3>2, TailKeeps, NoAnswer DEF FewerAnswers, SameDecisions
      <3> QED  BY <2>1, <3>1, <3>3, DeliveryKept
    <2> QED  BY <2>2, <2>3
  <1>2. CASE CloseReply(n)
    <2>1. /\ replies[n] # <<>> /\ Head(replies[n]).kind = "close"
          /\ replies' = [replies EXCEPT ![n] = Tail(@)]
          /\ UNCHANGED <<history, told, announcing>>
      BY <1>2 DEF CloseReply
    <2>2. Head(replies[n]) = replies[n][1]
      BY <2>1, Taken DEF StateType
    <2>3. ~Tells(replies[n][1])
      BY <2>1, <2>2 DEF Tells
    <2>4. TellersStay /\ AnswersWithin({}) /\ SameDecisions
      BY <2>1, <2>3, TailKeeps, NoAnswer DEF FewerAnswers, SameDecisions
    <2> QED  BY <2>1, <2>4, DeliveryKept
  <1>3. CASE TimerFires(n)
    <2>1. PICK r : r = [kind |-> "finalize", conn |-> timer[n].token, result |-> "offline",
                        no |-> history.count + 1]
      OBVIOUS
    <2>2. /\ timer[n].token # NoToken /\ UNCHANGED <<announcing, told>>
          /\ IF Confirms(timer[n].token)
             THEN replies' = [replies EXCEPT ![n] = Append(@, r)]
             ELSE UNCHANGED <<history, replies>>
      BY <1>3, <2>1 DEF TimerFires, Answer
    <2>3. r \in Reply /\ Tells(r) /\ r.no = history.count + 1 /\ r.result = "offline"
      BY <1>0, <2>1, <2>2 DEF Reply, Tells, StateType, Token
    <2>4. CASE Confirms(timer[n].token)
      <3>1. /\ history'.decided = "offline" /\ history'.count = history.count + 1
            /\ history'.swallowed = history.swallowed
        BY <1>3, <2>4, TimerDecides DEF Confirms
      <3> QED  BY <2>2, <2>3, <2>4, <3>1, DecisionIsAnswered
    <2>5. CASE ~Confirms(timer[n].token)
      <3>1. TellersStay /\ AnswersWithin({}) /\ SameDecisions
        BY <2>2, <2>5, NoAnswer DEF TellersStay, FewerAnswers, SameDecisions
      <3> QED  BY <2>2, <3>1, DeliveryKept
    <2> QED  BY <2>4, <2>5
  <1>4. CASE Crash(n) \/ AnswerLost(n)
    BY <1>4, MishapsCount DEF DeliveryInv, NumbersAreTrue, LastIsKept, Loses
  <1>5. CASE FinalizeFails(n)
    <2>1. UNCHANGED <<replies, told, announcing>>
      BY <1>5 DEF FinalizeFails
    <2>2. SameDecisions
      BY <1>5, MishapsCount DEF Fails, SameDecisions
    <2>3. TellersStay /\ AnswersWithin({})
      BY <2>1, NoAnswer DEF TellersStay, FewerAnswers
    <2> QED  BY <2>1, <2>2, <2>3, DeliveryKept
  <1> QED  BY <1>1, <1>2, <1>3, <1>4, <1>5 DEF NodeStep, Replied, Confirming

LEMMA DeliveryStep ==
  ASSUME StateType, LeaseInv, TokenInv, DecisionInv, DeliveryInv, [Next]_vars
  PROVE  DeliveryInv'
  <1>0. DecidedOnline
    BY DEF DecisionInv
  <1>1. ASSUME UNCHANGED <<replies, told, announcing>>, SameDecisions
        PROVE  DeliveryInv'
    BY <1>1, NoAnswer, DeliveryKept DEF TellersStay, FewerAnswers
  <1>2. ASSUME NEW c \in Conns, StoreStep(c)
        PROVE  DeliveryInv'
    BY <1>0, <1>2, StoreDelivers
  <1>3. ASSUME NEW c \in Conns, StreamStep(c)
        PROVE  DeliveryInv'
    <2>1. UNCHANGED <<history, replies, told, announcing>>
      BY <1>3 DEF StreamStep, StreamGone, StreamClose, BeatFires, StreamOpen
    <2> QED  BY <1>1, <2>1 DEF SameDecisions
  <1>4. ASSUME NEW n \in Nodes, NodeStep(n)
        PROVE  DeliveryInv'
    BY <1>0, <1>4, NodeDelivers
  <1>5. ASSUME NEW i \in DOMAIN announcing, Announce(i)
        PROVE  DeliveryInv'
    BY <1>5, AnnounceDelivers
  <1>6. CASE Tick
    BY <1>1, <1>6, TickTimes DEF SameDecisions, Tick
  <1>7. CASE UNCHANGED vars
    <2>1. UNCHANGED <<history, replies, told, announcing>>
      BY <1>7 DEF vars
    <2> QED  BY <1>1, <2>1 DEF SameDecisions
  <1> QED  BY <1>2, <1>3, <1>4, <1>5, <1>6, <1>7 DEF Next

-----------------------------------------------------------------------------
(* The invariant and the theorems.                                          *)

LEMMA InitialInvariant == Init => IInv
  <1> SUFFICES ASSUME Init PROVE IInv
    OBVIOUS
  <1>1. /\ history.decided = "nothing" /\ history.count = 0 /\ history.again = {}
        /\ history.away = OfflineDelay
    BY DEF Init
  <1>2. TokenInv
    BY <1>1, NothingYet, Sizes
      DEF TokenInv, TokensAreLeft, PendingIsLeft, TimersAreLeft, AnswersAreLeft, AwayForLong
  <1>3. DecisionInv
    BY <1>1, NothingYet
      DEF DecisionInv, DecidedOnline, LeasesAreUp, WillBePresented, NoneIsRepeated
  <1>4. DeliveryInv
    <2>1. announcing \in Seq(Note)
      BY NothingYet, EmptySeq
    <2> QED  BY <1>1, <2>1, NothingYet DEF DeliveryInv, NumbersAreTrue, LastIsKept
  <1> QED  BY <1>2, <1>3, <1>4, InitialTypes, InitialLeases DEF IInv

LEMMA NextInvariant == IInv /\ [Next]_vars => IInv'
  BY TypesStep, LeaseStep, TokenStep, DecisionStep, DeliveryStep DEF IInv

LEMMA Invariant == Spec => []IInv
  BY InitialInvariant, NextInvariant, PTL DEF Spec

\* A user is online, to the store, as long as a stream that got its lease is up and
\* fewer of its heartbeats failed in a row than a lease outlives: heartbeats that are
\* at most MaxLag late renew it in time, and neither the close of another stream, nor
\* a call that fails, nor the crash of another node takes it away.
THEOREM OnlineStays == Spec => []OnlineWhileConnected
  <1>1. IInv => OnlineWhileConnected
    <2>1. SUFFICES ASSUME IInv, NEW c \in Conns, conn[c].phase \in {"opened", "open"},
                          Outlives(missed[c])
                   PROVE  lease[c] > 0
      BY DEF OnlineWhileConnected, Live
    <2>2. CASE conn[c].phase = "opened"
      BY <2>1, <2>2, Sizes DEF IInv, LeaseInv, OpensAreAnswered
    <2>3. CASE conn[c].phase = "open"
      <3>1. /\ lease[c] \in Nat /\ beat[c] \in Int /\ missed[c] \in Nat
            /\ (c \in beating) \in BOOLEAN
        BY <2>1 DEF IInv, StateType
      <3>2. /\ -MaxLag <= beat[c]
            /\ Remains(lease[c], beat[c], c \in beating, missed[c])
        BY <2>1, <2>3 DEF IInv, LeaseInv, BeatsInTime
      <3> QED  BY <2>1, <3>1, <3>2, Remaining
    <2> QED  BY <2>1, <2>2, <2>3
  <1> QED  BY <1>1, Invariant, PTL

\* Offline is decided only of a user without a lease, who has been away for the
\* whole of offlineDelayMs: the token that is confirmed was left when the last
\* stream closed, and its timer was started after that.
THEOREM ReloadsUnseen == Spec => ReloadsAreNotSeen
  <1> DEFINE Unseen ==
        history'.decided = "offline" /\ history.decided # "offline" =>
          history.away = OfflineDelay /\ Live = {}
  <1>1. IInv /\ [Next]_vars => [Unseen]_vars
    <2> SUFFICES ASSUME IInv, [Next]_vars,
                        history'.decided = "offline" /\ history.decided # "offline"
                 PROVE  history.away = OfflineDelay /\ Live = {}
      OBVIOUS
    <2>0. StateType /\ DecidedOnline /\ AwayForLong /\ TokenInv
      BY DEF IInv, DecisionInv, TokenInv
    <2>1. ASSUME NEW c \in Conns, StoreOpen(c) \/ StoreClose(c)
          PROVE  FALSE
      BY <2>0, <2>1, OpenDecides, CloseDecides
    <2>2. ASSUME NEW n \in Nodes, TimerFires(n)
          PROVE  history.away = OfflineDelay /\ Live = {}
      <3>1. /\ Live = {} /\ pending.token # NoToken /\ timer[n].token = pending.token
        BY <2>0, <2>2, TimerDecides
      <3>2. timer[n].left + history.away >= OfflineDelay \/ history.away = OfflineDelay
        BY <2>0, <3>1 DEF AwayForLong
      <3>3. timer[n].left <= 0 /\ timer[n].left \in Int
        BY <2>0, <2>2 DEF TimerFires, StateType, Token
      <3>4. history.away \in Nat /\ history.away <= OfflineDelay
        BY <2>0 DEF StateType, Past, AwayForLong
      <3> QED  BY <3>1, <3>2, <3>3, <3>4, Sizes
    <2>3. ~Tick
      BY <2>0, TickTimes
    <2>4. ~SameDecision
      BY DEF SameDecision
    <2> QED  BY <2>0, <2>1, <2>2, <2>3, <2>4, DecidingSteps
  <1> QED  BY <1>1, Invariant, PTL DEF Spec, ReloadsAreNotSeen

\* What partners hear is sound: the store decides online and offline in turn, a
\* second online being possible only after a crash or a failed call, and when
\* nothing is under way the partners of an online user were last told so, unless
\* a crash or an overtaking transition came between.
THEOREM TransitionsSound == Spec => []TransitionsAreSound
  <1>1. IInv => TransitionsAlternate
    <2>1. IInv => Mishaps \in Nat
      BY DEF IInv, StateType, Past, Mishaps
    <2> QED  BY <2>1 DEF IInv, DecisionInv, DecidedOnline, NoneIsRepeated, TransitionsAlternate
  <1>2. IInv => OnlineIsKnown
    <2> SUFFICES ASSUME IInv, AtRest, Live # {}, ~history.crossed, ~(history.swallowed > 0)
                 PROVE  told.what = "online"
      BY DEF OnlineIsKnown
    <2>1. history.decided = "online" /\ history.count > 0 /\ history.swallowed = 0
      BY DEF IInv, DecisionInv, DecidedOnline, StateType, Past
    <2>2. ~LastIsAnswered /\ ~LastIsLookedUp
      <3>1. \A n \in Nodes : \A k : ~(k \in 1..Len(replies[n]))
        <4>1. \A n \in Nodes : Len(replies[n]) = 0
          BY EmptySeq DEF AtRest
        <4> QED  BY <4>1
      <3>2. \A k : ~(k \in 1..Len(announcing))
        <4>1. Len(announcing) = 0
          BY EmptySeq DEF AtRest
        <4> QED  BY <4>1
      <3> QED  BY <3>1, <3>2 DEF LastIsAnswered, LastIsLookedUp
    <2> QED  BY <2>1, <2>2 DEF IInv, DeliveryInv, LastIsKept, LastIsTold
  <1> QED  BY <1>1, <1>2, Invariant, PTL DEF TransitionsAreSound
=============================================================================
