--------------------------- MODULE MessagesProofs ---------------------------
(***************************************************************************)
(* Proofs about Messages and MessageOverlaps, for every set of users,      *)
(* conversations, bodies, slots and operations and every bound.            *)
(***************************************************************************)
EXTENDS MessageOverlaps, TLAPS, SequenceTheorems

MembersHaveBeen == \A c \in Conversations : members[c] \subseteq ever[c]

\* The inductive invariant.
IInv ==
    /\ TypeOK
    /\ MembersHaveBeen
    /\ ChecksStillHold
    /\ SeqIsTheOrder
    /\ RepliesStayInside
    /\ MentionsWereParticipants
    /\ LiveMessagesHaveBodies
    /\ ActivityIsLastVisible
    /\ Len(msgs) <= MaxMessages

\* The part of a row no operation rewrites; and a deletion is not undone.
SameFrozen(row, old) ==
    /\ row.conv = old.conv /\ row.seq = old.seq /\ row.sender = old.sender
    /\ row.reply = old.reply /\ row.root = old.root /\ row.main = old.main
    /\ row.fwd = old.fwd
    /\ old.deleted => row.deleted

\* A step keeps every row it found, and forgets no participant.
Kept ==
    /\ Len(msgs') >= Len(msgs)
    /\ \A i \in Ids : SameFrozen(msgs'[i], msgs[i])
    /\ \A c \in Conversations : ever[c] \subseteq ever'[c]
-----------------------------------------------------------------------------
LEMMA BusyRequests ==
    ASSUME TypeOK, NEW r \in Slots, req[r] # Idle
    PROVE  req[r] \in Busy
  BY DEF TypeOK

\* What was sound stays sound while rows keep their frozen fields.
LEMMA SoundStays ==
    ASSUME TypeOK, Kept, msgs' \in Seq(Stored), NEW q \in Busy, Sound(q)
    PROVE  Sound(q)'
  <1>1. Len(msgs) \in Nat /\ Len(msgs') \in Nat /\ Len(msgs) <= Len(msgs')
    BY DEF TypeOK, Kept
  <1>2. \A i \in 1..Len(msgs) : i \in 1..Len(msgs') /\ SameFrozen(msgs'[i], msgs[i])
    BY <1>1 DEF Kept, Ids
  <1>3. OnStored(q) => q.id \in Ids' /\ msgs'[q.id].conv = q.conv
    BY <1>2 DEF Sound, Ids, SameFrozen
  <1>4. ReadyToInsert(q) => ReadyToInsert(q)'
    <2>1. ASSUME ParentsFit(q.row, Len(msgs) + 1)
          PROVE  ParentsFit(q.row, Len(msgs) + 1)'
      BY <1>1, <1>2, <2>1 DEF ParentsFit, SameFrozen, Busy, Row
    <2> QED  BY <1>1, <2>1 DEF ReadyToInsert, Busy, Row
  <1>5. ever[q.conv] \subseteq ever'[q.conv]
    BY DEF Kept, Busy
  <1>6. q.id \in Ids => q.id \in Ids'
    BY <1>2 DEF Ids
  <1> QED  BY <1>3, <1>4, <1>5, <1>6 DEF Sound, OnStored

\* One request moved on to a sound state; the others were left alone.
LEMMA RequestMoves ==
    ASSUME TypeOK, TypeOK', Kept, ChecksStillHold,
           NEW r \in Slots, NEW new \in {Idle} \cup Busy, Step(r, new),
           new # Idle => Sound(new)'
    PROVE  ChecksStillHold'
  <1> SUFFICES ASSUME NEW s \in Slots, req'[s] # Idle
               PROVE  Sound(req[s])'
    BY DEF ChecksStillHold
  <1>1. CASE s = r
    <2>1. req'[s] = new
      BY <1>1 DEF Step, TypeOK
    <2> QED  BY <2>1 DEF Sound, OnStored, ReadyToInsert, ParentsFit
  <1>2. CASE s # r
    <2>1. req'[s] = req[s] /\ req[s] \in Busy
      BY <1>2 DEF Step, TypeOK
    <2>2. Sound(req[s])
      BY <2>1 DEF ChecksStillHold
    <2>3. msgs' \in Seq(Stored)
      BY DEF TypeOK
    <2> DEFINE q == req[s]
    <2>4. \A p \in Busy : Sound(p) => Sound(p)'
      BY <2>3, SoundStays
    <2> QED  BY <2>1, <2>2, <2>4 DEF Sound, OnStored, ReadyToInsert, ParentsFit
  <1> QED  BY <1>1, <1>2

\* A step that only reads storage: everything hangs on the request it leaves.
LEMMA ReadKeepsIInv ==
    ASSUME IInv, UNCHANGED <<members, ever, msgs, nextSeq, activity>>,
           bus' \in Seq(Event), shown' \in Screens, started' \in Nat, churn' \in Nat, failures' \in Nat,
           NEW r \in Slots, NEW new \in {Idle} \cup Busy, Step(r, new),
           new # Idle => Sound(new)
    PROVE  IInv'
  <1>1. TypeOK'
    BY DEF IInv, TypeOK, Step
  <1>2. Kept
    BY DEF Kept, SameFrozen, IInv, TypeOK, Ids
  <1>3. new # Idle => Sound(new)'
    BY DEF Sound, OnStored, ReadyToInsert, ParentsFit, Ids
  <1>4. ChecksStillHold'
    BY <1>1, <1>2, <1>3, RequestMoves DEF IInv
  <1>5. SeqIsTheOrder' /\ RepliesStayInside' /\ ActivityIsLastVisible'
    BY DEF IInv, SeqIsTheOrder, RepliesStayInside, ParentsFit, ActivityIsLastVisible, Ids
  <1>6. /\ MembersHaveBeen' /\ MentionsWereParticipants' /\ LiveMessagesHaveBodies'
        /\ Len(msgs') <= MaxMessages
    BY DEF IInv, MembersHaveBeen, MentionsWereParticipants, LiveMessagesHaveBodies, Ids
  <1> QED
    BY <1>1, <1>4, <1>5, <1>6 DEF IInv

\* A step that rewrites one stored row, but none of its frozen fields.
LEMMA RowChangeKeepsIInv ==
    ASSUME IInv, UNCHANGED <<members, ever, nextSeq, activity, bus, shown, started, churn, failures>>,
           NEW id \in Ids, NEW row \in Stored, msgs' = [msgs EXCEPT ![id] = row],
           SameFrozen(row, msgs[id]),
           row.tags \subseteq ever[row.conv],
           ~row.deleted => row.body # NoBody,
           NEW r \in Slots, NEW new \in Busy, Step(r, new), Sound(new)
    PROVE  IInv'
  <1>1. msgs \in Seq(Stored) /\ id \in 1..Len(msgs)
    BY DEF IInv, TypeOK, Ids
  <1>2. /\ msgs' \in Seq(Stored)
        /\ Len(msgs') = Len(msgs)
        /\ \A i \in Ids : msgs'[i] = IF i = id THEN row ELSE msgs[i]
    BY <1>1 DEF Ids
  <1>3. TypeOK'
    BY <1>2 DEF IInv, TypeOK, Step
  <1>4. Kept
    BY <1>2 DEF Kept, SameFrozen
  <1>5. ChecksStillHold'
    <2>1. Sound(new)'
      BY <1>2, <1>4, SoundStays DEF IInv
    <2> QED  BY <1>3, <1>4, <2>1, RequestMoves DEF IInv
  <1>6. Ids' = Ids /\ \A i \in Ids : SameFrozen(msgs'[i], msgs[i])
    BY <1>2, <1>4 DEF Ids, Kept
  <1>7. SeqIsTheOrder'
    <2>1. \A c \in Conversations :
            {msgs'[i].seq : i \in {k \in Ids : msgs'[k].conv = c}}
              = {msgs[i].seq : i \in {k \in Ids : msgs[k].conv = c}}
      BY <1>6 DEF SameFrozen
    <2> QED  BY <1>6, <2>1 DEF IInv, SeqIsTheOrder, SameFrozen
  <1>8. RepliesStayInside'
    <2> SUFFICES ASSUME NEW i \in Ids
                 PROVE  ParentsFit(msgs[i], i)'
      BY <1>6 DEF RepliesStayInside
    <2>1. ParentsFit(msgs[i], i)
      BY DEF IInv, RepliesStayInside
    <2>2. \A k \in 1..i - 1 : SameFrozen(msgs'[k], msgs[k])
      BY <1>1, <1>6 DEF Ids
    <2>3. SameFrozen(msgs'[i], msgs[i])
      BY <1>6
    <2> QED  BY <2>1, <2>2, <2>3 DEF ParentsFit, SameFrozen
  <1>9. MentionsWereParticipants' /\ LiveMessagesHaveBodies'
    BY <1>2, <1>6 DEF IInv, MentionsWereParticipants, LiveMessagesHaveBodies
  <1>10. ActivityIsLastVisible'
    <2>1. \A i \in Ids : /\ msgs'[i].conv = msgs[i].conv /\ msgs'[i].root = msgs[i].root
                         /\ msgs'[i].main = msgs[i].main
      BY <1>6 DEF SameFrozen
    <2> QED  BY <1>6, <2>1 DEF IInv, ActivityIsLastVisible
  <1> QED
    BY <1>2, <1>3, <1>5, <1>7, <1>8, <1>9, <1>10 DEF IInv, MembersHaveBeen
-----------------------------------------------------------------------------
\* A request starts.
LEMMA BeginKeepsIInv ==
    ASSUME IInv, NEW r \in Slots, NEW op, Begin(r, op),
           NEW new \in Busy, Step(r, new), Sound(new)
    PROVE  IInv'
  <1>1. /\ UNCHANGED <<members, ever, msgs, nextSeq, activity, bus, shown, churn, failures>>
        /\ started' \in Nat
    BY DEF Begin, IInv, TypeOK
  <1>2. bus' \in Seq(Event) /\ shown' \in Screens /\ churn' \in Nat /\ failures' \in Nat
    BY <1>1 DEF IInv, TypeOK
  <1> QED  BY <1>1, <1>2, ReadKeepsIInv

LEMMA SendLoadKeepsIInv ==
    ASSUME IInv, NEW r \in Slots, SendLoad(r)
    PROVE  IInv'
  <1>1. PICK u \in Users, c \in Conversations, body \in Bodies, tags \in MentionSets["send"],
             reply \in {0} \cup Ids, root \in {0} \cup Ids, main \in BOOLEAN :
          /\ tags \subseteq members[c]
          /\ Step(r, Request("verify", "send", u, c, 0, Draft(u, c, body, reply, root, main, 0),
                             members[c], body, tags, TRUE))
    BY ZenonT(40) DEF SendLoad
  <1> DEFINE row == Draft(u, c, body, reply, root, main, 0)
             new == Request("verify", "send", u, c, 0, row, members[c], body, tags, TRUE)
  <1>2. row \in Row
    BY DEF Draft, Row, Ids, IInv, TypeOK, Texts
  <1>3. tags \subseteq Users /\ members[c] \subseteq Users /\ body \in Texts
    BY MessagesAssumption DEF IInv, TypeOK, Texts
  <1>4. new \in Busy
    BY <1>2, <1>3 DEF Request, Busy
  <1>5. Sound(new)
    <2>1. ReadyToInsert(new)
      BY MessagesAssumption DEF ReadyToInsert, Request, Draft, Ids, IInv, TypeOK
    <2>2. members[c] \subseteq ever[c] /\ tags \subseteq ever[c]
      BY <1>1 DEF IInv, MembersHaveBeen
    <2> QED  BY <2>1, <2>2 DEF Sound, OnStored, Request
  <1>6. Step(r, new) /\ Begin(r, "send")
    BY <1>1 DEF SendLoad
  <1> HIDE DEF new
  <1> QED  BY <1>4, <1>5, <1>6, BeginKeepsIInv

LEMMA InFlight ==
    ASSUME IInv, NEW r \in Slots, req[r].pc # "idle"
    PROVE  req[r] \in Busy /\ Sound(req[r])
  BY DEF IInv, ChecksStillHold, TypeOK, Idle

\* A read in the middle of a request.
LEMMA ContinueKeepsIInv ==
    ASSUME IInv, Continue, UNCHANGED <<store, bus, shown>>, NEW r \in Slots,
           NEW new \in {Idle} \cup Busy, Step(r, new), new # Idle => Sound(new)
    PROVE  IInv'
  <1>1. /\ UNCHANGED <<members, ever, msgs, nextSeq, activity>>
        /\ bus' \in Seq(Event) /\ shown' \in Screens /\ started' \in Nat /\ churn' \in Nat /\ failures' \in Nat
    BY DEF Continue, store, IInv, TypeOK
  <1> QED  BY <1>1, ReadKeepsIInv

LEMMA SendVerifyKeepsIInv ==
    ASSUME IInv, NEW r \in Slots, SendVerify(r)
    PROVE  IInv'
  <1> DEFINE q == req[r]
             new == [q EXCEPT !.pc = "write"]
  <1>1. q \in Busy /\ Sound(q) /\ q.pc = "verify"
    BY InFlight DEF SendVerify, At
  <1>2. new \in Busy
    BY <1>1 DEF Busy
  <1>3. /\ RootFits(q.row.root, q.conv)
        /\ q.row.reply # 0 => msgs[q.row.reply].conv = q.conv
        /\ Step(r, new) /\ Continue /\ UNCHANGED <<store, bus, shown>>
    BY DEF SendVerify
  <1>4. ReadyToInsert(q) => ReadyToInsert(new)
    <2>1. ASSUME ReadyToInsert(q)
          PROVE  ParentsFit(q.row, Len(msgs) + 1)
      BY <1>1, <1>3, <2>1 DEF ReadyToInsert, ParentsFit, RootFits, IInv, TypeOK, Busy, Row
    <2> QED  BY <1>1, <2>1 DEF ReadyToInsert, Busy
  <1>5. Sound(new)
    BY <1>1, <1>4 DEF Sound, OnStored, Busy
  <1> HIDE DEF new
  <1> QED  BY <1>2, <1>3, <1>5, ContinueKeepsIInv

LEMMA ForwardLoadKeepsIInv ==
    ASSUME IInv, NEW r \in Slots, ForwardLoad(r)
    PROVE  IInv'
  <1>1. PICK u \in Users, id \in Ids, c \in Conversations, tags \in MentionSets["forward"] :
          Step(r, Request("source", "forward", u, c, id, msgs[id], {}, NoBody, tags, TRUE))
    BY DEF ForwardLoad
  <1> DEFINE new == Request("source", "forward", u, c, id, msgs[id], {}, NoBody, tags, TRUE)
  <1>2. msgs[id] \in Row /\ id \in Nat
    BY DEF Ids, IInv, TypeOK, Stored
  <1>3. new \in Busy
    BY <1>2, MessagesAssumption DEF Request, Busy, Texts
  <1>4. Sound(new)
    BY DEF Sound, OnStored, Request
  <1>5. Step(r, new) /\ Begin(r, "forward")
    BY <1>1 DEF ForwardLoad
  <1> HIDE DEF new
  <1> QED  BY <1>3, <1>4, <1>5, BeginKeepsIInv

LEMMA ForwardSourceKeepsIInv ==
    ASSUME IInv, NEW r \in Slots, ForwardSource(r)
    PROVE  IInv'
  <1> DEFINE q == req[r]
             new == [q EXCEPT !.pc = "target"]
  <1>1. q \in Busy /\ Sound(q) /\ q.pc = "source"
    BY InFlight DEF ForwardSource, At
  <1>2. new \in Busy
    BY <1>1 DEF Busy
  <1>3. Step(r, new) /\ Continue /\ UNCHANGED <<store, bus, shown>>
    BY DEF ForwardSource
  <1>4. Sound(new)
    BY <1>1 DEF Sound, OnStored, Busy
  <1> HIDE DEF new
  <1> QED  BY <1>2, <1>3, <1>4, ContinueKeepsIInv

LEMMA ForwardTargetKeepsIInv ==
    ASSUME IInv, NEW r \in Slots, ForwardTarget(r)
    PROVE  IInv'
  <1> DEFINE q == req[r]
             new == Forwarded(q)
  <1>1. q \in Busy /\ Sound(q) /\ q.pc = "target"
    BY InFlight DEF ForwardTarget, At
  <1>2. /\ q.tags \subseteq members[q.conv] /\ q.row.body # NoBody
        /\ Step(r, new) /\ Continue /\ UNCHANGED <<store, bus, shown>>
    BY DEF ForwardTarget
  <1>3. ForwardDraft(q) \in Row
    BY <1>1 DEF ForwardDraft, Draft, Row, Busy
  <1>4. members[q.conv] \subseteq Users /\ members[q.conv] \subseteq ever[q.conv]
    BY <1>1 DEF IInv, TypeOK, MembersHaveBeen, Busy
  <1>5. new \in Busy
    BY <1>1, <1>3, <1>4 DEF Forwarded, Busy
  <1>6. q.op = "forward"
    BY <1>1 DEF Sound
  <1>7. new.row = ForwardDraft(q) /\ new.conv = q.conv /\ new.op = "forward"
        /\ new.pc = "write" /\ new.snap = members[q.conv] /\ new.tags = q.tags
    BY <1>1, <1>6 DEF Forwarded, Busy
  <1>8. ReadyToInsert(new)
    <2>1. q.id \in 0..(Len(msgs) + 1) - 1
      BY <1>1 DEF Sound, Ids, IInv, TypeOK
    <2> QED  BY <1>2, <1>7, <2>1 DEF ReadyToInsert, ParentsFit, ForwardDraft, Draft
  <1>9. Sound(new)
    BY <1>2, <1>4, <1>7, <1>8 DEF Sound, OnStored
  <1> HIDE DEF new
  <1> QED  BY <1>2, <1>5, <1>9, ContinueKeepsIInv

\* The first read of an operation on a stored message.
LEMMA LoadedMessage ==
    ASSUME IInv, NEW op \in {"edit", "delete", "react", "unreact"}, NEW u \in Users,
           NEW id \in Ids, NEW text \in Texts, op = "edit" => text # NoBody,
           NEW tags \in SUBSET Users, op # "edit" => tags = {}, NEW retag \in BOOLEAN
    PROVE  LET new == Request("conv", op, u, msgs[id].conv, id, msgs[id], {}, text, tags, retag)
           IN  new \in Busy /\ Sound(new)
  <1>1. msgs[id] \in Row /\ id \in Nat
    BY DEF Ids, IInv, TypeOK, Stored
  <1>2. msgs[id].conv \in Conversations
    BY <1>1 DEF Row
  <1> QED  BY <1>1, <1>2 DEF Request, Busy, Sound, OnStored

LEMMA EditLoadKeepsIInv ==
    ASSUME IInv, NEW r \in Slots, EditLoad(r)
    PROVE  IInv'
  <1>1. PICK u \in Users, id \in Ids, body \in Bodies, tags \in MentionSets["edit"], retag \in BOOLEAN :
          Step(r, Request("conv", "edit", u, msgs[id].conv, id, msgs[id], {}, body, tags, retag))
    BY DEF EditLoad
  <1> DEFINE new == Request("conv", "edit", u, msgs[id].conv, id, msgs[id], {}, body, tags, retag)
  <1>2. body \in Texts /\ body # NoBody /\ tags \in SUBSET Users
    BY MessagesAssumption DEF Texts
  <1>3. new \in Busy /\ Sound(new)
    BY <1>2, LoadedMessage
  <1>4. Step(r, new) /\ Begin(r, "edit")
    BY <1>1 DEF EditLoad
  <1> HIDE DEF new
  <1> QED  BY <1>3, <1>4, BeginKeepsIInv

LEMMA DeleteLoadKeepsIInv ==
    ASSUME IInv, NEW r \in Slots, DeleteLoad(r)
    PROVE  IInv'
  <1>1. PICK u \in Users, id \in Ids :
          Step(r, Request("conv", "delete", u, msgs[id].conv, id, msgs[id], {}, NoBody, {}, FALSE))
    BY DEF DeleteLoad
  <1> DEFINE new == Request("conv", "delete", u, msgs[id].conv, id, msgs[id], {}, NoBody, {}, FALSE)
  <1>2. NoBody \in Texts /\ {} \in SUBSET Users
    BY DEF Texts
  <1>3. new \in Busy /\ Sound(new)
    BY <1>2, LoadedMessage
  <1>4. Step(r, new) /\ Begin(r, "delete")
    BY <1>1 DEF DeleteLoad
  <1> HIDE DEF new
  <1> QED  BY <1>3, <1>4, BeginKeepsIInv

LEMMA ReactLoadKeepsIInv ==
    ASSUME IInv, NEW r \in Slots, ReactLoad(r)
    PROVE  IInv'
  <1>1. PICK op \in {"react", "unreact"}, u \in Users, id \in Ids :
          /\ Begin(r, op)
          /\ Step(r, Request("conv", op, u, msgs[id].conv, id, msgs[id], {}, NoBody, {}, FALSE))
    BY DEF ReactLoad
  <1> DEFINE new == Request("conv", op, u, msgs[id].conv, id, msgs[id], {}, NoBody, {}, FALSE)
  <1>2. NoBody \in Texts /\ {} \in SUBSET Users
    BY DEF Texts
  <1>3. new \in Busy /\ Sound(new)
    BY <1>2, LoadedMessage
  <1>4. Step(r, new) /\ Begin(r, op)
    BY <1>1
  <1> HIDE DEF new
  <1> QED  BY <1>3, <1>4, BeginKeepsIInv

LEMMA LoadConversationKeepsIInv ==
    ASSUME IInv, NEW r \in Slots, LoadConversation(r)
    PROVE  IInv'
  <1> DEFINE q == req[r]
             new == [q EXCEPT !.snap = members[q.conv],
                              !.pc = IF q.op = "edit" THEN "stored" ELSE "write"]
  <1>1. q \in Busy /\ Sound(q) /\ q.pc = "conv"
    BY InFlight DEF LoadConversation, At
  <1>2. Step(r, new) /\ Continue /\ UNCHANGED <<store, bus, shown>>
    BY DEF LoadConversation
  <1>3. members[q.conv] \subseteq Users /\ members[q.conv] \subseteq ever[q.conv]
    BY <1>1 DEF IInv, TypeOK, MembersHaveBeen, Busy
  <1>4. new \in Busy
    BY <1>1, <1>3 DEF Busy
  <1>5. Sound(new)
    BY <1>1, <1>3 DEF Sound, OnStored, Busy
  <1> HIDE DEF new
  <1> QED  BY <1>2, <1>4, <1>5, ContinueKeepsIInv

LEMMA EditStoredKeepsIInv ==
    ASSUME IInv, NEW r \in Slots, EditStored(r)
    PROVE  IInv'
  <1> DEFINE q == req[r]
             new == [q EXCEPT !.pc = "write"]
  <1>1. q \in Busy /\ Sound(q) /\ q.pc = "stored"
    BY InFlight DEF EditStored, At
  <1>2. /\ q.tags \subseteq q.snap \cup msgs[q.id].tags
        /\ Step(r, new) /\ Continue /\ UNCHANGED <<store, bus, shown>>
    BY DEF EditStored
  <1>3. msgs[q.id].tags \subseteq ever[q.conv]
    BY <1>1 DEF Sound, OnStored, IInv, MentionsWereParticipants
  <1>4. new \in Busy
    BY <1>1 DEF Busy
  <1>5. Sound(new)
    BY <1>1, <1>2, <1>3 DEF Sound, OnStored, Busy
  <1> HIDE DEF new
  <1> QED  BY <1>2, <1>4, <1>5, ContinueKeepsIInv
-----------------------------------------------------------------------------
LEMMA AddMessageKeepsIInv ==
    ASSUME IInv, NEW r \in Slots, AddMessage(r)
    PROVE  IInv'
  <1> DEFINE q   == req[r]
             id  == Len(msgs) + 1
             row == NewRow(q)
             c   == q.conv
             new == [q EXCEPT !.id = id, !.row = row,
                              !.pc = IF q.tags # {} THEN "tags" ELSE "decorate"]
  <1>1. q \in Busy /\ Sound(q) /\ q.pc = "write" /\ q.op \in {"send", "forward"}
    BY InFlight DEF AddMessage, At
  <1>2. /\ msgs' = Append(msgs, row)
        /\ nextSeq' = [nextSeq EXCEPT ![c] = @ + 1]
        /\ activity' = [activity EXCEPT ![c] = IF ShowsInMain(row) THEN id ELSE @]
        /\ Step(r, new)
        /\ Continue /\ bus' = bus /\ shown' = shown
    BY DEF AddMessage
  <1>3. /\ c \in Conversations /\ nextSeq[c] \in Nat \ {0} /\ Len(msgs) \in Nat
        /\ msgs \in Seq(Stored) /\ q.row \in Row
    BY <1>1 DEF IInv, TypeOK, Busy
  <1>4. /\ row \in Stored
        /\ row = [q.row EXCEPT !.seq = nextSeq[c]]
    BY <1>3 DEF NewRow, SeqFor, Stored, Row
  <1>5. /\ row.conv = c /\ q.row.conv = c /\ row.body # NoBody /\ row.tags = {}
        /\ row.reply = q.row.reply /\ row.root = q.row.root /\ row.fwd = q.row.fwd
        /\ row.seq = nextSeq[c] /\ ~row.deleted
        /\ ParentsFit(q.row, id)
    BY <1>1, <1>3, <1>4 DEF Sound, OnStored, ReadyToInsert, Row
  <1> HIDE DEF row
  <1>6. /\ msgs' \in Seq(Stored) /\ Len(msgs') = id
        /\ \A i \in Ids : msgs'[i] = msgs[i]
        /\ msgs'[id] = row
        /\ Ids' = Ids \cup {id} /\ id \notin Ids
    BY <1>2, <1>3, <1>4 DEF Ids
  <1>7. new \in Busy
    <2>1. row \in Row /\ id \in Nat
      BY <1>3, <1>4 DEF Stored
    <2> QED  BY <1>1, <2>1 DEF Busy
  <1>8. PICK p \in Busy : p = new
    BY <1>7
  <1>9. TypeOK'
    <2>1. nextSeq' \in [Conversations -> Nat \ {0}]
      BY <1>2, <1>3 DEF IInv, TypeOK
    <2>2. activity' \in [Conversations -> Nat]
      BY <1>2, <1>3 DEF IInv, TypeOK
    <2>3. req' \in [Slots -> {Idle} \cup Busy]
      BY <1>2, <1>7 DEF IInv, TypeOK, Step
    <2> QED  BY <1>2, <1>6, <2>1, <2>2, <2>3 DEF IInv, TypeOK, Continue
  <1>10. Kept
    <2>1. ever' = ever /\ Len(msgs') >= Len(msgs)
      BY <1>2, <1>3, <1>6 DEF Continue
    <2> QED  BY <1>6, <2>1 DEF Kept, SameFrozen
  <1>11. Sound(p)'
    <2>1. /\ p.id = id /\ p.conv = c /\ p.op = q.op /\ p.snap = q.snap
          /\ p.tags = q.tags /\ p.pc \in {"tags", "decorate"}
      BY <1>1, <1>8 DEF Busy
    <2>2. ever' = ever /\ id \in Ids' /\ msgs'[id].conv = c
      BY <1>2, <1>5, <1>6 DEF Continue
    <2> HIDE DEF id
    <2> QED  BY <1>1, <2>1, <2>2 DEF Sound, OnStored
  <1>12. ChecksStillHold'
    <2>1. Step(r, p)
      BY <1>2, <1>8
    <2> QED  BY <1>9, <1>10, <1>11, <2>1, RequestMoves DEF IInv
  <1>13. SeqIsTheOrder'
    <2> DEFINE Seqs(d) == {msgs[i].seq : i \in {k \in Ids : msgs[k].conv = d}}
    <2>1. \A d \in Conversations : Seqs(d) = 1..nextSeq[d] - 1
      BY DEF IInv, SeqIsTheOrder
    <2>2. ASSUME NEW i \in Ids, msgs[i].conv = c
          PROVE  msgs[i].seq < nextSeq[c]
      <3>1. msgs[i].seq \in Seqs(c)
        BY <2>2
      <3>2. Seqs(c) = 1..nextSeq[c] - 1
        BY <1>3, <2>1
      <3> HIDE DEF Seqs
      <3> QED  BY <1>3, <3>1, <3>2
    <2>3. ASSUME NEW i \in Ids', NEW j \in Ids', i < j, msgs'[i].conv = msgs'[j].conv
          PROVE  msgs'[i].seq < msgs'[j].seq
      <3>1. i \in Ids
        BY <1>3, <1>6, <2>3 DEF Ids
      <3>2. CASE j \in Ids
        BY <1>6, <2>3, <3>1, <3>2 DEF IInv, SeqIsTheOrder
      <3>3. CASE j = id
        BY <1>5, <1>6, <2>2, <2>3, <3>1, <3>3
      <3> QED  BY <1>6, <3>2, <3>3
    <2>4. ASSUME NEW d \in Conversations
          PROVE  {msgs'[i].seq : i \in {k \in Ids' : msgs'[k].conv = d}} = 1..nextSeq'[d] - 1
      <3>1. CASE d = c
        <4>1. {msgs'[i].seq : i \in {k \in Ids' : msgs'[k].conv = d}} = Seqs(c) \cup {nextSeq[c]}
          BY <1>5, <1>6, <3>1
        <4>2. nextSeq'[c] = nextSeq[c] + 1
          BY <1>2, <1>3 DEF IInv, TypeOK
        <4>3. Seqs(c) = 1..nextSeq[c] - 1
          BY <1>3, <2>1
        <4> HIDE DEF Seqs
        <4>4. Seqs(c) \cup {nextSeq[c]} = 1..nextSeq'[c] - 1
          BY <1>3, <4>2, <4>3
        <4> QED  BY <3>1, <4>1, <4>4
      <3>2. CASE d # c
        <4>1. {msgs'[i].seq : i \in {k \in Ids' : msgs'[k].conv = d}} = Seqs(d)
          BY <1>5, <1>6, <3>2
        <4>2. nextSeq'[d] = nextSeq[d]
          BY <1>2, <3>2 DEF IInv, TypeOK
        <4> QED  BY <2>1, <4>1, <4>2
      <3> QED  BY <3>1, <3>2
    <2> QED  BY <2>3, <2>4 DEF SeqIsTheOrder
  <1>14. RepliesStayInside'
    <2> SUFFICES ASSUME NEW i \in Ids'
                 PROVE  ParentsFit(msgs[i], i)'
      BY DEF RepliesStayInside
    <2>1. \A k \in 1..Len(msgs) : msgs'[k] = msgs[k]
      BY <1>6 DEF Ids
    <2>2. CASE i \in Ids
      <3>1. ParentsFit(msgs[i], i) /\ msgs'[i] = msgs[i]
        BY <1>6, <2>2 DEF IInv, RepliesStayInside
      <3>2. \A k \in 1..i - 1 : msgs'[k] = msgs[k]
        BY <1>3, <2>1, <2>2 DEF Ids
      <3> QED  BY <3>1, <3>2 DEF ParentsFit
    <2>3. CASE i = id
      <3>1. ParentsFit(q.row, id) /\ msgs'[i] = row
        BY <1>5, <1>6, <2>3
      <3>2. id - 1 = Len(msgs)
        BY <1>3
      <3> HIDE DEF id, q
      <3> QED  BY <1>5, <2>1, <2>3, <3>1, <3>2 DEF ParentsFit
    <2> QED  BY <1>6, <2>2, <2>3
  <1>15. MentionsWereParticipants' /\ LiveMessagesHaveBodies'
    BY <1>2, <1>5, <1>6 DEF IInv, MentionsWereParticipants, LiveMessagesHaveBodies, Continue
  <1>16. MembersHaveBeen'
    BY <1>2 DEF IInv, MembersHaveBeen, Continue
  <1>17. ActivityIsLastVisible'
    <2> DEFINE Visible(d) == {i \in Ids : msgs[i].conv = d /\ (msgs[i].root = 0 \/ msgs[i].main)}
               Now(d) == {i \in Ids' : msgs'[i].conv = d /\ (msgs'[i].root = 0 \/ msgs'[i].main)}
    <2> SUFFICES ASSUME NEW d \in Conversations
                 PROVE  IF Now(d) = {} THEN activity'[d] = 0
                        ELSE activity'[d] \in Now(d) /\ \A i \in Now(d) : i <= activity'[d]
      BY DEF ActivityIsLastVisible
    <2>1. IF Visible(d) = {} THEN activity[d] = 0
          ELSE activity[d] \in Visible(d) /\ \A i \in Visible(d) : i <= activity[d]
      BY DEF IInv, ActivityIsLastVisible
    <2>2. Now(d) = IF d = c /\ ShowsInMain(row) THEN Visible(d) \cup {id} ELSE Visible(d)
      BY <1>5, <1>6 DEF ShowsInMain
    <2>3. activity'[d] = IF d = c /\ ShowsInMain(row) THEN id ELSE activity[d]
      BY <1>2, <1>3 DEF IInv, TypeOK
    <2>4. \A i \in Visible(d) : i <= id
      BY <1>3 DEF Ids
    <2>5. id \in Nat
      BY <1>3
    <2> HIDE DEF Visible, Now, id
    <2>6. CASE d = c /\ ShowsInMain(row)
      BY <2>2, <2>3, <2>4, <2>5, <2>6
    <2>7. CASE ~(d = c /\ ShowsInMain(row))
      BY <2>1, <2>2, <2>3, <2>7
    <2> QED  BY <2>6, <2>7
  <1>18. Len(msgs') <= MaxMessages
    BY <1>3, <1>6, MessagesAssumption DEF AddMessage
  <1> QED
    BY <1>9, <1>12, <1>13, <1>14, <1>15, <1>16, <1>17, <1>18 DEF IInv

\* A request past its load is about a stored row of its conversation.
LEMMA AboutAStoredRow ==
    ASSUME IInv, NEW r \in Slots, req[r].pc # "idle", OnStored(req[r])
    PROVE  /\ req[r].id \in Ids /\ msgs[req[r].id] \in Stored
           /\ msgs[req[r].id].conv = req[r].conv
           /\ msgs[req[r].id].tags \subseteq ever[req[r].conv]
           /\ ~msgs[req[r].id].deleted => msgs[req[r].id].body # NoBody
  <1>1. Sound(req[r])
    BY InFlight
  <1>2. req[r].id \in Ids /\ msgs[req[r].id].conv = req[r].conv
    BY <1>1 DEF Sound
  <1>3. msgs[req[r].id] \in Stored
    BY <1>2 DEF Ids, IInv, TypeOK
  <1> QED
    BY <1>2, <1>3 DEF IInv, MentionsWereParticipants, LiveMessagesHaveBodies

\* The rewrite of one row by the request in slot r.
LEMMA WriteKeepsIInv ==
    ASSUME IInv, NEW r \in Slots, req[r].pc # "idle", OnStored(req[r]),
           NEW row \in Stored, msgs' = [msgs EXCEPT ![req[r].id] = row],
           SameFrozen(row, msgs[req[r].id]),
           row.tags \subseteq ever[req[r].conv],
           ~row.deleted => row.body # NoBody,
           NEW new \in Busy, Step(r, new), Sound(new),
           Continue, UNCHANGED <<nextSeq, activity, bus, shown>>
    PROVE  IInv'
  <1>1. req[r].id \in Ids /\ row.conv = req[r].conv
    BY AboutAStoredRow DEF SameFrozen
  <1>2. UNCHANGED <<members, ever, nextSeq, activity, bus, shown, started, churn, failures>>
    BY DEF Continue
  <1> QED  BY <1>1, <1>2, RowChangeKeepsIInv

LEMMA EditWriteKeepsIInv ==
    ASSUME IInv, NEW r \in Slots, EditWrite(r)
    PROVE  IInv'
  <1> DEFINE q   == req[r]
             row == EditOf(q)
             new == [q EXCEPT !.row = row, !.pc = IF q.retag THEN "tags" ELSE "decorate"]
  <1>1. q \in Busy /\ Sound(q) /\ q.pc = "write" /\ q.op = "edit" /\ OnStored(q)
    BY InFlight DEF EditWrite, At, OnStored
  <1>2. /\ q.id \in Ids /\ msgs[q.id] \in Stored
        /\ msgs[q.id].tags \subseteq ever[q.conv]
    BY <1>1, AboutAStoredRow
  <1>3. row \in Stored /\ SameFrozen(row, msgs[q.id]) /\ row.tags = msgs[q.id].tags
        /\ row.body = q.text
    BY <1>1, <1>2 DEF EditOf, Stored, Row, Busy, SameFrozen
  <1>4. q.text # NoBody
    BY <1>1 DEF Sound
  <1>5. /\ msgs' = [msgs EXCEPT ![q.id] = row] /\ Step(r, new)
        /\ Continue /\ UNCHANGED <<nextSeq, activity, bus, shown>>
    BY DEF EditWrite, UpdateRow
  <1> HIDE DEF row
  <1>6. new \in Busy
    BY <1>1, <1>3 DEF Busy, Stored
  <1>7. Sound(new)
    BY <1>1 DEF Sound, OnStored, Busy
  <1> HIDE DEF new
  <1> QED  BY <1>1, <1>2, <1>3, <1>4, <1>5, <1>6, <1>7, WriteKeepsIInv

LEMMA DeleteWriteKeepsIInv ==
    ASSUME IInv, NEW r \in Slots, DeleteWrite(r)
    PROVE  IInv'
  <1> DEFINE q   == req[r]
             row == [msgs[q.id] EXCEPT !.body = NoBody, !.deleted = TRUE]
             new == [q EXCEPT !.row = row, !.pc = "decorate"]
  <1>1. q \in Busy /\ Sound(q) /\ q.pc = "write" /\ q.op = "delete" /\ OnStored(q)
    BY InFlight DEF DeleteWrite, At, OnStored
  <1>2. /\ q.id \in Ids /\ msgs[q.id] \in Stored
        /\ msgs[q.id].tags \subseteq ever[q.conv]
    BY <1>1, AboutAStoredRow
  <1>3. row \in Stored /\ SameFrozen(row, msgs[q.id]) /\ row.tags = msgs[q.id].tags
        /\ row.deleted
    BY <1>2 DEF Stored, Row, Texts, SameFrozen
  <1>4. /\ msgs' = [msgs EXCEPT ![q.id] = row] /\ Step(r, new)
        /\ Continue /\ UNCHANGED <<nextSeq, activity, bus, shown>>
    BY DEF DeleteWrite, UpdateRow
  <1> HIDE DEF row
  <1>5. new \in Busy
    BY <1>1, <1>3 DEF Busy, Stored
  <1>6. Sound(new)
    BY <1>1 DEF Sound, OnStored, Busy
  <1> HIDE DEF new
  <1> QED  BY <1>1, <1>2, <1>3, <1>4, <1>5, <1>6, WriteKeepsIInv

LEMMA ReactWriteKeepsIInv ==
    ASSUME IInv, NEW r \in Slots, ReactWrite(r)
    PROVE  IInv'
  <1> DEFINE q      == req[r]
             reacts == IF q.op = "react" THEN msgs[q.id].reacts \cup {q.user}
                                         ELSE msgs[q.id].reacts \ {q.user}
             row    == [msgs[q.id] EXCEPT !.reacts = reacts]
             new    == [q EXCEPT !.row.reacts = reacts, !.pc = "decorate"]
  <1>1. /\ q \in Busy /\ Sound(q) /\ q.pc = "write" /\ OnStored(q)
        /\ q.op \in {"react", "unreact"}
    BY InFlight DEF ReactWrite, At, OnStored, IsReaction
  <1>2. /\ q.id \in Ids /\ msgs[q.id] \in Stored
        /\ msgs[q.id].tags \subseteq ever[q.conv]
        /\ ~msgs[q.id].deleted => msgs[q.id].body # NoBody
    BY <1>1, AboutAStoredRow
  <1>3. /\ msgs' = [msgs EXCEPT ![q.id].reacts = reacts] /\ Step(r, new)
        /\ Continue /\ UNCHANGED <<nextSeq, activity, bus, shown>>
    BY DEF ReactWrite
  <1>4. reacts \in SUBSET Users
    BY <1>1, <1>2 DEF Stored, Row, Busy
  <1> HIDE DEF reacts
  <1>5. /\ row \in Stored /\ SameFrozen(row, msgs[q.id]) /\ row.tags = msgs[q.id].tags
        /\ row.body = msgs[q.id].body /\ row.deleted = msgs[q.id].deleted
    BY <1>2, <1>4 DEF Stored, Row, SameFrozen
  <1>6. msgs' = [msgs EXCEPT ![q.id] = row]
    BY <1>2, <1>3 DEF IInv, TypeOK
  <1> HIDE DEF row
  <1>7. new \in Busy
    BY <1>1, <1>4 DEF Busy, Row
  <1>8. Sound(new)
    BY <1>1 DEF Sound, OnStored, Busy
  <1> HIDE DEF new
  <1> QED  BY <1>1, <1>2, <1>3, <1>5, <1>6, <1>7, <1>8, WriteKeepsIInv

LEMMA SetMentionsKeepsIInv ==
    ASSUME IInv, NEW r \in Slots, SetMentions(r)
    PROVE  IInv'
  <1> DEFINE q   == req[r]
             row == [msgs[q.id] EXCEPT !.tags = q.tags]
             new == [q EXCEPT !.pc = "decorate"]
  <1>1. q \in Busy /\ Sound(q) /\ q.pc = "tags" /\ OnStored(q)
    BY InFlight DEF SetMentions, At, OnStored
  <1>2. /\ q.id \in Ids /\ msgs[q.id] \in Stored
        /\ ~msgs[q.id].deleted => msgs[q.id].body # NoBody
    BY <1>1, AboutAStoredRow
  <1>3. /\ row \in Stored /\ SameFrozen(row, msgs[q.id]) /\ row.tags = q.tags
        /\ row.body = msgs[q.id].body /\ row.deleted = msgs[q.id].deleted
    BY <1>1, <1>2 DEF Stored, Row, Busy, SameFrozen
  <1>4. q.tags \subseteq ever[q.conv]
    BY <1>1 DEF Sound
  <1>5. /\ msgs' = [msgs EXCEPT ![q.id].tags = q.tags] /\ Step(r, new)
        /\ Continue /\ UNCHANGED <<nextSeq, activity, bus, shown>>
    BY DEF SetMentions
  <1>6. msgs' = [msgs EXCEPT ![q.id] = row]
    BY <1>2, <1>5 DEF IInv, TypeOK
  <1> HIDE DEF row
  <1>7. new \in Busy
    BY <1>1 DEF Busy
  <1>8. Sound(new)
    BY <1>1 DEF Sound, OnStored, Busy
  <1> HIDE DEF new
  <1> QED  BY <1>1, <1>2, <1>3, <1>4, <1>5, <1>6, <1>7, <1>8, WriteKeepsIInv
-----------------------------------------------------------------------------
LEMMA DecorateKeepsIInv ==
    ASSUME IInv, NEW r \in Slots, Decorate(r)
    PROVE  IInv'
  <1> DEFINE q   == req[r]
             now == msgs[q.id]
             new == [q EXCEPT !.row.tags = now.tags,
                              !.row.reacts = IF IsReaction(q.op) THEN @ ELSE now.reacts,
                              !.pc = "publish"]
  <1>1. q \in Busy /\ Sound(q) /\ q.pc = "decorate" /\ OnStored(q)
    BY InFlight DEF Decorate, At, OnStored
  <1>2. now.tags \subseteq Users /\ now.reacts \subseteq Users
    BY <1>1, AboutAStoredRow DEF Stored, Row
  <1>3. Step(r, new) /\ Continue /\ UNCHANGED <<store, bus, shown>>
    BY DEF Decorate
  <1>4. new \in Busy
    BY <1>1, <1>2 DEF Busy, Row
  <1>5. Sound(new)
    BY <1>1 DEF Sound, OnStored, Busy
  <1> HIDE DEF new
  <1> QED  BY <1>3, <1>4, <1>5, ContinueKeepsIInv

LEMMA PublishKeepsIInv ==
    ASSUME IInv, NEW r \in Slots, Publish(r)
    PROVE  IInv'
  <1> DEFINE e == [type |-> req[r].op, id |-> req[r].id, row |-> req[r].row,
                   to |-> req[r].snap]
  <1>1. req[r] \in Busy
    BY InFlight DEF Publish, At
  <1>2. e \in Event
    BY <1>1 DEF Event, Busy
  <1>3. /\ bus' = Append(bus, e) /\ Step(r, Idle) /\ Continue /\ UNCHANGED store
        /\ shown' = [shown EXCEPT ![req[r].id] = ApplyEvent(@, e)]
    BY DEF Publish
  <1>6. shown' \in Screens
    <2>1. \A old \in {NotShown} \cup Row : ApplyEvent(old, e) \in {NotShown} \cup Row
      BY <1>1 DEF ApplyEvent, Busy, Row
    <2> HIDE DEF e
    <2> QED  BY <1>3, <2>1 DEF IInv, TypeOK, Screens
  <1> HIDE DEF e
  <1>4. bus' \in Seq(Event)
    BY <1>2, <1>3 DEF IInv, TypeOK
  <1>5. /\ UNCHANGED <<members, ever, msgs, nextSeq, activity>>
        /\ started' \in Nat /\ churn' \in Nat /\ failures' \in Nat
    BY <1>3 DEF Continue, store, IInv, TypeOK
  <1> QED  BY <1>3, <1>4, <1>5, <1>6, ReadKeepsIInv

LEMMA RefuseKeepsIInv ==
    ASSUME IInv, NEW r \in Slots, Refuse(r)
    PROVE  IInv'
  BY ContinueKeepsIInv DEF Refuse

LEMMA FailKeepsIInv ==
    ASSUME IInv, NEW r \in Slots, Fail(r)
    PROVE  IInv'
  <1>1. /\ UNCHANGED <<members, ever, msgs, nextSeq, activity>> /\ Step(r, Idle)
        /\ bus' \in Seq(Event) /\ shown' \in Screens /\ started' \in Nat /\ churn' \in Nat /\ failures' \in Nat
    BY DEF Fail, store, people, IInv, TypeOK
  <1> QED  BY <1>1, ReadKeepsIInv

\* Membership changes reach only the history, which grows.
LEMMA ChurnKeepsIInv ==
    ASSUME IInv, NEW c \in Conversations, NEW u \in Users, Join(c, u) \/ Leave(c, u)
    PROVE  IInv'
  <1>1. /\ UNCHANGED <<msgs, nextSeq, activity, req, bus, shown, started, failures>>
        /\ churn' = churn + 1
    BY DEF Join, Leave, store
  <1>2. /\ members' \in [Conversations -> SUBSET Users]
        /\ ever' \in [Conversations -> SUBSET Users]
        /\ \A d \in Conversations : ever[d] \subseteq ever'[d]
    <2>1. CASE Join(c, u)
      BY <2>1 DEF Join, IInv, TypeOK
    <2>2. CASE Leave(c, u)
      BY <2>2 DEF Leave, IInv, TypeOK
    <2> QED  BY <2>1, <2>2
  <1>3. MembersHaveBeen'
    BY DEF Join, Leave, IInv, TypeOK, MembersHaveBeen
  <1>4. TypeOK'
    BY <1>1, <1>2 DEF IInv, TypeOK
  <1>5. Kept
    BY <1>1, <1>2 DEF Kept, SameFrozen, IInv, TypeOK
  <1>6. ChecksStillHold'
    <2> SUFFICES ASSUME NEW s \in Slots, req[s] # Idle
                 PROVE  Sound(req[s])'
      BY <1>1 DEF ChecksStillHold
    <2>1. PICK q \in Busy : q = req[s]
      BY DEF IInv, TypeOK
    <2>2. Sound(q)
      BY <2>1 DEF IInv, ChecksStillHold
    <2>3. Sound(q)'
      BY <1>4, <1>5, <2>2, SoundStays DEF IInv, TypeOK
    <2> QED  BY <1>1, <2>1, <2>3 DEF Sound, OnStored, ReadyToInsert, ParentsFit
  <1>7. /\ SeqIsTheOrder' /\ RepliesStayInside' /\ LiveMessagesHaveBodies'
        /\ ActivityIsLastVisible' /\ Len(msgs') <= MaxMessages
    BY <1>1 DEF IInv, SeqIsTheOrder, RepliesStayInside, ParentsFit, LiveMessagesHaveBodies,
                ActivityIsLastVisible, Ids
  <1>8. MentionsWereParticipants'
    <2> SUFFICES ASSUME NEW i \in Ids
                 PROVE  msgs[i].tags \subseteq ever'[msgs[i].conv]
      BY <1>1 DEF MentionsWereParticipants, Ids
    <2>1. msgs[i].conv \in Conversations
      BY DEF Ids, IInv, TypeOK, Stored, Row
    <2> QED  BY <1>2, <2>1 DEF IInv, MentionsWereParticipants
  <1> QED
    BY <1>3, <1>4, <1>6, <1>7, <1>8 DEF IInv
-----------------------------------------------------------------------------
LEMMA InitIInv ==
    ASSUME Init
    PROVE  IInv
  <1>1. Founders \in [Conversations -> SUBSET Users]
    BY MessagesAssumption
  <1>2. msgs = <<>> /\ Len(msgs) = 0 /\ Ids = {}
    BY DEF Init, Ids
  <1>3. TypeOK
    BY <1>1 DEF Init, TypeOK, Screens
  <1>4. SeqIsTheOrder
    BY <1>2 DEF Init, SeqIsTheOrder
  <1>5. Len(msgs) <= MaxMessages /\ ActivityIsLastVisible
    BY <1>2, MessagesAssumption DEF Init, ActivityIsLastVisible
  <1> QED
    BY <1>2, <1>3, <1>4, <1>5 DEF Init, IInv, MembersHaveBeen, ChecksStillHold, RepliesStayInside,
                            MentionsWereParticipants, LiveMessagesHaveBodies

LEMMA StepIInv ==
    ASSUME IInv, [Next]_vars
    PROVE  IInv'
  <1>1. ASSUME NEW r \in Slots, Read(r)
        PROVE  IInv'
    BY <1>1, SendLoadKeepsIInv, SendVerifyKeepsIInv, ForwardLoadKeepsIInv,
       ForwardSourceKeepsIInv, ForwardTargetKeepsIInv, EditLoadKeepsIInv,
       DeleteLoadKeepsIInv, ReactLoadKeepsIInv, LoadConversationKeepsIInv,
       EditStoredKeepsIInv DEF Read
  <1>2. ASSUME NEW r \in Slots, Write(r)
        PROVE  IInv'
    BY <1>2, AddMessageKeepsIInv, EditWriteKeepsIInv, DeleteWriteKeepsIInv,
       ReactWriteKeepsIInv, SetMentionsKeepsIInv DEF Write
  <1>3. ASSUME NEW r \in Slots, Announce(r) \/ Refuse(r) \/ Fail(r)
        PROVE  IInv'
    BY <1>3, DecorateKeepsIInv, PublishKeepsIInv, RefuseKeepsIInv, FailKeepsIInv
       DEF Announce
  <1>4. ASSUME NEW c \in Conversations, NEW u \in Users, Join(c, u) \/ Leave(c, u)
        PROVE  IInv'
    BY <1>4, ChurnKeepsIInv
  <1>5. CASE UNCHANGED vars
    <2>1. TypeOK' /\ MembersHaveBeen' /\ MentionsWereParticipants' /\ LiveMessagesHaveBodies'
      BY <1>5 DEF vars, IInv, TypeOK, MembersHaveBeen, MentionsWereParticipants,
                  LiveMessagesHaveBodies, Ids
    <2>2. ChecksStillHold'
      BY <1>5 DEF vars, IInv, ChecksStillHold, Sound, OnStored, ReadyToInsert, ParentsFit, Ids
    <2>3. /\ SeqIsTheOrder' /\ RepliesStayInside' /\ ActivityIsLastVisible'
          /\ Len(msgs') <= MaxMessages
      BY <1>5 DEF vars, IInv, SeqIsTheOrder, RepliesStayInside, ParentsFit,
                  ActivityIsLastVisible, Ids
    <2> QED  BY <2>1, <2>2, <2>3 DEF IInv
  <1> QED  BY <1>1, <1>2, <1>3, <1>4, <1>5 DEF Next

-----------------------------------------------------------------------------
(***************************************************************************)
(* The refinement of MessageLog.                                           *)
(***************************************************************************)

Entries == AbstractLog!Entries

\* The log has an entry for every seq handed out, and it is that of the message.
LogIsTheRows ==
    /\ Log \in [Conversations -> Seq(Entries)]
    /\ \A c \in Conversations : Len(Log[c]) = nextSeq[c] - 1
    /\ \A c \in Conversations : \A s \in 1..nextSeq[c] - 1 :
        \E i \in Ids : msgs[i].conv = c /\ msgs[i].seq = s
    /\ \A i \in Ids :
        /\ msgs[i].conv \in Conversations
        /\ msgs[i].seq \in 1..nextSeq[msgs[i].conv] - 1
        /\ Log[msgs[i].conv][msgs[i].seq] = EntryOf(msgs[i])

LEMMA EntryOfRow ==
    ASSUME IInv, NEW i \in Ids
    PROVE  EntryOf(msgs[i]) \in Entries
  <1>1. msgs[i] \in Row /\ i \in 1..Len(msgs) /\ Len(msgs) \in Nat
    BY DEF IInv, TypeOK, Ids, Stored
  <1>2. ParentsFit(msgs[i], i)
    BY DEF IInv, RepliesStayInside
  <1>3. i - 1 <= MaxMessages /\ MaxMessages \in Nat
    BY <1>1, MessagesAssumption DEF IInv
  <1>4. /\ msgs[i].sender \in Users /\ msgs[i].main \in BOOLEAN /\ msgs[i].deleted \in BOOLEAN
        /\ msgs[i].reply \in Nat /\ msgs[i].root \in Nat
    BY <1>1 DEF Row
  <1>5. /\ msgs[i].reply \in 0..MaxMessages /\ msgs[i].root \in 0..MaxMessages
        /\ msgs[i].fwd \in 0..MaxMessages
    BY <1>1, <1>2, <1>3, <1>4 DEF ParentsFit
  <1> QED  BY <1>4, <1>5 DEF EntryOf, Entries, AbstractLog!Entries, Posts

LEMMA LogOfRows == IInv => LogIsTheRows
  <1> SUFFICES ASSUME IInv
               PROVE  LogIsTheRows
    OBVIOUS
  <1>1. TypeOK /\ SeqIsTheOrder
    BY DEF IInv
  <1>2. ASSUME NEW c \in Conversations, NEW s \in 1..nextSeq[c] - 1
        PROVE  \E i \in Ids : msgs[i].conv = c /\ msgs[i].seq = s
    <2> DEFINE Seqs == {msgs[k].seq : k \in {l \in Ids : msgs[l].conv = c}}
    <2>1. Seqs = 1..nextSeq[c] - 1
      BY <1>1 DEF SeqIsTheOrder
    <2>2. s \in Seqs
      BY <2>1
    <2> QED  BY <2>2
  <1>3. ASSUME NEW i \in Ids
        PROVE  /\ msgs[i].conv \in Conversations
               /\ msgs[i].seq \in 1..nextSeq[msgs[i].conv] - 1
               /\ Log[msgs[i].conv][msgs[i].seq] = EntryOf(msgs[i])
    <2> DEFINE c == msgs[i].conv
               s == msgs[i].seq
               j == CHOOSE k \in Ids : msgs[k].conv = c /\ msgs[k].seq = s
    <2>1. c \in Conversations
      BY <1>1 DEF Ids, TypeOK, Stored, Row
    <2>2. s \in 1..nextSeq[c] - 1
      <3> DEFINE Seqs == {msgs[k].seq : k \in {l \in Ids : msgs[l].conv = c}}
      <3>1. s \in Seqs
        OBVIOUS
      <3>2. Seqs = 1..nextSeq[c] - 1
        BY <1>1, <2>1 DEF SeqIsTheOrder
      <3> QED  BY <3>1, <3>2
    <2>3. j \in Ids /\ msgs[j].conv = c /\ msgs[j].seq = s
      OBVIOUS
    <2>4. j = i
      <3>1. i \in Int /\ j \in Int /\ s \in Int
        BY <2>2, <2>3 DEF Ids
      <3> QED  BY <1>1, <2>3, <3>1 DEF SeqIsTheOrder
    <2>5. Log[c][s] = EntryOf(msgs[j])
      BY <2>1, <2>2 DEF Log
    <2> QED  BY <2>1, <2>2, <2>4, <2>5
  <1>4. ASSUME NEW c \in Conversations
        PROVE  Log[c] \in Seq(Entries) /\ Len(Log[c]) = nextSeq[c] - 1
    <2> DEFINE n == nextSeq[c] - 1
               Chosen(s) == CHOOSE i \in Ids : msgs[i].conv = c /\ msgs[i].seq = s
    <2>1. n \in Nat
      BY <1>1 DEF TypeOK
    <2>2. \A s \in 1..n : Chosen(s) \in Ids
      BY <1>2
    <2>3. \A s \in 1..n : EntryOf(msgs[Chosen(s)]) \in Entries
      BY <2>2, EntryOfRow
    <2>4. Log[c] = [s \in 1..n |-> EntryOf(msgs[Chosen(s)])]
      BY DEF Log
    <2> HIDE DEF n, Chosen
    <2> QED  BY <2>1, <2>3, <2>4 DEF n
  <1>5. Log \in [Conversations -> Seq(Entries)]
    BY <1>4 DEF Log
  <1> QED  BY <1>2, <1>3, <1>4, <1>5 DEF LogIsTheRows

\* The same in the next state.
LEMMA LogOfNextRows ==
    ASSUME IInv'
    PROVE  LogIsTheRows'
  <1>1. (IInv => LogIsTheRows)'
    BY LogOfRows, PTL
  <1> QED  BY <1>1

\* A message that is inserted is posted at the end of its conversation.
LEMMA InsertPosts ==
    ASSUME IInv, IInv', NEW row \in Stored, msgs' = Append(msgs, row),
           row.seq = nextSeq[row.conv], ~row.deleted,
           nextSeq' = [nextSeq EXCEPT ![row.conv] = @ + 1]
    PROVE  AbstractLog!Post(row.conv)
  <1> DEFINE c  == row.conv
             n  == nextSeq[c] - 1
             id == Len(msgs) + 1
             e  == EntryOf(row)
  <1>1. LogIsTheRows /\ LogIsTheRows'
    BY LogOfRows, LogOfNextRows
  <1>2. c \in Conversations /\ n \in Nat /\ nextSeq \in [Conversations -> Nat \ {0}]
    BY DEF IInv, TypeOK, Stored, Row
  <1>3. /\ id \in Ids' /\ msgs'[id] = row
        /\ \A i \in Ids : i \in Ids' /\ msgs'[i] = msgs[i]
    BY DEF IInv, TypeOK, Ids
  <1>4. nextSeq'[c] - 1 = n + 1 /\ \A d \in Conversations \ {c} : nextSeq'[d] = nextSeq[d]
    BY <1>2
  <1>5. /\ \A d \in Conversations : Log[d] \in Seq(Entries) /\ Len(Log[d]) = nextSeq[d] - 1
        /\ \A d \in Conversations : Log'[d] \in Seq(Entries) /\ Len(Log'[d]) = nextSeq'[d] - 1
    BY <1>1 DEF LogIsTheRows, Entries, AbstractLog!Entries
  <1>6. ASSUME NEW d \in Conversations, NEW s \in 1..nextSeq[d] - 1
        PROVE  Log'[d][s] = Log[d][s]
    <2>1. PICK i \in Ids : msgs[i].conv = d /\ msgs[i].seq = s
      BY <1>1 DEF LogIsTheRows
    <2>2. Log[d][s] = EntryOf(msgs[i])
      BY <1>1, <2>1 DEF LogIsTheRows
    <2>3. i \in Ids' /\ msgs'[i] = msgs[i]
      BY <1>3
    <2>4. Log'[d][s] = EntryOf(msgs'[i])
      BY <1>1, <2>1, <2>3 DEF LogIsTheRows, EntryOf
    <2> QED  BY <2>2, <2>3, <2>4
  <1>7. Log'[c][n + 1] = e
    BY <1>1, <1>2, <1>3 DEF LogIsTheRows, EntryOf
  <1>8. e \in Entries /\ e = [post |-> e.post, erased |-> FALSE]
    <2>1. e = Log'[c][n + 1] /\ n + 1 \in 1..Len(Log'[c])
      BY <1>2, <1>4, <1>5, <1>7
    <2> HIDE DEF e
    <2>2. e \in Entries
      BY <1>2, <1>5, <2>1, ElementOfSeq
    <2>3. row.deleted = FALSE
      BY DEF Stored, Row
    <2> QED  BY <2>2, <2>3 DEF e, EntryOf
  <1> HIDE DEF e
  <1>9. Log'[c] = Append(Log[c], e)
    <2> DEFINE t == Append(Log[c], e)
    <2>1. t \in Seq(Entries) /\ Len(t) = n + 1 /\ t[n + 1] = e
          /\ \A s \in 1..n : t[s] = Log[c][s]
      BY <1>2, <1>5, <1>8
    <2>2. \A s \in 1..n + 1 : Log'[c][s] = t[s]
      BY <1>2, <1>6, <1>7, <2>1
    <2> HIDE DEF t
    <2>3. Log'[c] \in Seq(Entries) /\ Len(Log'[c]) = n + 1
      BY <1>2, <1>4, <1>5
    <2>4. Log'[c] = t
      BY <2>1, <2>2, <2>3, SeqEqual
    <2> QED  BY <2>4 DEF t
  <1>10. \A d \in Conversations \ {c} : Log'[d] = Log[d]
    <2> SUFFICES ASSUME NEW d \in Conversations \ {c}
                 PROVE  Log'[d] = Log[d]
      OBVIOUS
    <2>1. Len(Log'[d]) = Len(Log[d]) /\ \A s \in 1..Len(Log'[d]) : Log'[d][s] = Log[d][s]
      BY <1>4, <1>5, <1>6
    <2> QED  BY <1>5, <2>1, SeqEqual
  <1>11. Log' = [Log EXCEPT ![c] = Append(@, e)]
    <2>1. /\ Log \in [Conversations -> Seq(Entries)]
          /\ Log' \in [Conversations -> Seq(Entries)]
      BY <1>1 DEF LogIsTheRows, Entries, AbstractLog!Entries
    <2> QED  BY <1>2, <1>9, <1>10, <2>1
  <1>12. e.post \in Posts
    BY <1>8 DEF Entries, AbstractLog!Entries
  <1>13. Len(Log'[c]) = Len(Log[c]) + 1
    BY <1>2, <1>4, <1>5
  <1> QED  BY <1>8, <1>11, <1>12, <1>13 DEF AbstractLog!Post

\* A row that is rewritten is erased, or looks the same in the log.
LEMMA RewriteErases ==
    ASSUME IInv, IInv', nextSeq' = nextSeq, NEW id \in Ids, NEW row \in Stored,
           msgs' = [msgs EXCEPT ![id] = row], SameFrozen(row, msgs[id])
    PROVE  AbstractLog!Erase(row.conv) \/ Log' = Log
  <1> DEFINE c == row.conv
             k == row.seq
             e == EntryOf(row)
  <1>1. LogIsTheRows /\ LogIsTheRows'
    BY LogOfRows, LogOfNextRows
  <1>2. /\ msgs[id].conv = c /\ msgs[id].seq = k
        /\ c \in Conversations /\ k \in 1..Len(Log[c])
        /\ Log[c][k] = EntryOf(msgs[id])
    BY <1>1 DEF LogIsTheRows, SameFrozen
  <1>3. /\ Ids' = Ids
        /\ \A i \in Ids : msgs'[i] = IF i = id THEN row ELSE msgs[i]
    BY DEF IInv, TypeOK, Ids
  <1>4. /\ Log \in [Conversations -> Seq(Entries)]
        /\ Log' \in [Conversations -> Seq(Entries)]
        /\ \A d \in Conversations : Len(Log[d]) = nextSeq[d] - 1 /\ Len(Log'[d]) = nextSeq[d] - 1
    BY <1>1 DEF LogIsTheRows, Entries, AbstractLog!Entries
  <1>5. ASSUME NEW d \in Conversations, NEW s \in 1..Len(Log[d]), ~(d = c /\ s = k)
        PROVE  Log'[d][s] = Log[d][s]
    <2>1. PICK i \in Ids : msgs[i].conv = d /\ msgs[i].seq = s
      BY <1>1, <1>4 DEF LogIsTheRows
    <2>2. i # id /\ msgs'[i] = msgs[i]
      BY <1>2, <1>3, <1>5, <2>1
    <2>3. Log[d][s] = EntryOf(msgs[i]) /\ Log'[d][s] = EntryOf(msgs'[i])
      BY <1>1, <1>3, <2>1, <2>2 DEF LogIsTheRows, EntryOf
    <2> QED  BY <2>2, <2>3
  <1>6. Log'[c][k] = e
    <2>1. id \in Ids' /\ msgs'[id] = row
      BY <1>3
    <2>2. Log'[msgs'[id].conv][msgs'[id].seq] = EntryOf(msgs'[id])
      BY <1>1, <2>1 DEF LogIsTheRows, EntryOf
    <2> QED  BY <2>1, <2>2
  <1>7. \A d \in Conversations \ {c} : Log'[d] = Log[d]
    <2> SUFFICES ASSUME NEW d \in Conversations \ {c}
                 PROVE  Log'[d] = Log[d]
      OBVIOUS
    <2>1. Len(Log'[d]) = Len(Log[d]) /\ \A s \in 1..Len(Log'[d]) : Log'[d][s] = Log[d][s]
      BY <1>4, <1>5
    <2>2. Log'[d] \in Seq(Entries) /\ Log[d] \in Seq(Entries)
      BY <1>4
    <2> QED  BY <2>1, <2>2, SeqEqual
  <1>8. e.post = Log[c][k].post
    BY <1>2 DEF EntryOf, SameFrozen
  <1>9. row.deleted \in BOOLEAN /\ msgs[id].deleted \in BOOLEAN
        /\ (msgs[id].deleted => row.deleted)
    <2>1. msgs[id] \in Row /\ row \in Row
      BY DEF IInv, TypeOK, Ids, Stored
    <2> QED  BY <2>1 DEF Row, SameFrozen
  <1>10. Log[c] \in Seq(Entries) /\ Log'[c] \in Seq(Entries) /\ Len(Log'[c]) = Len(Log[c])
    BY <1>2, <1>4
  <1>11. CASE row.deleted = msgs[id].deleted
    <2>1. e = Log[c][k]
      BY <1>2, <1>11 DEF EntryOf, SameFrozen
    <2>2. \A s \in 1..Len(Log'[c]) : Log'[c][s] = Log[c][s]
      BY <1>2, <1>5, <1>6, <1>10, <2>1
    <2>3. Log'[c] = Log[c]
      BY <1>10, <2>2, SeqEqual
    <2> QED  BY <1>4, <1>7, <2>3
  <1>12. CASE row.deleted # msgs[id].deleted
    <2>1. row.deleted = TRUE
      BY <1>9, <1>12
    <2>2. e = [Log[c][k] EXCEPT !.erased = TRUE]
      <3>1. Log[c][k] = [post |-> e.post, erased |-> msgs[id].deleted]
        BY <1>2, <1>8 DEF EntryOf
      <3>2. e = [post |-> e.post, erased |-> TRUE]
        BY <2>1 DEF EntryOf
      <3> HIDE DEF e
      <3> QED  BY <3>1, <3>2
    <2> DEFINE t == [Log[c] EXCEPT ![k].erased = TRUE]
    <2>3. Log'[c] = t
      <3>1. e \in Entries
        <4>1. Log'[c][k] \in Entries
          BY <1>2, <1>10, ElementOfSeq
        <4> QED  BY <1>6, <4>1
      <3>2. t = [Log[c] EXCEPT ![k] = e]
        BY <1>2, <1>10, <2>2
      <3> HIDE DEF t, e
      <3>3. t \in Seq(Entries) /\ Len(t) = Len(Log[c])
            /\ \A s \in 1..Len(Log[c]) : t[s] = IF s = k THEN e ELSE Log[c][s]
        BY <1>2, <1>10, <3>1, <3>2, ExceptSeq
      <3>4. \A s \in 1..Len(Log'[c]) : Log'[c][s] = t[s]
        BY <1>2, <1>5, <1>6, <1>10, <3>3
      <3> QED  BY <1>10, <3>3, <3>4, SeqEqual, SMTT(20)
    <2>4. Log' = [Log EXCEPT ![c] = t]
      BY <1>2, <1>4, <1>7, <2>3
    <2>5. k \in DOMAIN Log[c]
      BY <1>2, <1>10
    <2> QED  BY <2>4, <2>5 DEF AbstractLog!Erase
  <1> QED  BY <1>11, <1>12

\* What the insert writes, and where.
LEMMA InsertedRow ==
    ASSUME IInv, NEW r \in Slots, AddMessage(r)
    PROVE  \E row \in Stored :
            /\ msgs' = Append(msgs, row)
            /\ row.seq = nextSeq[row.conv] /\ ~row.deleted
            /\ nextSeq' = [nextSeq EXCEPT ![row.conv] = @ + 1]
  <1> DEFINE q   == req[r]
             row == NewRow(q)
  <1>1. q \in Busy /\ Sound(q) /\ q.pc = "write" /\ q.op \in {"send", "forward"}
    BY InFlight DEF AddMessage, At
  <1>2. /\ q.row.conv = q.conv /\ ~q.row.deleted
        /\ q.conv \in Conversations /\ q.row \in Row /\ nextSeq[q.conv] \in Nat \ {0}
    BY <1>1 DEF Sound, OnStored, ReadyToInsert, IInv, TypeOK, Busy
  <1>3. row \in Stored /\ row.conv = q.conv /\ row.seq = nextSeq[q.conv] /\ ~row.deleted
    BY <1>2 DEF NewRow, SeqFor, Stored, Row
  <1>4. msgs' = Append(msgs, row) /\ nextSeq' = [nextSeq EXCEPT ![q.conv] = @ + 1]
    BY DEF AddMessage
  <1> HIDE DEF row
  <1> QED  BY <1>3, <1>4

\* What the other writes do to their row.
LEMMA RewrittenRow ==
    ASSUME IInv, NEW r \in Slots,
           EditWrite(r) \/ DeleteWrite(r) \/ ReactWrite(r) \/ SetMentions(r)
    PROVE  /\ nextSeq' = nextSeq
           /\ \E id \in Ids, row \in Stored :
                msgs' = [msgs EXCEPT ![id] = row] /\ SameFrozen(row, msgs[id])
  <1> DEFINE q == req[r]
  <1>1. q \in Busy /\ Sound(q) /\ OnStored(q)
    BY InFlight DEF EditWrite, DeleteWrite, ReactWrite, SetMentions, At, OnStored, IsReaction
  <1>2. q.id \in Ids /\ msgs[q.id] \in Stored /\ q.pc # "idle"
    BY <1>1, AboutAStoredRow DEF Busy
  <1>3. msgs \in Seq(Stored)
    BY DEF IInv, TypeOK
  <1>4. CASE EditWrite(r)
    <2> DEFINE row == EditOf(q)
    <2>1. row \in Stored /\ SameFrozen(row, msgs[q.id])
      BY <1>1, <1>2 DEF EditOf, Stored, Row, Busy, SameFrozen
    <2> QED  BY <1>2, <1>4, <2>1 DEF EditWrite, UpdateRow
  <1>5. CASE DeleteWrite(r)
    <2> DEFINE row == [msgs[q.id] EXCEPT !.body = NoBody, !.deleted = TRUE]
    <2>1. row \in Stored /\ SameFrozen(row, msgs[q.id])
      BY <1>2 DEF Stored, Row, Texts, SameFrozen
    <2> QED  BY <1>2, <1>5, <2>1 DEF DeleteWrite, UpdateRow
  <1>6. ASSUME NEW reacts \in SUBSET Users, msgs' = [msgs EXCEPT ![q.id].reacts = reacts]
        PROVE  \E row \in Stored :
                msgs' = [msgs EXCEPT ![q.id] = row] /\ SameFrozen(row, msgs[q.id])
    <2> DEFINE row == [msgs[q.id] EXCEPT !.reacts = reacts]
    <2>1. row \in Stored /\ SameFrozen(row, msgs[q.id])
      BY <1>2 DEF Stored, Row, SameFrozen
    <2> QED  BY <1>2, <1>3, <1>6, <2>1
  <1>7. CASE ReactWrite(r)
    <2> DEFINE reacts == IF q.op = "react" THEN msgs[q.id].reacts \cup {q.user}
                                           ELSE msgs[q.id].reacts \ {q.user}
    <2>1. reacts \in SUBSET Users
      BY <1>1, <1>2 DEF Stored, Row, Busy
    <2>2. msgs' = [msgs EXCEPT ![q.id].reacts = reacts] /\ nextSeq' = nextSeq
      BY <1>7 DEF ReactWrite
    <2> HIDE DEF reacts
    <2> QED  BY <1>2, <1>6, <2>1, <2>2
  <1>8. CASE SetMentions(r)
    <2> DEFINE row == [msgs[q.id] EXCEPT !.tags = q.tags]
    <2>1. row \in Stored /\ SameFrozen(row, msgs[q.id])
      BY <1>1, <1>2 DEF Stored, Row, Busy, SameFrozen
    <2>2. msgs' = [msgs EXCEPT ![q.id] = row] /\ nextSeq' = nextSeq
      BY <1>2, <1>3, <1>8 DEF SetMentions
    <2> QED  BY <1>2, <2>1, <2>2
  <1> QED  BY <1>4, <1>5, <1>7, <1>8

LEMMA StepOfLog ==
    ASSUME IInv, IInv', [Next]_vars
    PROVE  [AbstractLog!LogNext]_Log
  <1>1. CASE UNCHANGED <<msgs, nextSeq>>
    BY <1>1 DEF Log, Ids
  <1>2. ASSUME NEW r \in Slots, AddMessage(r)
        PROVE  AbstractLog!LogNext
    <2>1. PICK row \in Stored :
            /\ msgs' = Append(msgs, row)
            /\ row.seq = nextSeq[row.conv] /\ ~row.deleted
            /\ nextSeq' = [nextSeq EXCEPT ![row.conv] = @ + 1]
      BY <1>2, InsertedRow
    <2>2. AbstractLog!Post(row.conv)
      BY <2>1, InsertPosts
    <2> QED  BY <2>2 DEF AbstractLog!LogNext, Stored, Row
  <1>3. ASSUME NEW r \in Slots,
               EditWrite(r) \/ DeleteWrite(r) \/ ReactWrite(r) \/ SetMentions(r)
        PROVE  AbstractLog!LogNext \/ Log' = Log
    <2>1. nextSeq' = nextSeq
      BY <1>3, RewrittenRow
    <2>2. PICK id \in Ids, row \in Stored :
            msgs' = [msgs EXCEPT ![id] = row] /\ SameFrozen(row, msgs[id])
      BY <1>3, RewrittenRow
    <2>3. AbstractLog!Erase(row.conv) \/ Log' = Log
      BY <2>1, <2>2, RewriteErases
    <2> QED  BY <2>3 DEF AbstractLog!LogNext, Stored, Row
  <1>4. ASSUME NEW r \in Slots, Read(r)
        PROVE  UNCHANGED <<msgs, nextSeq>>
    BY <1>4 DEF Read, SendLoad, SendVerify, ForwardLoad, ForwardSource, ForwardTarget,
                EditLoad, DeleteLoad, ReactLoad, LoadConversation, EditStored, Begin, store
  <1>5. ASSUME NEW r \in Slots, Announce(r) \/ Refuse(r) \/ Fail(r)
        PROVE  UNCHANGED <<msgs, nextSeq>>
    BY <1>5 DEF Announce, Decorate, Publish, Refuse, Fail, store
  <1>6. ASSUME NEW c \in Conversations, NEW u \in Users, Join(c, u) \/ Leave(c, u)
        PROVE  UNCHANGED <<msgs, nextSeq>>
    BY <1>6 DEF Join, Leave, store
  <1>7. CASE UNCHANGED vars
    BY <1>1, <1>7 DEF vars
  <1> QED
    BY <1>1, <1>2, <1>3, <1>4, <1>5, <1>6, <1>7 DEF Next, Write
-----------------------------------------------------------------------------
(***************************************************************************)
(* The theorems.                                                           *)
(***************************************************************************)

(* The inductive invariant holds in every reachable state: what requests have
   checked, what rows contain and how they are ordered, taken together. *)
THEOREM Invariance == Spec => []IInv
  <1>1. Init => IInv
    BY InitIInv
  <1>2. IInv /\ [Next]_vars => IInv'
    BY StepIInv
  <1> QED  BY <1>1, <1>2, PTL DEF Spec

(* Every variable keeps its type, however requests interleave. *)
THEOREM TypeCorrect == Spec => []TypeOK
  BY Invariance, PTL DEF IInv

(* addMessage hands out dense, ordered and unique seqs in each conversation. *)
THEOREM SeqDenseAndOrdered == Spec => []SeqIsTheOrder
  BY Invariance, PTL DEF IInv

(* Replies, thread roots and forwards point back, replies and roots inside their
   conversation, and threads are one level deep. *)
THEOREM RepliesInside == Spec => []RepliesStayInside
  BY Invariance, PTL DEF IInv

(* Mentions only ever name people who were participants of the conversation. *)
THEOREM MentionsInside == Spec => []MentionsWereParticipants
  BY Invariance, PTL DEF IInv

(* A message that has not been deleted has a body, forwards included. *)
THEOREM LiveBodies == Spec => []LiveMessagesHaveBodies
  BY Invariance, PTL DEF IInv

(* The activity of a conversation is that of its last main-timeline message. *)
THEOREM ActivityCorrect == Spec => []ActivityIsLastVisible
  BY Invariance, PTL DEF IInv

(* The facts a request has checked hold until it uses them. *)
THEOREM ChecksHold == Spec => []ChecksStillHold
  BY Invariance, PTL DEF IInv

(* The message rows implement the append-only log of MessageLog: positions and
   frozen fields are for ever, and an erasure is final. *)
THEOREM ImplementsLog == Spec => LogSpec
  <1>1. Init => AbstractLog!LogInit
    <2> SUFFICES ASSUME Init
                 PROVE  Log = [c \in Conversations |-> <<>>]
      BY DEF AbstractLog!LogInit
    <2>1. \A c \in Conversations : nextSeq[c] - 1 = 0
      BY DEF Init
    <2> QED  BY <2>1 DEF Log
  <1>2. IInv /\ IInv' /\ [Next]_vars => [AbstractLog!LogNext]_Log
    BY StepOfLog
  <1> QED
    BY <1>1, <1>2, Invariance, PTL DEF Spec, LogSpec, AbstractLog!LogSpec
-----------------------------------------------------------------------------
(***************************************************************************)
(* What a client shows in the end of a message whose sender has not had    *)
(* two calls on it at once.  At most one request writes such a message at  *)
(* any time.  What that request will announce is, from its write on, the   *)
(* row that is stored, but for the reactions; and while no request that    *)
(* writes the message owes an announcement, it is shown as it is stored,   *)
(* but for the reactions.                                                  *)
(***************************************************************************)
Past == {"tags", "decorate", "publish"}

\* Slot r has written message id and has not announced it yet.
Owes(r, id) == Writes(req[r], id) /\ req[r].pc \in Past

\* Rows that differ at most in their reactions; at most in both side tables.
SameButReacts(a, b) == [a EXCEPT !.reacts = {}] = [b EXCEPT !.reacts = {}]
SameButSides(a, b) ==
    [a EXCEPT !.reacts = {}, !.tags = {}] = [b EXCEPT !.reacts = {}, !.tags = {}]

OneWriter ==
    \A r, s \in Slots, id \in Ids \ raced : Writes(req[r], id) /\ Writes(req[s], id) => r = s

RowIsCurrent ==
    \A r \in Slots, id \in Ids \ raced :
        Owes(r, id) => /\ SameButSides(req[r].row, msgs[id])
                       /\ req[r].pc = "publish" => SameButReacts(req[r].row, msgs[id])

MentionsAreOfWriters ==
    \A r \in Slots : req[r].pc = "tags" => ~IsReaction(req[r].op)

ShownUnlessOwed ==
    failures = 0 => \A id \in Ids \ raced :
        (\A r \in Slots : ~Owes(r, id)) =>
            shown[id] # NotShown /\ SameButReacts(shown[id], msgs[id])

ShownInv ==
    IInv /\ OneWriter /\ RowIsCurrent /\ MentionsAreOfWriters /\ ShownUnlessOwed

\* Which slot runs what after a slot has moved on.
LEMMA SlotMoved ==
    ASSUME IInv, NEW r \in Slots, NEW new, Step(r, new)
    PROVE  /\ req'[r] = new
           /\ \A s \in Slots : s # r => req'[s] = req[s]
  BY DEF Step, IInv, TypeOK

\* A request that owes nothing moves on, or starts, or stops, and owes nothing.
LEMMA BeforeTheWrite ==
    ASSUME ShownInv, raced \subseteq raced', UNCHANGED <<msgs, shown, failures>>,
           NEW r \in Slots, NEW new, Step(r, new), req[r].pc \notin Past, new.pc \notin Past
    PROVE  RowIsCurrent' /\ MentionsAreOfWriters' /\ ShownUnlessOwed'
  <1>1. req'[r] = new /\ \A s \in Slots : s # r => req'[s] = req[s]
    BY SlotMoved DEF ShownInv
  <1>2. Ids' = Ids
    BY DEF Ids
  <1>3. \A s \in Slots, id \in Ids : Owes(s, id)' <=> Owes(s, id)
    BY <1>1 DEF Owes, Writes, OnStored, Past
  <1>4. RowIsCurrent'
    <2> SUFFICES ASSUME NEW s \in Slots, NEW id \in Ids \ raced', Owes(s, id)
                 PROVE  /\ SameButSides(req'[s].row, msgs[id])
                        /\ req'[s].pc = "publish" => SameButReacts(req'[s].row, msgs[id])
      BY <1>2, <1>3 DEF RowIsCurrent, SameButSides, SameButReacts
    <2>1. s # r
      BY DEF Owes
    <2> QED  BY <1>1, <2>1 DEF ShownInv, RowIsCurrent
  <1>5. MentionsAreOfWriters'
    BY <1>1 DEF ShownInv, MentionsAreOfWriters, Past, IsReaction
  <1>6. ShownUnlessOwed'
    BY <1>2, <1>3 DEF ShownInv, ShownUnlessOwed, SameButReacts
  <1> QED  BY <1>4, <1>5, <1>6

LEMMA ReadKeepsShown ==
    ASSUME ShownInv, raced \subseteq raced', NEW r \in Slots, Read(r)
    PROVE  RowIsCurrent' /\ MentionsAreOfWriters' /\ ShownUnlessOwed'
  <1> DEFINE q == req[r]
  <1>1. CASE SendLoad(r)
    <2>1. PICK u \in Users, c \in Conversations, body \in Bodies, tags \in MentionSets["send"],
               reply \in {0} \cup Ids, root \in {0} \cup Ids, main \in BOOLEAN :
            Step(r, Request("verify", "send", u, c, 0, Draft(u, c, body, reply, root, main, 0),
                            members[c], body, tags, TRUE))
      BY <1>1, ZenonT(40) DEF SendLoad
    <2>2. PICK new : Step(r, new) /\ new.pc \notin Past
      BY <2>1 DEF Request, Past
    <2>3. q.pc \notin Past /\ UNCHANGED <<msgs, shown, failures>>
      BY <1>1 DEF SendLoad, Begin, Idle, Past
    <2> QED  BY <2>2, <2>3, BeforeTheWrite
  <1>2. CASE ForwardLoad(r) \/ EditLoad(r) \/ DeleteLoad(r) \/ ReactLoad(r)
    <2>1. PICK new : Step(r, new) /\ new.pc \notin Past
      <3>1. CASE ForwardLoad(r)
        BY <3>1 DEF ForwardLoad, Request, Past
      <3>2. CASE EditLoad(r)
        BY <3>2 DEF EditLoad, Request, Past
      <3>3. CASE DeleteLoad(r)
        BY <3>3 DEF DeleteLoad, Request, Past
      <3>4. CASE ReactLoad(r)
        BY <3>4 DEF ReactLoad, Request, Past
      <3> QED  BY <1>2, <3>1, <3>2, <3>3, <3>4
    <2>2. PICK op : Begin(r, op)
      BY <1>2 DEF ForwardLoad, EditLoad, DeleteLoad, ReactLoad
    <2>3. q.pc \notin Past /\ UNCHANGED <<msgs, shown, failures>>
      BY <2>2 DEF Begin, Idle, Past
    <2> QED  BY <2>1, <2>3, BeforeTheWrite
  <1>3. CASE \/ SendVerify(r) \/ ForwardSource(r) \/ ForwardTarget(r)
             \/ LoadConversation(r) \/ EditStored(r)
    <2>1. q.pc \in {"verify", "source", "target", "conv", "stored"} /\ q \in Busy
      <3>1. q.pc \in {"verify", "source", "target", "conv", "stored"}
        BY <1>3 DEF SendVerify, ForwardSource, ForwardTarget, LoadConversation, EditStored, At
      <3> QED  BY <3>1, InFlight DEF ShownInv
    <2>2. PICK new : Step(r, new) /\ new.pc \in {"source", "target", "stored", "write"}
      <3>1. CASE SendVerify(r) \/ EditStored(r)
        <4> WITNESS [q EXCEPT !.pc = "write"]
        <4> QED  BY <2>1, <3>1 DEF SendVerify, EditStored, Busy
      <3>2. CASE ForwardSource(r)
        <4> WITNESS [q EXCEPT !.pc = "target"]
        <4> QED  BY <2>1, <3>2 DEF ForwardSource, Busy
      <3>3. CASE ForwardTarget(r)
        <4> WITNESS Forwarded(q)
        <4> QED  BY <2>1, <3>3 DEF ForwardTarget, Forwarded, Busy
      <3>4. CASE LoadConversation(r)
        <4> WITNESS [q EXCEPT !.snap = members[q.conv],
                              !.pc = IF q.op = "edit" THEN "stored" ELSE "write"]
        <4> QED  BY <2>1, <3>4 DEF LoadConversation, Busy
      <3> QED  BY <1>3, <3>1, <3>2, <3>3, <3>4
    <2>3. UNCHANGED <<msgs, shown, failures>>
      BY <1>3 DEF SendVerify, ForwardSource, ForwardTarget, LoadConversation, EditStored,
                  Continue, store
    <2>4. q.pc \notin Past /\ new.pc \notin Past
      BY <2>1, <2>2 DEF Past
    <2> QED  BY <2>2, <2>3, <2>4, BeforeTheWrite
  <1> QED  BY <1>1, <1>2, <1>3 DEF Read

LEMMA RefuseKeepsShown ==
    ASSUME ShownInv, raced \subseteq raced', NEW r \in Slots, Refuse(r)
    PROVE  RowIsCurrent' /\ MentionsAreOfWriters' /\ ShownUnlessOwed'
  <1>1. req[r].pc \notin Past /\ Idle.pc \notin Past
    BY DEF Refuse, Past, Idle
  <1>2. Step(r, Idle) /\ UNCHANGED <<msgs, shown, failures>>
    BY DEF Refuse, Continue, store
  <1> QED  BY <1>1, <1>2, BeforeTheWrite

\* What the two comparisons compare.
SameWords(a, b) ==
    /\ a.conv = b.conv /\ a.seq = b.seq /\ a.sender = b.sender /\ a.body = b.body
    /\ a.edited = b.edited /\ a.deleted = b.deleted /\ a.reply = b.reply
    /\ a.root = b.root /\ a.main = b.main /\ a.fwd = b.fwd

LEMMA Sameness ==
    ASSUME NEW a \in Row, NEW b \in Row
    PROVE  /\ SameButSides(a, b) <=> SameWords(a, b)
           /\ SameButReacts(a, b) <=> SameWords(a, b) /\ a.tags = b.tags
  <1>1. SameButSides(a, b) => SameWords(a, b)
    BY DEF SameButSides, SameWords, Row
  <1>2. SameWords(a, b) => SameButSides(a, b)
    BY DEF SameButSides, SameWords, Row
  <1>3. SameButReacts(a, b) => SameWords(a, b) /\ a.tags = b.tags
    BY DEF SameButReacts, SameWords, Row
  <1>4. SameWords(a, b) /\ a.tags = b.tags => SameButReacts(a, b)
    BY DEF SameButReacts, SameWords, Row
  <1> QED  BY <1>1, <1>2, <1>3, <1>4

LEMMA StoredRow ==
    ASSUME IInv, NEW id \in Ids
    PROVE  msgs[id] \in Row
  BY DEF IInv, TypeOK, Ids, Stored

LEMMA WriterIsBusy ==
    ASSUME IInv, NEW r \in Slots, NEW id, Writes(req[r], id)
    PROVE  /\ req[r] \in Busy /\ req[r].row \in Row /\ req[r].id = id
           /\ OnStored(req[r]) /\ ~IsReaction(req[r].op) /\ id \in Ids
  BY DEF IInv, TypeOK, ChecksStillHold, Sound, Writes, Busy

\* The request that writes message at stores a row, and keeps it for its event.
LEMMA TheWriterWrites ==
    ASSUME ShownInv, raced \subseteq raced', UNCHANGED <<shown, failures>>,
           NEW r \in Slots, NEW at \in Ids, Writes(req[r], at),
           NEW row \in Row, msgs' = [msgs EXCEPT ![at] = row],
           NEW new \in Busy, Step(r, new), new.id = at, new.op = req[r].op,
           new.pc \in {"tags", "decorate"},
           at \notin raced => SameButSides(new.row, row)
    PROVE  RowIsCurrent' /\ MentionsAreOfWriters' /\ ShownUnlessOwed'
  <1>1. req'[r] = new /\ \A s \in Slots : s # r => req'[s] = req[s]
    BY SlotMoved DEF ShownInv
  <1>2. /\ Ids' = Ids
        /\ \A id \in Ids : msgs'[id] = IF id = at THEN row ELSE msgs[id]
    BY DEF Ids, ShownInv, IInv, TypeOK
  <1>3. ~IsReaction(new.op) /\ new # Idle
    BY WriterIsBusy DEF ShownInv, Idle, Busy
  <1>4. /\ Writes(new, at) /\ \A id \in Ids : Writes(new, id) => id = at
    BY <1>3 DEF Writes, OnStored
  <1>5. Owes(r, at)'
    BY <1>1, <1>3 DEF Owes, Writes, OnStored, Past
  <1>6. \A s \in Slots, id \in Ids : s # r => (Owes(s, id)' <=> Owes(s, id))
    BY <1>1 DEF Owes, Writes, OnStored
  <1>7. at \notin raced => \A s \in Slots : s # r => ~Writes(req[s], at)
    BY DEF ShownInv, OneWriter
  <1>8. RowIsCurrent'
    <2> SUFFICES ASSUME NEW s \in Slots, NEW id \in Ids \ raced', Owes(s, id)'
                 PROVE  /\ SameButSides(req'[s].row, msgs'[id])
                        /\ req'[s].pc = "publish" => SameButReacts(req'[s].row, msgs'[id])
      BY <1>2 DEF RowIsCurrent, SameButSides, SameButReacts
    <2>1. CASE s = r
      <3>1. id = at
        BY <1>1, <1>4, <2>1 DEF Owes, Writes, OnStored
      <3> QED  BY <1>1, <1>2, <2>1, <3>1
    <2>2. CASE s # r
      <3>1. Owes(s, id) /\ id # at
        BY <1>6, <1>7, <2>2 DEF Owes
      <3> QED  BY <1>1, <1>2, <2>2, <3>1 DEF ShownInv, RowIsCurrent
    <2> QED  BY <2>1, <2>2
  <1>9. MentionsAreOfWriters'
    BY <1>1, <1>3 DEF ShownInv, MentionsAreOfWriters, IsReaction
  <1>10. ShownUnlessOwed'
    <2> SUFFICES ASSUME failures = 0, NEW id \in Ids \ raced', \A s \in Slots : ~Owes(s, id)'
                 PROVE  shown[id] # NotShown /\ SameButReacts(shown[id], msgs'[id])
      BY <1>2 DEF ShownUnlessOwed, SameButReacts
    <2>1. id # at
      BY <1>5
    <2>2. ~Owes(r, id)
      BY <2>1, WriterIsBusy DEF Owes, Writes
    <2>3. \A s \in Slots : ~Owes(s, id)
      BY <1>6, <2>2
    <2> QED  BY <1>2, <2>1, <2>3 DEF ShownInv, ShownUnlessOwed
  <1> QED  BY <1>8, <1>9, <1>10

\* A reaction moves on: what it does to a row that is stored, or shown, is a
\* matter of reactions.
LEMMA ReactionMoves ==
    ASSUME ShownInv, raced \subseteq raced', UNCHANGED failures, Len(msgs') = Len(msgs),
           NEW r \in Slots, NEW new, Step(r, new), new.pc # "tags",
           \A id \in Ids : /\ ~Writes(req[r], id) /\ ~Writes(new, id)
                           /\ SameButReacts(msgs'[id], msgs[id]) /\ msgs'[id] \in Row
                           /\ SameButReacts(shown'[id], shown[id])
                           /\ shown[id] # NotShown => shown'[id] # NotShown
    PROVE  RowIsCurrent' /\ MentionsAreOfWriters' /\ ShownUnlessOwed'
  <1>1. req'[r] = new /\ \A s \in Slots : s # r => req'[s] = req[s]
    BY SlotMoved DEF ShownInv
  <1>2. Ids' = Ids
    BY DEF Ids
  <1>3. \A s \in Slots, id \in Ids : Owes(s, id)' <=> Owes(s, id)
    BY <1>1 DEF Owes, Writes, OnStored
  <1>4. RowIsCurrent'
    <2> SUFFICES ASSUME NEW s \in Slots, NEW id \in Ids \ raced', Owes(s, id)
                 PROVE  /\ SameButSides(req'[s].row, msgs'[id])
                        /\ req'[s].pc = "publish" => SameButReacts(req'[s].row, msgs'[id])
      BY <1>2, <1>3, ZenonT(40) DEF RowIsCurrent, SameButSides, SameButReacts
    <2>1. s # r /\ Writes(req[s], id)
      BY DEF Owes
    <2>2. req'[s] = req[s] /\ req[s].row \in Row /\ msgs[id] \in Row /\ msgs'[id] \in Row
      BY <1>1, <2>1, WriterIsBusy, StoredRow DEF ShownInv
    <2>3. /\ SameButSides(req[s].row, msgs[id])
          /\ req[s].pc = "publish" => SameButReacts(req[s].row, msgs[id])
      BY DEF ShownInv, RowIsCurrent
    <2>4. SameButReacts(msgs'[id], msgs[id])
      OBVIOUS
    <2> QED  BY <2>2, <2>3, <2>4, Sameness DEF SameWords
  <1>5. MentionsAreOfWriters'
    BY <1>1 DEF ShownInv, MentionsAreOfWriters, IsReaction
  <1>6. ShownUnlessOwed'
    <2> SUFFICES ASSUME failures = 0, NEW id \in Ids \ raced', \A s \in Slots : ~Owes(s, id)
                 PROVE  shown'[id] # NotShown /\ SameButReacts(shown'[id], msgs'[id])
      BY <1>2, <1>3 DEF ShownUnlessOwed, SameButReacts
    <2> QED  BY DEF ShownInv, ShownUnlessOwed, SameButReacts
  <1> QED  BY <1>4, <1>5, <1>6

LEMMA AddMessageKeepsShown ==
    ASSUME ShownInv, raced \subseteq raced', NEW r \in Slots, AddMessage(r)
    PROVE  RowIsCurrent' /\ MentionsAreOfWriters' /\ ShownUnlessOwed'
  <1> DEFINE q == req[r]
  <1>1. PICK at : at = Len(msgs) + 1
    OBVIOUS
  <1>2. q \in Busy /\ Sound(q) /\ q.pc = "write" /\ q.op \in {"send", "forward"}
    BY InFlight DEF AddMessage, At, ShownInv
  <1>3. PICK row : row = NewRow(q)
    OBVIOUS
  <1>4. PICK new : new = [q EXCEPT !.id = at, !.row = row,
                                   !.pc = IF q.tags # {} THEN "tags" ELSE "decorate"]
    OBVIOUS
  <1>5. msgs' = Append(msgs, row) /\ Step(r, new) /\ UNCHANGED <<shown, failures>>
    BY <1>3, <1>4, <1>1 DEF AddMessage, Continue
  <1>6. new.id = at /\ new.row = row /\ new.op = q.op /\ new.pc \in {"tags", "decorate"}
    BY <1>2, <1>4 DEF Busy
  <1>7. /\ Ids' = Ids \cup {at} /\ at \notin Ids /\ msgs'[at] = row
        /\ \A id \in Ids : msgs'[id] = msgs[id]
    BY <1>5, <1>1 DEF Ids, ShownInv, IInv, TypeOK
  <1>8. req'[r] = new /\ \A s \in Slots : s # r => req'[s] = req[s]
    BY <1>5, SlotMoved DEF ShownInv
  <1>9. /\ \A id : Writes(new, id) => id = at
        /\ \A id : ~Writes(q, id)
        /\ Owes(r, at)'
    BY <1>2, <1>6, <1>8 DEF Owes, Writes, OnStored, IsReaction, Idle, Past
  <1>10. \A s \in Slots : s # r => ~Writes(req[s], at)
    BY <1>7, WriterIsBusy DEF ShownInv
  <1>11. \A s \in Slots, id \in Ids' : s # r => (Owes(s, id)' <=> id \in Ids /\ Owes(s, id))
    <2>1. \A s \in Slots, id \in Ids' : s # r => (Owes(s, id)' <=> Owes(s, id))
      BY <1>8 DEF Owes, Writes, OnStored
    <2> QED  BY <1>7, <1>10, <2>1 DEF Owes
  <1>12. RowIsCurrent'
    <2> SUFFICES ASSUME NEW s \in Slots, NEW id \in Ids' \ raced', Owes(s, id)'
                 PROVE  /\ SameButSides(req'[s].row, msgs'[id])
                        /\ req'[s].pc = "publish" => SameButReacts(req'[s].row, msgs'[id])
      BY DEF RowIsCurrent, SameButSides, SameButReacts
    <2>1. CASE s = r
      <3>1. id = at
        BY <1>8, <1>9, <2>1 DEF Owes, Writes, OnStored
      <3> QED  BY <1>6, <1>7, <1>8, <2>1, <3>1 DEF SameButSides
    <2>2. CASE s # r
      BY <1>7, <1>8, <1>11, <2>2 DEF ShownInv, RowIsCurrent
    <2> QED  BY <2>1, <2>2
  <1>13. MentionsAreOfWriters'
    BY <1>2, <1>6, <1>8 DEF ShownInv, MentionsAreOfWriters, IsReaction
  <1>14. ShownUnlessOwed'
    <2> SUFFICES ASSUME failures = 0, NEW id \in Ids' \ raced', \A s \in Slots : ~Owes(s, id)'
                 PROVE  shown[id] # NotShown /\ SameButReacts(shown[id], msgs'[id])
      BY <1>5 DEF ShownUnlessOwed, SameButReacts
    <2>1. id \in Ids
      BY <1>7, <1>9
    <2>2. \A s \in Slots : ~Owes(s, id)
      BY <1>9, <1>11, <2>1 DEF Owes
    <2> QED  BY <1>7, <2>1, <2>2 DEF ShownInv, ShownUnlessOwed
  <1> QED  BY <1>12, <1>13, <1>14

LEMMA EditOrDeleteKeepsShown ==
    ASSUME ShownInv, raced \subseteq raced', NEW r \in Slots, EditWrite(r) \/ DeleteWrite(r)
    PROVE  RowIsCurrent' /\ MentionsAreOfWriters' /\ ShownUnlessOwed'
  <1> DEFINE q == req[r]
  <1>1. /\ q \in Busy /\ Sound(q) /\ q.pc = "write" /\ q.op \in {"edit", "delete"}
        /\ OnStored(q)
    BY InFlight DEF EditWrite, DeleteWrite, At, OnStored, ShownInv
  <1>2. q.id \in Ids /\ msgs[q.id] \in Row /\ Writes(q, q.id)
    BY <1>1, StoredRow DEF Sound, Writes, IsReaction, Idle, ShownInv
  <1>3. PICK row, pc : /\ UpdateRow(r, row, pc) /\ pc \in {"tags", "decorate"} /\ row \in Row
    <2>1. CASE EditWrite(r)
      <3>1. EditOf(q) \in Row
        BY <1>1, <1>2 DEF EditOf, Row, Busy
      <3> QED  BY <2>1, <3>1 DEF EditWrite
    <2>2. CASE DeleteWrite(r)
      <3>1. [msgs[q.id] EXCEPT !.body = NoBody, !.deleted = TRUE] \in Row
        BY <1>2 DEF Row, Texts
      <3> QED  BY <2>2, <3>1 DEF DeleteWrite
    <2> QED  BY <2>1, <2>2
  <1>4. PICK new : new = [q EXCEPT !.row = row, !.pc = pc]
    OBVIOUS
  <1>5. /\ new \in Busy /\ new.id = q.id /\ new.op = q.op /\ new.pc = pc
        /\ SameButSides(new.row, row)
    BY <1>1, <1>3, <1>4 DEF Busy, SameButSides
  <1>6. /\ msgs' = [msgs EXCEPT ![q.id] = row] /\ Step(r, new)
        /\ UNCHANGED <<shown, failures>>
    BY <1>3, <1>4 DEF UpdateRow, Continue
  <1> QED  BY <1>2, <1>3, <1>5, <1>6, TheWriterWrites

LEMMA SetMentionsKeepsShown ==
    ASSUME ShownInv, raced \subseteq raced', NEW r \in Slots, SetMentions(r)
    PROVE  RowIsCurrent' /\ MentionsAreOfWriters' /\ ShownUnlessOwed'
  <1> DEFINE q == req[r]
  <1>1. q \in Busy /\ Sound(q) /\ q.pc = "tags" /\ OnStored(q) /\ ~IsReaction(q.op)
    BY InFlight DEF SetMentions, At, OnStored, ShownInv, MentionsAreOfWriters
  <1>2. q.id \in Ids /\ msgs[q.id] \in Row /\ Owes(r, q.id) /\ Writes(q, q.id)
    BY <1>1, StoredRow DEF Sound, Owes, Writes, Idle, Past, ShownInv
  <1>3. PICK row : row = [msgs[q.id] EXCEPT !.tags = q.tags]
    OBVIOUS
  <1>4. PICK new : new = [q EXCEPT !.pc = "decorate"]
    OBVIOUS
  <1>5. row \in Row /\ SameWords(row, msgs[q.id])
    BY <1>1, <1>2, <1>3 DEF Row, Busy, SameWords
  <1>6. /\ new \in Busy /\ new.id = q.id /\ new.op = q.op /\ new.pc = "decorate"
        /\ new.row = q.row /\ q.row \in Row
    BY <1>1, <1>4 DEF Busy
  <1>7. q.id \notin raced => SameButSides(new.row, row)
    <2>1. q.id \notin raced => SameButSides(q.row, msgs[q.id])
      BY <1>2 DEF ShownInv, RowIsCurrent
    <2> QED  BY <1>2, <1>5, <1>6, <2>1, Sameness DEF SameWords
  <1>8. msgs' = [msgs EXCEPT ![q.id] = row] /\ Step(r, new) /\ UNCHANGED <<shown, failures>>
    BY <1>2, <1>3, <1>4 DEF SetMentions, Continue, ShownInv, IInv, TypeOK
  <1> QED  BY <1>2, <1>5, <1>6, <1>7, <1>8, TheWriterWrites

LEMMA ReactWriteKeepsShown ==
    ASSUME ShownInv, raced \subseteq raced', NEW r \in Slots, ReactWrite(r)
    PROVE  RowIsCurrent' /\ MentionsAreOfWriters' /\ ShownUnlessOwed'
  <1> DEFINE q == req[r]
  <1>1. q \in Busy /\ Sound(q) /\ q.pc = "write" /\ OnStored(q) /\ IsReaction(q.op)
    BY InFlight DEF ReactWrite, At, OnStored, IsReaction, ShownInv
  <1>2. q.id \in Ids /\ msgs[q.id] \in Row
    BY <1>1, StoredRow DEF Sound, ShownInv
  <1>3. PICK reacts : /\ reacts \in SUBSET Users
                      /\ msgs' = [msgs EXCEPT ![q.id].reacts = reacts]
                      /\ Step(r, [q EXCEPT !.row.reacts = reacts, !.pc = "decorate"])
    <2> WITNESS IF q.op = "react" THEN msgs[q.id].reacts \cup {q.user}
                                  ELSE msgs[q.id].reacts \ {q.user}
    <2> QED  BY <1>1, <1>2 DEF ReactWrite, Busy, Row
  <1>4. PICK new : new = [q EXCEPT !.row.reacts = reacts, !.pc = "decorate"]
    OBVIOUS
  <1>5. PICK row : row = [msgs[q.id] EXCEPT !.reacts = reacts]
    OBVIOUS
  <1>6. row \in Row /\ SameWords(row, msgs[q.id]) /\ row.tags = msgs[q.id].tags
    BY <1>2, <1>3, <1>5 DEF Row, SameWords
  <1>7. new.op = q.op /\ new.pc = "decorate"
    BY <1>1, <1>4 DEF Busy
  <1>8. /\ Len(msgs') = Len(msgs)
        /\ \A id \in Ids : msgs'[id] = IF id = q.id THEN row ELSE msgs[id]
    BY <1>2, <1>3, <1>5 DEF ShownInv, IInv, TypeOK, Ids
  <1>9. \A id \in Ids : SameButReacts(msgs'[id], msgs[id]) /\ msgs'[id] \in Row
    BY <1>2, <1>6, <1>8, StoredRow, Sameness DEF ShownInv, SameWords
  <1>10. \A id \in Ids : ~Writes(q, id) /\ ~Writes(new, id)
    BY <1>1, <1>7 DEF Writes
  <1>11. UNCHANGED <<shown, failures>>
    BY DEF ReactWrite, Continue
  <1>12. \A id \in Ids : SameButReacts(shown'[id], shown[id])
    BY <1>11 DEF SameButReacts
  <1> QED  BY <1>3, <1>4, <1>7, <1>8, <1>9, <1>10, <1>11, <1>12, ReactionMoves

\* Before a request announces the row it stored, it reads the side tables again.
LEMMA DecorateKeepsShown ==
    ASSUME ShownInv, raced \subseteq raced', NEW r \in Slots, Decorate(r)
    PROVE  RowIsCurrent' /\ MentionsAreOfWriters' /\ ShownUnlessOwed'
  <1> DEFINE q == req[r]
  <1>1. q \in Busy /\ Sound(q) /\ q.pc = "decorate" /\ OnStored(q)
    BY InFlight DEF Decorate, At, OnStored, ShownInv
  <1>2. q.id \in Ids /\ msgs[q.id] \in Row
    BY <1>1, StoredRow DEF Sound, ShownInv
  <1>3. PICK new : new = [q EXCEPT !.row.tags = msgs[q.id].tags,
                                   !.row.reacts = IF IsReaction(q.op) THEN @
                                                  ELSE msgs[q.id].reacts,
                                   !.pc = "publish"]
    OBVIOUS
  <1>4. Step(r, new) /\ UNCHANGED <<msgs, shown, failures>>
    BY <1>3 DEF Decorate, Continue, store
  <1>5. new.op = q.op /\ new.pc = "publish" /\ new.id = q.id /\ new \in Busy
    BY <1>1, <1>2, <1>3 DEF Busy, Row
  <1>6. CASE IsReaction(q.op)
    <2>1. \A id \in Ids : /\ ~Writes(q, id) /\ ~Writes(new, id)
                          /\ SameButReacts(msgs'[id], msgs[id]) /\ msgs'[id] \in Row
                          /\ SameButReacts(shown'[id], shown[id])
      BY <1>4, <1>5, <1>6, StoredRow DEF Writes, SameButReacts, ShownInv
    <2> QED  BY <1>4, <1>5, <2>1, ReactionMoves
  <1>7. CASE ~IsReaction(q.op)
    <2>1. Owes(r, q.id) /\ Writes(q, q.id) /\ \A id : Writes(q, id) <=> id = q.id
      BY <1>1, <1>7 DEF Owes, Writes, Idle, Past
    <2>2. \A id : Writes(new, id) <=> Writes(q, id)
      BY <1>1, <1>5, <1>7 DEF Writes, OnStored, Idle
    <2>3. req'[r] = new /\ \A s \in Slots : s # r => req'[s] = req[s]
      BY <1>4, SlotMoved DEF ShownInv
    <2>4. Ids' = Ids
      BY <1>4 DEF Ids
    <2>5. \A s \in Slots, id \in Ids : Owes(s, id)' <=> Owes(s, id)
      <3>1. \A id : Owes(r, id)' <=> Owes(r, id)
        BY <1>1, <1>5, <2>2, <2>3 DEF Owes, Writes, OnStored, Past
      <3>2. \A s \in Slots, id \in Ids : s # r => (Owes(s, id)' <=> Owes(s, id))
        BY <2>3 DEF Owes, Writes, OnStored
      <3> QED  BY <3>1, <3>2
    <2>6. ASSUME q.id \notin raced
          PROVE  SameButSides(new.row, msgs[q.id]) /\ SameButReacts(new.row, msgs[q.id])
      <3>1. SameWords(q.row, msgs[q.id]) /\ q.row \in Row
        <4>1. q.row \in Row /\ SameButSides(q.row, msgs[q.id])
          BY <1>1, <1>2, <2>1, <2>6 DEF ShownInv, RowIsCurrent, Busy
        <4> QED  BY <1>2, <4>1, Sameness
      <3>2. new.row \in Row /\ SameWords(new.row, q.row) /\ new.row.tags = msgs[q.id].tags
        BY <1>1, <1>2, <1>3, <1>7, <3>1 DEF Busy, Row, SameWords
      <3> QED  BY <1>2, <3>1, <3>2, Sameness DEF SameWords
    <2>7. RowIsCurrent'
      <3> SUFFICES ASSUME NEW s \in Slots, NEW id \in Ids \ raced', Owes(s, id)
                   PROVE  /\ SameButSides(req'[s].row, msgs[id])
                          /\ req'[s].pc = "publish" => SameButReacts(req'[s].row, msgs[id])
        BY <1>4, <2>4, <2>5 DEF RowIsCurrent, SameButSides, SameButReacts
      <3>1. CASE s = r
        BY <2>1, <2>3, <2>6, <3>1 DEF Owes
      <3>2. CASE s # r
        BY <2>3, <3>2 DEF ShownInv, RowIsCurrent
      <3> QED  BY <3>1, <3>2
    <2>8. MentionsAreOfWriters'
      BY <1>5, <2>3 DEF ShownInv, MentionsAreOfWriters, IsReaction
    <2>9. ShownUnlessOwed'
      BY <1>4, <2>4, <2>5 DEF ShownInv, ShownUnlessOwed, SameButReacts
    <2> QED  BY <2>7, <2>8, <2>9
  <1> QED  BY <1>6, <1>7

\* The event of a writer shows the row as it is stored; that of a reaction
\* changes the reactions of a row that is shown.
LEMMA PublishKeepsShown ==
    ASSUME ShownInv, raced \subseteq raced', NEW r \in Slots, Publish(r)
    PROVE  RowIsCurrent' /\ MentionsAreOfWriters' /\ ShownUnlessOwed'
  <1> DEFINE q == req[r]
  <1>1. q \in Busy /\ Sound(q) /\ q.pc = "publish" /\ OnStored(q) /\ q.row \in Row
    BY InFlight DEF Publish, At, OnStored, ShownInv, Busy
  <1>2. q.id \in Ids /\ msgs[q.id] \in Row /\ q.id \in 1..MaxMessages
    BY <1>1, StoredRow, MessagesAssumption DEF Sound, ShownInv, Ids, IInv, TypeOK
  <1>3. PICK e : e = [type |-> q.op, id |-> q.id, row |-> q.row, to |-> q.snap]
    OBVIOUS
  <1>4. /\ shown' = [shown EXCEPT ![q.id] = ApplyEvent(@, e)]
        /\ Step(r, Idle) /\ UNCHANGED <<msgs, failures>>
    BY <1>3 DEF Publish, Continue, store
  <1>5. /\ shown'[q.id] = ApplyEvent(shown[q.id], e)
        /\ \A id \in Ids : id # q.id => shown'[id] = shown[id]
    <2>1. \A id \in Ids : id \in 1..MaxMessages
      BY MessagesAssumption DEF ShownInv, Ids, IInv, TypeOK
    <2> QED  BY <1>2, <1>4, <2>1 DEF ShownInv, IInv, TypeOK, Screens
  <1>6. Idle.pc # "tags" /\ \A id : ~Writes(Idle, id)
    BY DEF Idle, Writes
  <1>7. \A id \in Ids : SameButReacts(msgs'[id], msgs[id]) /\ msgs'[id] \in Row
    BY <1>4, StoredRow DEF SameButReacts, ShownInv
  <1>8. CASE IsReaction(q.op)
    <2>1. /\ SameButReacts(shown'[q.id], shown[q.id])
          /\ shown[q.id] # NotShown => shown'[q.id] # NotShown
      <3>1. CASE shown[q.id] = NotShown
        BY <1>3, <1>5, <1>8, <3>1 DEF ApplyEvent, SameButReacts
      <3>2. CASE shown[q.id] # NotShown
        <4>1. shown[q.id] \in Row
          BY <1>2, <3>2 DEF ShownInv, IInv, TypeOK, Screens
        <4>2. PICK row : row = [shown[q.id] EXCEPT !.reacts = q.row.reacts]
          OBVIOUS
        <4>3. shown'[q.id] = row
          BY <1>3, <1>5, <1>8, <3>2, <4>2 DEF ApplyEvent
        <4>4. row \in Row /\ SameWords(row, shown[q.id]) /\ row.tags = shown[q.id].tags
          BY <1>1, <4>1, <4>2 DEF Row, SameWords
        <4>5. row # NotShown
          BY <4>4 DEF Row, NotShown
        <4> QED  BY <4>1, <4>3, <4>4, <4>5, Sameness
      <3> QED  BY <3>1, <3>2
    <2>2. \A id \in Ids : /\ SameButReacts(shown'[id], shown[id])
                          /\ shown[id] # NotShown => shown'[id] # NotShown
      BY <1>5, <2>1 DEF SameButReacts
    <2>3. \A id \in Ids : ~Writes(q, id)
      BY <1>8 DEF Writes
    <2>4. Len(msgs') = Len(msgs)
      BY <1>4
    <2> QED  BY <1>4, <1>6, <1>7, <2>2, <2>3, <2>4, ReactionMoves
  <1>9. CASE ~IsReaction(q.op)
    <2>1. shown'[q.id] = q.row /\ q.row # NotShown
      BY <1>1, <1>3, <1>5, <1>9 DEF ApplyEvent, Row, NotShown
    <2>2. q.id \notin raced => SameButReacts(q.row, msgs[q.id])
      <3>1. Owes(r, q.id)
        BY <1>1, <1>9 DEF Owes, Writes, Idle, Past
      <3> QED  BY <1>1, <1>2, <3>1 DEF ShownInv, RowIsCurrent
    <2>3. req'[r] = Idle /\ \A s \in Slots : s # r => req'[s] = req[s]
      BY <1>4, SlotMoved DEF ShownInv
    <2>4. Ids' = Ids
      BY <1>4 DEF Ids
    <2>5. /\ \A id : ~Owes(r, id)'
          /\ \A s \in Slots, id \in Ids : s # r => (Owes(s, id)' <=> Owes(s, id))
      BY <1>6, <2>3 DEF Owes, Writes, OnStored, Idle
    <2>6. RowIsCurrent'
      <3> SUFFICES ASSUME NEW s \in Slots, NEW id \in Ids \ raced', Owes(s, id)'
                   PROVE  /\ SameButSides(req'[s].row, msgs[id])
                          /\ req'[s].pc = "publish" => SameButReacts(req'[s].row, msgs[id])
        BY <1>4, <2>4 DEF RowIsCurrent, SameButSides, SameButReacts
      <3>1. s # r /\ Owes(s, id)
        BY <2>5
      <3> QED  BY <2>3, <3>1 DEF ShownInv, RowIsCurrent
    <2>7. MentionsAreOfWriters'
      BY <1>6, <2>3 DEF ShownInv, MentionsAreOfWriters, IsReaction
    <2>8. ShownUnlessOwed'
      <3> SUFFICES ASSUME failures = 0, NEW id \in Ids \ raced', \A s \in Slots : ~Owes(s, id)'
                   PROVE  shown'[id] # NotShown /\ SameButReacts(shown'[id], msgs[id])
        BY <1>4, <2>4 DEF ShownUnlessOwed, SameButReacts
      <3>1. CASE id = q.id
        BY <2>1, <2>2, <3>1
      <3>2. CASE id # q.id
        <4>1. \A s \in Slots : ~Owes(s, id)
          BY <2>5, <3>2 DEF Owes, Writes
        <4> QED  BY <1>5, <3>2, <4>1 DEF ShownInv, ShownUnlessOwed
      <3> QED  BY <3>1, <3>2
    <2> QED  BY <2>6, <2>7, <2>8
  <1> QED  BY <1>8, <1>9

\* A request that dies leaves a client behind, and failures says so.
LEMMA FailKeepsShown ==
    ASSUME ShownInv, raced \subseteq raced', NEW r \in Slots, Fail(r)
    PROVE  RowIsCurrent' /\ MentionsAreOfWriters' /\ ShownUnlessOwed'
  <1>1. UNCHANGED msgs /\ Step(r, Idle) /\ failures' = failures + 1 /\ failures \in Nat
    BY DEF Fail, store, ShownInv, IInv, TypeOK
  <1>2. req'[r] = Idle /\ \A s \in Slots : s # r => req'[s] = req[s]
    BY <1>1, SlotMoved DEF ShownInv
  <1>3. Idle.pc # "tags" /\ \A id : ~Writes(Idle, id)
    BY DEF Idle, Writes
  <1>4. Ids' = Ids
    BY <1>1 DEF Ids
  <1>5. RowIsCurrent'
    <2> SUFFICES ASSUME NEW s \in Slots, NEW id \in Ids \ raced', Owes(s, id)'
                 PROVE  /\ SameButSides(req'[s].row, msgs[id])
                        /\ req'[s].pc = "publish" => SameButReacts(req'[s].row, msgs[id])
      BY <1>1, <1>4 DEF RowIsCurrent, SameButSides, SameButReacts
    <2>1. s # r /\ Owes(s, id)
      BY <1>2 DEF Owes, Writes, OnStored, Idle
    <2> QED  BY <1>2, <2>1 DEF ShownInv, RowIsCurrent
  <1>6. MentionsAreOfWriters'
    BY <1>2, <1>3 DEF ShownInv, MentionsAreOfWriters, IsReaction
  <1>7. ShownUnlessOwed'
    BY <1>1 DEF ShownUnlessOwed
  <1> QED  BY <1>5, <1>6, <1>7

LEMMA StepShown ==
    ASSUME ShownInv, [OverlapsNext]_overlapsVars
    PROVE  ShownInv'
  <1>1. [Next]_vars /\ raced \subseteq raced'
    BY DEF OverlapsNext, overlapsVars
  <1>2. IInv'
    BY <1>1, StepIInv DEF ShownInv
  <1>3. OneWriter'
    <2>1. CASE OverlapsNext
      BY <2>1 DEF OverlapsNext, Racing, OneWriter
    <2>2. CASE UNCHANGED overlapsVars
      <3>1. UNCHANGED <<req, msgs, raced>>
        BY <2>2 DEF overlapsVars, vars
      <3> QED  BY <3>1 DEF ShownInv, OneWriter, Ids
    <2> QED  BY <2>1, <2>2
  <1>4. ASSUME NEW r \in Slots, Read(r) \/ Write(r) \/ Announce(r) \/ Refuse(r) \/ Fail(r)
        PROVE  RowIsCurrent' /\ MentionsAreOfWriters' /\ ShownUnlessOwed'
    BY <1>1, <1>4, ReadKeepsShown, AddMessageKeepsShown, EditOrDeleteKeepsShown,
       ReactWriteKeepsShown, SetMentionsKeepsShown, DecorateKeepsShown, PublishKeepsShown,
       RefuseKeepsShown, FailKeepsShown DEF Write, Announce
  <1>5. ASSUME UNCHANGED <<msgs, req, shown, failures>>
        PROVE  RowIsCurrent' /\ MentionsAreOfWriters' /\ ShownUnlessOwed'
    BY <1>1, <1>5 DEF ShownInv, RowIsCurrent, MentionsAreOfWriters, ShownUnlessOwed,
                      Owes, Writes, OnStored, SameButSides, SameButReacts, Ids
  <1>6. ASSUME NEW c \in Conversations, NEW u \in Users, Join(c, u) \/ Leave(c, u)
        PROVE  UNCHANGED <<msgs, req, shown, failures>>
    BY <1>6 DEF Join, Leave, store
  <1>7. UNCHANGED vars => UNCHANGED <<msgs, req, shown, failures>>
    BY DEF vars
  <1> QED  BY <1>1, <1>2, <1>3, <1>4, <1>5, <1>6, <1>7 DEF Next, ShownInv

LEMMA InitShown == OverlapsInit => ShownInv
  <1> SUFFICES ASSUME OverlapsInit
               PROVE  ShownInv
    OBVIOUS
  <1>1. IInv /\ Ids = {}
    BY InitIInv DEF OverlapsInit, Init, Ids
  <1>2. \A r \in Slots : req[r].pc = "idle"
    BY DEF OverlapsInit, Init, Idle
  <1> QED  BY <1>1, <1>2 DEF ShownInv, OneWriter, RowIsCurrent, MentionsAreOfWriters,
                             ShownUnlessOwed

(* Once every request has finished, what a subscriber shows of a message is what
   storage holds, whatever overlaps: unless its own sender had two calls on it at
   once, or a request has died between its write and its event. *)
THEOREM ShownText == OverlapsSpec => []ShownTextIsStored
  <1>1. OverlapsInit => ShownInv
    BY InitShown
  <1>2. ShownInv /\ [OverlapsNext]_overlapsVars => ShownInv'
    BY StepShown
  <1>3. ShownInv => ShownTextIsStored
    <2> SUFFICES ASSUME ShownInv, failures = 0, Quiet, NEW id \in Ids \ raced
                 PROVE  shown[id] # NotShown /\ SameButReacts(shown[id], msgs[id])
      BY DEF ShownTextIsStored, SameButReacts
    <2>1. \A r \in Slots : ~Owes(r, id)
      BY DEF Quiet, Owes, Writes
    <2> QED  BY <2>1 DEF ShownInv, ShownUnlessOwed
  <1> QED  BY <1>1, <1>2, <1>3, PTL DEF OverlapsSpec
-----------------------------------------------------------------------------
\* An edit that has yet to write is of a message that is live.
Unwritten == {"conv", "stored", "write"}

WillEdit(q, id) == Writes(q, id) /\ q.op = "edit" /\ q.pc \in Unwritten

TombInv ==
    /\ TombstonesStayEmpty
    /\ \A r \in Slots, id \in Ids \ raced : WillEdit(req[r], id) => ~msgs[id].deleted

\* A request changes the text of none but its own message, and then it has written.
LEMMA MoveKeepsTomb ==
    ASSUME ShownInv, TombInv, raced \subseteq raced', NEW r \in Slots, NEW new, Step(r, new),
           Ids \subseteq Ids', \A id \in Ids' \ Ids : ~msgs'[id].deleted,
           \A id \in Ids \ raced' :
              /\ \/ msgs'[id].deleted = msgs[id].deleted /\ msgs'[id].body = msgs[id].body
                 \/ Writes(req[r], id) /\ (msgs'[id].deleted => msgs'[id].body = NoBody)
              /\ WillEdit(new, id) => ~msgs'[id].deleted
    PROVE  TombInv'
  <1>1. req'[r] = new /\ \A s \in Slots : s # r => req'[s] = req[s]
    BY SlotMoved DEF ShownInv
  <1>2. TombstonesStayEmpty'
    <2> SUFFICES ASSUME NEW id \in Ids' \ raced', msgs'[id].deleted
                 PROVE  msgs'[id].body = NoBody
      BY DEF TombstonesStayEmpty
    <2>1. id \in Ids \ raced'
      OBVIOUS
    <2> QED  BY <2>1 DEF TombInv, TombstonesStayEmpty
  <1>3. ASSUME NEW s \in Slots, NEW id \in Ids' \ raced', WillEdit(req[s], id)'
        PROVE  ~msgs'[id].deleted
    <2>1. CASE id \notin Ids
      BY <2>1
    <2>2. CASE id \in Ids /\ s = r
      BY <1>1, <1>3, <2>2 DEF WillEdit, Writes, OnStored
    <2>3. CASE id \in Ids /\ s # r
      <3>1. WillEdit(req[s], id)
        BY <1>1, <1>3, <2>3 DEF WillEdit, Writes, OnStored
      <3>2. ~Writes(req[r], id) /\ ~msgs[id].deleted
        BY <2>3, <3>1 DEF WillEdit, ShownInv, OneWriter, TombInv
      <3> QED  BY <2>3, <3>2
    <2> QED  BY <2>1, <2>2, <2>3
  <1> QED  BY <1>2, <1>3 DEF TombInv

\* A read, and the end of a call, change no row.
LEMMA QuietKeepsTomb ==
    ASSUME ShownInv, TombInv, raced \subseteq raced', UNCHANGED msgs, NEW r \in Slots,
           NEW new, Step(r, new),
           \A id \in Ids \ raced' : WillEdit(new, id) => WillEdit(req[r], id) \/ ~msgs[id].deleted
    PROVE  TombInv'
  <1>1. Ids' = Ids
    BY DEF Ids
  <1>2. \A id \in Ids \ raced' : WillEdit(new, id) => ~msgs[id].deleted
    BY DEF TombInv
  <1> QED  BY <1>1, <1>2, MoveKeepsTomb

LEMMA ReadKeepsTomb ==
    ASSUME ShownInv, TombInv, raced \subseteq raced', NEW r \in Slots, Read(r)
    PROVE  TombInv'
  <1> DEFINE q == req[r]
             Fine(new) == \A id \in Ids \ raced' :
                WillEdit(new, id) => WillEdit(q, id) \/ ~msgs[id].deleted
  <1>1. UNCHANGED msgs
    BY DEF Read, SendLoad, SendVerify, ForwardLoad, ForwardSource, ForwardTarget, EditLoad,
           DeleteLoad, ReactLoad, LoadConversation, EditStored, Begin, Continue, store
  <1>2. PICK new : Step(r, new) /\ Fine(new)
    <2>1. CASE SendLoad(r)
      BY <2>1 DEF SendLoad, Request, WillEdit
    <2>2. CASE ForwardLoad(r)
      BY <2>2 DEF ForwardLoad, Request, WillEdit
    <2>3. CASE EditLoad(r)
      <3>1. PICK u \in Users, id \in Ids, body \in Bodies, tags \in MentionSets["edit"],
                 retag \in BOOLEAN :
              /\ ~msgs[id].deleted
              /\ Step(r, Request("conv", "edit", u, msgs[id].conv, id, msgs[id], {},
                                 body, tags, retag))
        BY <2>3 DEF EditLoad
      <3> WITNESS Request("conv", "edit", u, msgs[id].conv, id, msgs[id], {}, body, tags, retag)
      <3> QED  BY <3>1 DEF Request, WillEdit, Writes
    <2>4. CASE DeleteLoad(r)
      BY <2>4 DEF DeleteLoad, Request, WillEdit
    <2>5. CASE ReactLoad(r)
      BY <2>5 DEF ReactLoad, Request, WillEdit, Writes, IsReaction
    <2>6. CASE SendVerify(r) \/ ForwardSource(r) \/ ForwardTarget(r)
      <3>1. q.pc \in {"verify", "source", "target"}
        BY <2>6 DEF SendVerify, ForwardSource, ForwardTarget, At
      <3>2. q \in Busy /\ q.op # "edit"
        BY <3>1, InFlight DEF ShownInv, Sound
      <3>3. CASE SendVerify(r)
        <4> WITNESS [q EXCEPT !.pc = "write"]
        <4> QED  BY <3>2, <3>3 DEF SendVerify, Busy, WillEdit
      <3>4. CASE ForwardSource(r)
        BY <3>2, <3>4 DEF ForwardSource, Busy, WillEdit
      <3>5. CASE ForwardTarget(r)
        <4> WITNESS Forwarded(q)
        <4> QED  BY <3>2, <3>5 DEF ForwardTarget, Forwarded, Busy, WillEdit
      <3> QED  BY <2>6, <3>3, <3>4, <3>5
    <2>7. CASE LoadConversation(r)
      <3>1. q \in Busy /\ q.pc = "conv"
        BY <2>7, InFlight DEF LoadConversation, At, ShownInv
      <3> DEFINE c == [q EXCEPT !.snap = members[q.conv],
                                !.pc = IF q.op = "edit" THEN "stored" ELSE "write"]
      <3>2. c.op = q.op /\ c.id = q.id /\ q # Idle
        BY <3>1 DEF Busy, Idle
      <3>3. Fine(c)
        BY <3>1, <3>2 DEF WillEdit, Writes, OnStored, Unwritten
      <3> QED  BY <2>7, <3>3 DEF LoadConversation
    <2>8. CASE EditStored(r)
      <3>1. q \in Busy /\ q.pc = "stored"
        BY <2>8, InFlight DEF EditStored, At, ShownInv
      <3> DEFINE c == [q EXCEPT !.pc = "write"]
      <3>2. c.op = q.op /\ c.id = q.id /\ q # Idle
        BY <3>1 DEF Busy, Idle
      <3>3. Fine(c)
        BY <3>1, <3>2 DEF WillEdit, Writes, OnStored, Unwritten
      <3> QED  BY <2>8, <3>3 DEF EditStored
    <2> QED  BY <2>1, <2>2, <2>3, <2>4, <2>5, <2>6, <2>7, <2>8 DEF Read
  <1> QED  BY <1>1, <1>2, QuietKeepsTomb

\* The write of one row, after which its request edits no more.
LEMMA RewriteKeepsTomb ==
    ASSUME ShownInv, TombInv, raced \subseteq raced', NEW r \in Slots, NEW new, Step(r, new),
           new.pc \notin Unwritten, NEW at \in Ids, NEW row, msgs' = [msgs EXCEPT ![at] = row],
           at \notin raced' =>
              \/ row.deleted = msgs[at].deleted /\ row.body = msgs[at].body
              \/ Writes(req[r], at) /\ (row.deleted => row.body = NoBody)
    PROVE  TombInv'
  <1>1. Ids' = Ids /\ \A id \in Ids : msgs'[id] = IF id = at THEN row ELSE msgs[id]
    BY DEF Ids, ShownInv, IInv, TypeOK
  <1>2. \A id : ~WillEdit(new, id)
    BY DEF WillEdit
  <1> QED  BY <1>1, <1>2, MoveKeepsTomb

LEMMA InsertKeepsTomb ==
    ASSUME ShownInv, TombInv, raced \subseteq raced', NEW r \in Slots, AddMessage(r)
    PROVE  TombInv'
  <1> DEFINE q == req[r]
  <1>1. q \in Busy /\ Sound(q) /\ q.pc = "write" /\ q.op \in {"send", "forward"}
    BY InFlight DEF AddMessage, At, ShownInv
  <1>2. PICK row : row = NewRow(q)
    OBVIOUS
  <1>3. PICK new : new = [q EXCEPT !.id = Len(msgs) + 1, !.row = row,
                                   !.pc = IF q.tags # {} THEN "tags" ELSE "decorate"]
    OBVIOUS
  <1>4. msgs' = Append(msgs, row) /\ Step(r, new)
    BY <1>2, <1>3 DEF AddMessage
  <1>5. new.pc \in {"tags", "decorate"}
    BY <1>1, <1>3 DEF Busy
  <1>6. row.deleted = FALSE
    BY <1>1, <1>2 DEF Sound, OnStored, ReadyToInsert, NewRow, Busy, Row
  <1>7. /\ Ids \subseteq Ids' /\ \A id \in Ids' \ Ids : msgs'[id] = row
        /\ \A id \in Ids : msgs'[id] = msgs[id]
    BY <1>4 DEF Ids, ShownInv, IInv, TypeOK
  <1>8. \A id : ~WillEdit(new, id)
    BY <1>5 DEF WillEdit, Unwritten
  <1> QED  BY <1>4, <1>6, <1>7, <1>8, MoveKeepsTomb

LEMMA ChangeKeepsTomb ==
    ASSUME ShownInv, TombInv, raced \subseteq raced', NEW r \in Slots,
           EditWrite(r) \/ DeleteWrite(r) \/ ReactWrite(r) \/ SetMentions(r)
    PROVE  TombInv'
  <1> DEFINE q == req[r]
  <1>1. /\ q \in Busy /\ Sound(q) /\ OnStored(q) /\ q.pc \in {"write", "tags"}
    BY InFlight DEF EditWrite, DeleteWrite, ReactWrite, SetMentions, At, OnStored, IsReaction,
                    ShownInv
  <1>2. q.id \in Ids /\ msgs[q.id] \in Row
    BY <1>1, StoredRow DEF Sound, ShownInv
  <1>3. CASE EditWrite(r)
    <2>1. PICK row : row = EditOf(q)
      OBVIOUS
    <2>2. PICK pc \in {"tags", "decorate"} : UpdateRow(r, row, pc)
      BY <1>3, <2>1 DEF EditWrite
    <2>3. PICK new : new = [q EXCEPT !.row = row, !.pc = pc]
      OBVIOUS
    <2>4. new.pc \notin Unwritten /\ Step(r, new) /\ msgs' = [msgs EXCEPT ![q.id] = row]
      BY <1>1, <2>2, <2>3 DEF UpdateRow, Busy, Unwritten
    <2>5. q.op = "edit" /\ q.pc = "write" /\ Writes(q, q.id)
      BY <1>1, <1>3 DEF EditWrite, At, Writes, IsReaction, Busy, Idle
    <2>6. q.id \notin raced' => ~msgs[q.id].deleted
      BY <1>2, <2>5 DEF TombInv, WillEdit, Unwritten
    <2>7. row.deleted = msgs[q.id].deleted
      BY <1>2, <2>1 DEF EditOf, Row
    <2> QED  BY <1>2, <2>4, <2>5, <2>6, <2>7, RewriteKeepsTomb
  <1>4. CASE DeleteWrite(r)
    <2>1. PICK row : row = [msgs[q.id] EXCEPT !.body = NoBody, !.deleted = TRUE]
      OBVIOUS
    <2>2. UpdateRow(r, row, "decorate") /\ q.op = "delete"
      BY <1>4, <2>1 DEF DeleteWrite
    <2>3. PICK new : new = [q EXCEPT !.row = row, !.pc = "decorate"]
      OBVIOUS
    <2>4. new.pc \notin Unwritten /\ Step(r, new) /\ msgs' = [msgs EXCEPT ![q.id] = row]
      BY <1>1, <2>2, <2>3 DEF UpdateRow, Busy, Unwritten
    <2>5. Writes(q, q.id)
      BY <1>1, <2>2 DEF Writes, IsReaction, Busy, Idle
    <2>6. row.body = NoBody
      BY <1>2, <2>1 DEF Row
    <2> QED  BY <1>2, <2>4, <2>5, <2>6, RewriteKeepsTomb
  <1>5. CASE ReactWrite(r)
    <2>1. PICK reacts : /\ msgs' = [msgs EXCEPT ![q.id].reacts = reacts]
                        /\ Step(r, [q EXCEPT !.row.reacts = reacts, !.pc = "decorate"])
      BY <1>5 DEF ReactWrite
    <2>2. PICK new : new = [q EXCEPT !.row.reacts = reacts, !.pc = "decorate"]
      OBVIOUS
    <2>3. PICK row : row = [msgs[q.id] EXCEPT !.reacts = reacts]
      OBVIOUS
    <2>4. msgs' = [msgs EXCEPT ![q.id] = row]
      BY <1>2, <2>1, <2>3 DEF ShownInv, IInv, TypeOK, Ids
    <2>5. new.pc \notin Unwritten /\ Step(r, new)
      BY <1>1, <2>1, <2>2 DEF Busy, Unwritten
    <2>6. row.deleted = msgs[q.id].deleted /\ row.body = msgs[q.id].body
      BY <1>2, <2>3 DEF Row
    <2> QED  BY <1>2, <2>4, <2>5, <2>6, RewriteKeepsTomb
  <1>6. CASE SetMentions(r)
    <2>1. PICK new : new = [q EXCEPT !.pc = "decorate"]
      OBVIOUS
    <2>2. PICK row : row = [msgs[q.id] EXCEPT !.tags = q.tags]
      OBVIOUS
    <2>3. msgs' = [msgs EXCEPT ![q.id] = row] /\ Step(r, new)
      BY <1>2, <1>6, <2>1, <2>2 DEF SetMentions, ShownInv, IInv, TypeOK, Ids
    <2>4. new.pc \notin Unwritten
      BY <1>1, <2>1 DEF Busy, Unwritten
    <2>5. row.deleted = msgs[q.id].deleted /\ row.body = msgs[q.id].body
      BY <1>2, <2>2 DEF Row
    <2> QED  BY <1>2, <2>3, <2>4, <2>5, RewriteKeepsTomb
  <1> QED  BY <1>3, <1>4, <1>5, <1>6

LEMMA EndKeepsTomb ==
    ASSUME ShownInv, TombInv, raced \subseteq raced', NEW r \in Slots,
           Announce(r) \/ Refuse(r) \/ Fail(r)
    PROVE  TombInv'
  <1> DEFINE q == req[r]
  <1>1. CASE Decorate(r)
    <2>1. q \in Busy
      BY <1>1, InFlight DEF Decorate, At, ShownInv
    <2>2. PICK new : new = [q EXCEPT !.row.tags = msgs[q.id].tags,
                                     !.row.reacts = IF IsReaction(q.op) THEN @
                                                    ELSE msgs[q.id].reacts,
                                     !.pc = "publish"]
      OBVIOUS
    <2>3. Step(r, new) /\ UNCHANGED msgs
      BY <1>1, <2>2 DEF Decorate, store
    <2>4. new.pc = "publish"
      BY <2>1, <2>2 DEF Busy
    <2>5. \A id : ~WillEdit(new, id)
      BY <2>4 DEF WillEdit, Unwritten
    <2> QED  BY <2>3, <2>5, QuietKeepsTomb
  <1>2. CASE Publish(r) \/ Refuse(r) \/ Fail(r)
    <2>1. Step(r, Idle) /\ UNCHANGED msgs
      BY <1>2 DEF Publish, Refuse, Fail, store
    <2>2. \A id : ~WillEdit(Idle, id)
      BY DEF WillEdit, Writes
    <2> QED  BY <2>1, <2>2, QuietKeepsTomb
  <1> QED  BY <1>1, <1>2 DEF Announce

LEMMA StepTomb ==
    ASSUME ShownInv, TombInv, [OverlapsNext]_overlapsVars
    PROVE  TombInv'
  <1>1. [Next]_vars /\ raced \subseteq raced'
    BY DEF OverlapsNext, overlapsVars
  <1>2. ASSUME UNCHANGED <<msgs, req>>
        PROVE  TombInv'
    BY <1>1, <1>2 DEF TombInv, TombstonesStayEmpty, WillEdit, Writes, OnStored, Ids
  <1>3. ASSUME NEW c \in Conversations, NEW u \in Users, Join(c, u) \/ Leave(c, u)
        PROVE  UNCHANGED <<msgs, req>>
    BY <1>3 DEF Join, Leave, store
  <1>4. UNCHANGED vars => UNCHANGED <<msgs, req>>
    BY DEF vars
  <1>5. ASSUME NEW r \in Slots, Read(r) \/ Write(r) \/ Announce(r) \/ Refuse(r) \/ Fail(r)
        PROVE  TombInv'
    BY <1>1, <1>5, ReadKeepsTomb, InsertKeepsTomb, ChangeKeepsTomb, EndKeepsTomb DEF Write
  <1> QED  BY <1>1, <1>2, <1>3, <1>4, <1>5 DEF Next

(* A deleted message keeps no text, unless its sender had two calls on it at
   once: an edit reads that the message is live, and only its sender's delete
   could change that before the edit writes. *)
THEOREM TombstonesEmpty == OverlapsSpec => []TombstonesStayEmpty
  <1>1. OverlapsInit => ShownInv /\ TombInv
    <2> SUFFICES ASSUME OverlapsInit
                 PROVE  ShownInv /\ TombInv
      OBVIOUS
    <2>1. Ids = {}
      BY DEF OverlapsInit, Init, Ids
    <2>2. ShownInv
      BY InitShown
    <2> QED  BY <2>1, <2>2 DEF TombInv, TombstonesStayEmpty
  <1>2. ShownInv /\ TombInv /\ [OverlapsNext]_overlapsVars => ShownInv' /\ TombInv'
    BY StepShown, StepTomb
  <1>3. ShownInv /\ TombInv => TombstonesStayEmpty
    BY DEF TombInv
  <1> QED  BY <1>1, <1>2, <1>3, PTL DEF OverlapsSpec
=============================================================================
