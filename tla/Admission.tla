------------------------------ MODULE Admission -----------------------------
(***************************************************************************)
(* The doors of a group (packages/core/src/chatpack.ts): invite links,     *)
(* join requests and public channels.  Whoever is let in becomes a         *)
(* participant through admitToGroup, which is the tail of addParticipants: *)
(* here the call is handed over to Membership at its write.                *)
(*                                                                         *)
(* acceptInvite reads the link, the conversation and the queue, each in a  *)
(* step of its own, spends a use, and only then files a request or admits. *)
(* Storage spends a use in one atomic step; nothing else spans two steps.  *)
(***************************************************************************)
EXTENDS Membership

CONSTANTS
    Links,          \* invite codes; a fresh one for every invite
    MaxUses,        \* the use limits invites are given; 0 is no limit
    MaxInvites,     \* MAX_INVITES_PER_CONVERSATION
    Channel         \* "private", or the joinPolicy of a public channel

ASSUME AdmissionAssumption ==
    /\ IsFiniteSet(Links)
    /\ MaxUses \subseteq Nat
    /\ MaxInvites \in Nat
    /\ Channel \in {"private", "open", "approval"}

VARIABLES
    invite,     \* [link -> the invite]
    request,    \* [user -> the status of their join request]
    door,       \* [slot -> the admission call it runs]
    redeemed,   \* [link -> redemptions that got past the use count], history
    decisions,  \* [user -> decisions on the request in the queue], history
    letIn       \* whoever somebody or something has let in, history

queue == <<invite, request, redeemed, decisions, letIn>>
admissionVars == <<vars, queue, door>>

Invite == [state : {"unborn", "live", "revoked"}, maxUses : MaxUses \cup {0}, uses : Nat,
           approval : BOOLEAN, expired : BOOLEAN]

NoInvite == [state |-> "unborn", maxUses |-> 0, uses |-> 0, approval |-> FALSE,
             expired |-> FALSE]

\* What a call that was made without an invite holds.
NoLink == "no link"

Statuses == {"none", "pending", "approved", "denied"}

\* An admission call: who makes it, about whom, with which link (and the invite
\* as it was read), and the conversation as it was read.
DoorCall == [pc : {"mint", "group", "queue", "consume", "ask", "decide", "resolve"},
             user : Users, target : Users, link : Links \cup {NoLink}, inv : Invite,
             approve : BOOLEAN, snap : Group]

DoorOf(pc, u, target, approve) ==
    [pc |-> pc, user |-> u, target |-> target, link |-> NoLink, inv |-> NoInvite,
     approve |-> approve, snap |-> group]

Live(l) == invite[l].state = "live"

Spent(inv) == inv.maxUses # 0 /\ inv.uses >= inv.maxUses

Usable(inv) == ~inv.expired /\ ~Spent(inv)
-----------------------------------------------------------------------------
Knock(s, call) ==
    /\ door[s] = Idle
    /\ req[s] = Idle
    /\ calls < MaxCalls
    /\ calls' = calls + 1
    /\ door' = [door EXCEPT ![s] = call]
    /\ UNCHANGED <<group, req, view, failures>>

\* A call goes on to a later step, or ends.
Proceed(s, call) ==
    /\ door' = [door EXCEPT ![s] = call]
    /\ UNCHANGED vars

At(s, pc) == door[s].pc = pc

HandOver(s, pc, u, target, snap) ==
    /\ req' = [req EXCEPT ![s] =
                [pc |-> pc, op |-> "add", user |-> u, targets |-> {target},
                 patch |-> NoPatch, snap |-> snap, out |-> snap]]
    /\ door' = [door EXCEPT ![s] = Idle]
    /\ UNCHANGED <<group, view, calls, failures>>

\* Bug: the one who comes in is not counted.
HasRoomAlready(g) == Cardinality(ParticipantsOf(g)) <= MaxParticipants

\* assertGroupHasRoom, on the conversation the call has read.
HasRoom(g) == Cardinality(ParticipantsOf(g)) + 1 <= MaxParticipants

\* admitToGroup: the call goes on as an addition of the target.
Admit(s) == HandOver(s, "write", door[s].user, door[s].target, door[s].snap)

\* Somebody who is in already is answered with the conversation as read.
AnswerJoined(s, u) == HandOver(s, "return", u, u, group)
-----------------------------------------------------------------------------
MayMint == Cardinality({l \in Links : Live(l)}) < MaxInvites

\* createInvite: an admin, and the invites there are.
MintLoad(s) ==
    /\ \E u \in Users :
        /\ Manages(u)
        /\ MayMint
        /\ Knock(s, DoorOf("mint", u, u, FALSE))
    /\ UNCHANGED queue

\* storage.createInvite: the code is fresh.
Mint(s) ==
    /\ At(s, "mint")
    /\ \E l \in Links, max \in MaxUses, approval \in BOOLEAN :
        /\ invite[l] = NoInvite
        /\ invite' = [invite EXCEPT ![l] = [NoInvite EXCEPT
                        !.state = "live", !.maxUses = max, !.approval = approval]]
    /\ Proceed(s, Idle)
    /\ UNCHANGED <<request, redeemed, decisions, letIn>>

\* revokeInvite: the row goes; a call that holds the link finds nothing.
Revoke(l) ==
    /\ Live(l)
    /\ \E u \in Users : Manages(u)
    /\ invite' = [invite EXCEPT ![l].state = "revoked"]
    /\ UNCHANGED <<vars, door, request, redeemed, decisions, letIn>>

\* The time of the invite runs out.
Expire(l) ==
    /\ Live(l) /\ ~invite[l].expired
    /\ invite' = [invite EXCEPT ![l].expired = TRUE]
    /\ UNCHANGED <<vars, door, request, redeemed, decisions, letIn>>

\* acceptInvite: the link.
AcceptLoad(s) ==
    /\ \E u \in Users, l \in Links :
        /\ Live(l)
        /\ Knock(s, [DoorOf("group", u, u, FALSE) EXCEPT !.link = l, !.inv = invite[l]])
    /\ UNCHANGED queue

\* The expiry is compared with the clock; the uses are those that were read.
StillUsable(q) == ~invite[q.link].expired /\ ~Spent(q.inv)

\* Bug: somebody who is in redeems like anybody else.
NeverIn(u) == FALSE

AlreadyIn(u) == u \in Participants

\* acceptInvite: the conversation.  A participant is answered at once; the room
\* is checked before a use is spent.
AcceptGroup(s) ==
    /\ At(s, "group")
    /\ LET q == door[s] IN
        \/ /\ AlreadyIn(q.user)
           /\ AnswerJoined(s, q.user)
        \/ /\ ~AlreadyIn(q.user) /\ q.inv.approval
           /\ Proceed(s, [q EXCEPT !.pc = "queue", !.snap = group])
        \/ /\ ~AlreadyIn(q.user) /\ ~q.inv.approval
           /\ Proceed(s, IF StillUsable(q) /\ HasRoom(group)
                         THEN [q EXCEPT !.pc = "consume", !.snap = group] ELSE Idle)
    /\ UNCHANGED queue

\* requestToJoin, and joinConversation of a channel with approval.
JoinLoad(s) ==
    /\ \E u \in Users \ Participants : Knock(s, DoorOf("queue", u, u, FALSE))
    /\ UNCHANGED queue

\* joinConversation of an open channel.
JoinOpen(s) ==
    /\ Channel = "open"
    /\ door[s] = Idle /\ req[s] = Idle
    /\ calls < MaxCalls
    /\ calls' = calls + 1
    /\ HasRoom(group)
    /\ \E u \in Users \ Participants :
        /\ req' = [req EXCEPT ![s] =
                    [pc |-> "write", op |-> "add", user |-> u, targets |-> {u},
                     patch |-> NoPatch, snap |-> group, out |-> group]]
        /\ letIn' = letIn \cup {u}
    /\ UNCHANGED <<group, view, failures, door, invite, request, redeemed, decisions>>

\* The request in the queue.  A pending one is the answer; otherwise a link is
\* spent first, and a request without a link is filed.
ReadQueue(s) ==
    /\ At(s, "queue")
    /\ LET q == door[s] IN
        Proceed(s, IF request[q.user] = "pending" THEN Idle
                   ELSE IF q.link = NoLink THEN [q EXCEPT !.pc = "ask"]
                   ELSE IF StillUsable(q) THEN [q EXCEPT !.pc = "consume"]
                   ELSE Idle)
    /\ UNCHANGED queue

Spend(q) == [invite[q.link] EXCEPT !.uses = @ + 1]

\* Bug: the use count is checked as it was read at the start.
GrantsRead(q) == Live(q.link) /\ StillUsable(q)

\* storage.consumeInvite: one atomic step decides who gets the last use.
Grants(q) == Live(q.link) /\ Usable(invite[q.link])

\* Bug: redeeming lets in, whether or not the link asks for approval.
ConsumeAndAdmit(s) ==
    /\ At(s, "consume")
    /\ LET q == door[s] IN
        \/ /\ ~Grants(q)
           /\ Proceed(s, Idle)
           /\ UNCHANGED queue
        \/ /\ Grants(q)
           /\ invite' = [invite EXCEPT ![q.link] = Spend(q)]
           /\ redeemed' = [redeemed EXCEPT ![q.link] = @ + 1]
           /\ Admit(s)
           /\ letIn' = IF q.inv.approval THEN letIn ELSE letIn \cup {q.target}
           /\ UNCHANGED <<request, decisions>>

Consume(s) ==
    /\ At(s, "consume")
    /\ LET q == door[s] IN
        \/ /\ ~Grants(q)
           /\ Proceed(s, Idle)
           /\ UNCHANGED queue
        \/ /\ Grants(q)
           /\ invite' = [invite EXCEPT ![q.link] = Spend(q)]
           /\ redeemed' = [redeemed EXCEPT ![q.link] = @ + 1]
           /\ IF q.inv.approval THEN Proceed(s, [q EXCEPT !.pc = "ask"]) /\ UNCHANGED letIn
              ELSE Admit(s) /\ letIn' = letIn \cup {q.target}
           /\ UNCHANGED <<request, decisions>>

\* storage.createJoinRequest replaces whatever row there was.
Ask(s) ==
    /\ At(s, "ask")
    /\ request' = [request EXCEPT ![door[s].user] = "pending"]
    /\ decisions' = [decisions EXCEPT ![door[s].user] = 0]
    /\ Proceed(s, Idle)
    /\ UNCHANGED <<invite, redeemed, letIn>>

\* resolveJoinRequest: an admin; then the request, which must be pending.
ResolveLoad(s) ==
    /\ \E u, target \in Users, approve \in BOOLEAN :
        /\ Manages(u)
        /\ Knock(s, DoorOf("decide", u, target, approve))
    /\ UNCHANGED queue

\* Bug: a request is decided although it has been.
MayRedecide(q) == request[q.target] # "none"

MayDecide(q) == request[q.target] = "pending"

Decide(s) ==
    /\ At(s, "decide")
    /\ Proceed(s, IF MayDecide(door[s]) THEN [door[s] EXCEPT !.pc = "resolve"] ELSE Idle)
    /\ UNCHANGED queue

\* The decision is recorded before an approved person is let in, and before
\* there is known to be room.
Resolve(s) ==
    /\ At(s, "resolve")
    /\ LET q == door[s] IN
        /\ request' = [request EXCEPT ![q.target] = IF q.approve THEN "approved" ELSE "denied"]
        /\ decisions' = [decisions EXCEPT ![q.target] = @ + 1]
        /\ letIn' = IF q.approve THEN letIn \cup {q.target} ELSE letIn
        /\ IF q.approve /\ HasRoom(q.snap) THEN Admit(s) ELSE Proceed(s, Idle)
    /\ UNCHANGED <<invite, redeemed>>

\* A call is refused, or its process dies: what it has spent stays spent.
GiveUp(s) ==
    /\ door[s] # Idle
    /\ failures < MaxFailures
    /\ failures' = failures + 1
    /\ door' = [door EXCEPT ![s] = Idle]
    /\ UNCHANGED <<group, req, view, calls, queue>>

\* Membership's own calls; an addition by an admin lets its targets in.
Manage(s) ==
    /\ door[s] = Idle
    /\ Load(s)
    /\ letIn' = IF req'[s].op = "add" THEN letIn \cup req'[s].targets ELSE letIn
    /\ UNCHANGED <<door, invite, request, redeemed, decisions>>

Finish(s) ==
    /\ Store(s) \/ Publish(s) \/ Return(s) \/ Refuse(s) \/ Fail(s)
    /\ UNCHANGED <<door, queue>>

AdmissionInit ==
    /\ Init
    /\ invite = [l \in Links |-> NoInvite]
    /\ request = [u \in Users |-> "none"]
    /\ door = [s \in Slots |-> Idle]
    /\ redeemed = [l \in Links |-> 0]
    /\ decisions = [u \in Users |-> 0]
    /\ letIn = Participants

AtTheDoor(s) ==
    \/ MintLoad(s) \/ Mint(s) \/ AcceptLoad(s) \/ AcceptGroup(s) \/ Consume(s)
    \/ JoinLoad(s) \/ JoinOpen(s) \/ ReadQueue(s) \/ Ask(s)
    \/ ResolveLoad(s) \/ Decide(s) \/ Resolve(s) \/ GiveUp(s)

AdmissionNext ==
    \/ \E s \in Slots : Manage(s) \/ Finish(s) \/ AtTheDoor(s)
    \/ \E l \in Links : Revoke(l) \/ Expire(l)

AdmissionSpec == AdmissionInit /\ [][AdmissionNext]_admissionVars
-----------------------------------------------------------------------------
(* Every variable has its type, and the use count of an invite is the number of
   redemptions that it granted. *)
AdmissionTypeOK ==
    /\ TypeOK
    /\ invite \in [Links -> Invite]
    /\ request \in [Users -> Statuses]
    /\ door \in [Slots -> {Idle} \cup DoorCall]
    /\ redeemed \in [Links -> Nat]
    /\ decisions \in [Users -> Nat]
    /\ letIn \subseteq Users
    /\ \A l \in Links : invite[l].uses = redeemed[l]
    /\ \A s \in Slots : door[s] = Idle \/ req[s] = Idle

(* ADR 0019 par. 2: simultaneous redemptions of an invite do not exceed its use
   limit, however many calls had read it while it was usable. *)
LinkHonoured ==
    \A l \in Links : invite[l].maxUses # 0 => redeemed[l] <= invite[l].maxUses

(* ADR 0019 par. 4: nobody becomes a participant uninvited, whatever overlaps: an
   admin added or approved them, a link without approval was spent for them, or
   the channel is open. *)
NobodySlipsIn == Participants \subseteq letIn

(* chatpack.ts resolveJoinRequest: two admins racing on the same queue entry
   cannot both apply a decision.  They can: the status is read in one storage
   call and written in another.  (AdmissionOverlaps says when it does hold.) *)
OneDecision == \A u \in Users : decisions[u] <= 1
=============================================================================
