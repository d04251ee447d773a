----------------------------- MODULE Membership -----------------------------
(***************************************************************************)
(* The life of one group conversation (packages/core/src/chatpack.ts):     *)
(* addParticipants, removeParticipant, setParticipantRole and              *)
(* updateConversation, over storage's single-call writes, and the copy of  *)
(* the conversation each client caches (client/src/store-cache.ts).        *)
(*                                                                         *)
(* Each call loads the conversation, checks what it is asked against that  *)
(* snapshot (who manages, the limit, the last admin), and writes in a      *)
(* later step; the answer of the write is published, and last returned to  *)
(* the caller's client.  No lock is taken: other calls run between any two *)
(* of these steps.                                                         *)
(***************************************************************************)
EXTENDS Integers, FiniteSets

CONSTANTS
    Users,          \* user ids
    Fields,         \* the editable fields of a group, "name" among them
    Values,         \* what a field can hold
    MaxParticipants,\* MAX_GROUP_PARTICIPANTS
    Slots,          \* calls that may be in flight at the same time
    Ops,            \* the calls clients make
    MaxCalls,       \* bound: calls made
    MaxFailures     \* bound: calls lost after their write

AllOps == {"add", "remove", "promote", "demote", "update"}

ASSUME MembershipAssumption ==
    /\ IsFiniteSet(Users)
    /\ "name" \in Fields
    /\ MaxParticipants \in Nat
    /\ Ops \subseteq AllOps

VARIABLES
    group,      \* [role, info]: the conversation and its participants
    req,        \* [slot -> the call it runs]
    view,       \* [user -> the conversation as their client caches it]
    calls, failures     \* what has been spent of the bounds

vars == <<group, req, view, calls, failures>>

Roles == {"none", "member", "admin"}

Group == [role : [Users -> Roles], info : [Fields -> Values]]

Patches == UNION {[fields -> Values] : fields \in (SUBSET Fields) \ {{}}}

\* What updateConversation was given; no field for any other call.
NoPatch == [f \in {} |-> CHOOSE v \in Values : TRUE]

Idle == [pc |-> "idle"]

\* A call in flight: its arguments, the snapshot it loaded (a field of info
\* already replaced by what it was given), and the answer of its write.
Call == [pc : {"write", "publish", "return"}, op : AllOps, user : Users,
         targets : SUBSET Users, patch : Patches \cup {NoPatch}, snap : Group, out : Group]

NotCached == [cached |-> FALSE]

Cached(g) == [cached |-> TRUE, role |-> g.role, info |-> g.info]

View == {NotCached} \cup [cached : {TRUE}, role : [Users -> Roles], info : [Fields -> Values]]

ParticipantsOf(g) == {u \in Users : g.role[u] # "none"}

AdminsOf(g) == {u \in Users : g.role[u] = "admin"}

Participants == ParticipantsOf(group)
-----------------------------------------------------------------------------
\* A call starts; pc "return" means that there is nothing to do.
Begin(s, pc, op, u, targets, patch) ==
    /\ op \in Ops
    /\ req[s] = Idle
    /\ calls < MaxCalls
    /\ req' = [req EXCEPT ![s] =
                [pc |-> pc, op |-> op, user |-> u, targets |-> targets, patch |-> patch,
                 snap |-> group, out |-> group]]
    /\ calls' = calls + 1
    /\ UNCHANGED <<group, view, failures>>

Manages(u) == group.role[u] = "admin"

RoomFor(new) == Cardinality(Participants) + Cardinality(new) <= MaxParticipants

WriteIfAny(new) == IF new = {} THEN "return" ELSE "write"

\* addParticipants: those who are not in yet; nobody new is a no-op.
AddLoad(s) ==
    \E u \in Users, asked \in (SUBSET Users) \ {{}} :
        LET new == asked \ Participants IN
        /\ Manages(u)
        /\ RoomFor(new)
        /\ Begin(s, WriteIfAny(new), "add", u, new, NoPatch)

\* Bug: anyone who is left will do.
SomeoneRemains(admins) == Participants # AdminsOf(group) \ admins

\* requireAdminRemains, on the admins as they would be afterwards.
AdminRemains(admins) == admins # {}

\* removeParticipant: leaving, or removing someone else with authority.
RemoveLoad(s) ==
    \E u, target \in Users :
        /\ u = target \/ Manages(u)
        /\ target \in Participants => AdminRemains(AdminsOf(group) \ {target})
        /\ Begin(s, IF target \in Participants THEN "write" ELSE "return",
                 "remove", u, {target}, NoPatch)

\* setParticipantRole: the role somebody already has is a no-op.
RoleLoad(s) ==
    \E u \in Users, target \in Participants :
        /\ Manages(u)
        /\ \/ Begin(s, IF Manages(target) THEN "return" ELSE "write",
                    "promote", u, {target}, NoPatch)
           \/ /\ Manages(target) => AdminRemains(AdminsOf(group) \ {target})
              /\ Begin(s, IF Manages(target) THEN "write" ELSE "return",
                       "demote", u, {target}, NoPatch)

\* updateConversation: at least one field.
UpdateLoad(s) ==
    \E u \in Users, patch \in Patches :
        /\ Manages(u)
        /\ Begin(s, "write", "update", u, {}, patch)
-----------------------------------------------------------------------------
\* The write returns the conversation as it then is.
Write(s, op, new) ==
    /\ req[s].pc = "write"
    /\ req[s].op = op
    /\ group' = new
    /\ req' = [req EXCEPT ![s].pc = "publish", ![s].out = new]
    /\ UNCHANGED <<view, calls, failures>>

\* Bug: someone who is a participant by now starts again as a member.
AddAnew(targets) == [u \in Users |-> IF u \in targets THEN "member" ELSE group.role[u]]

\* storage.addParticipants: a participant keeps their role.
Added(targets) ==
    [u \in Users |-> IF u \in targets \ Participants THEN "member" ELSE group.role[u]]

AddWrite(s) == Write(s, "add", [group EXCEPT !.role = Added(req[s].targets)])

RemoveWrite(s) ==
    Write(s, "remove",
          [group EXCEPT !.role = [u \in Users |-> IF u \in req[s].targets THEN "none" ELSE @[u]]])

\* storage.setParticipantRole refuses somebody who is gone.
RoleWrite(s) ==
    \E op \in {"promote", "demote"} :
        LET role == IF op = "promote" THEN "admin" ELSE "member" IN
        /\ req[s] # Idle
        /\ req[s].targets \subseteq Participants
        /\ Write(s, op, [group EXCEPT !.role =
                            [u \in Users |-> IF u \in req[s].targets THEN role ELSE @[u]]])

\* Bug: an omitted field goes back to a default.
ResolvedToDefault(q) ==
    [f \in Fields |-> IF f \in DOMAIN q.patch THEN q.patch[f] ELSE CHOOSE v \in Values : TRUE]

\* An omitted field gets the value it had in the snapshot, and all are written.
Resolved(q) ==
    [f \in Fields |-> IF f \in DOMAIN q.patch THEN q.patch[f] ELSE q.snap.info[f]]

UpdateWrite(s) ==
    /\ req[s] # Idle
    /\ Write(s, "update", [group EXCEPT !.info = Resolved(req[s])])
-----------------------------------------------------------------------------
\* applyConversationSnapshot: the participants and the name of a cached copy.
Merged(shown, g) ==
    IF shown.cached THEN [shown EXCEPT !.role = g.role, !.info["name"] = g.info["name"]]
    ELSE NotCached

\* applyParticipantRemoved: the removed drop the conversation.
AfterRemoval(shown, u, q) == IF u \in q.targets THEN NotCached ELSE Merged(shown, q.out)

\* Bug: the recipients of a removal are those who are left.
ToldAfterwards(q) == ParticipantsOf(q.out)

\* The recipients; those of a removal were captured before its write.
Told(q) == ParticipantsOf(IF q.op = "remove" THEN q.snap ELSE q.out)

\* publishConversation, and what each recipient's cache makes of the event.
Publish(s) ==
    /\ req[s].pc = "publish"
    /\ LET q == req[s] IN
        view' = [u \in Users |->
            IF u \notin Told(q) THEN view[u]
            ELSE IF q.op = "remove" THEN AfterRemoval(view[u], u, q)
            ELSE Merged(view[u], q.out)]
    /\ req' = [req EXCEPT ![s].pc = "return"]
    /\ UNCHANGED <<group, calls, failures>>

\* The response reaches the caller's client, which caches the whole of it
\* (changeConversation), a removal excepted.
Return(s) ==
    /\ req[s].pc = "return"
    /\ LET q == req[s] IN
        view' = [view EXCEPT ![q.user] =
            IF q.op = "remove" THEN AfterRemoval(@, q.user, q) ELSE Cached(q.out)]
    /\ req' = [req EXCEPT ![s] = Idle]
    /\ UNCHANGED <<group, calls, failures>>

\* The call is refused (a ban, a hook, an unknown user) before its write.
Refuse(s) ==
    /\ req[s].pc = "write"
    /\ req' = [req EXCEPT ![s] = Idle]
    /\ UNCHANGED <<group, view, calls, failures>>

\* The process dies after the write, or the response is lost.
Fail(s) ==
    /\ req[s].pc \in {"publish", "return"}
    /\ failures < MaxFailures
    /\ failures' = failures + 1
    /\ req' = [req EXCEPT ![s] = Idle]
    /\ UNCHANGED <<group, view, calls>>

\* createGroupConversation: the creator is the admin, the invited are members.
\* Everyone has loaded the conversation.
Init ==
    /\ \E creator \in Users, seeds \in SUBSET Users, info \in [Fields -> Values] :
        /\ Cardinality(seeds \cup {creator}) <= MaxParticipants
        /\ group = [role |-> [u \in Users |-> IF u = creator THEN "admin"
                                              ELSE IF u \in seeds THEN "member" ELSE "none"],
                    info |-> info]
    /\ req = [s \in Slots |-> Idle]
    /\ view = [u \in Users |-> IF group.role[u] # "none" THEN Cached(group) ELSE NotCached]
    /\ calls = 0 /\ failures = 0

Load(s) == AddLoad(s) \/ RemoveLoad(s) \/ RoleLoad(s) \/ UpdateLoad(s)

Store(s) == AddWrite(s) \/ RemoveWrite(s) \/ RoleWrite(s) \/ UpdateWrite(s)

Next == \E s \in Slots :
    Load(s) \/ Store(s) \/ Publish(s) \/ Return(s) \/ Refuse(s) \/ Fail(s)

Spec == Init /\ [][Next]_vars
-----------------------------------------------------------------------------
(* Every variable has its type, and a call that writes has something to write:
   an event about a change that is none would be a lie. *)
TypeOK ==
    /\ group \in Group
    /\ req \in [Slots -> {Idle} \cup Call]
    /\ view \in [Users -> View]
    /\ calls \in Nat /\ failures \in Nat
    /\ \A s \in Slots : req[s].pc \in {"write", "publish"} =>
        (req[s].targets = {} <=> req[s].op = "update")

(* ADR 0017 par. 3: a group always has at least one admin.  Both ways to lose
   the last one (removal or leaving, demotion) check a snapshot, so two that
   overlap leave a group without any. *)
AtLeastOneAdmin == AdminsOf(group) # {}

(* ADR 0017: a group holds at most MAX_GROUP_PARTICIPANTS people.  The limit is
   checked on a snapshot, so additions that overlap exceed it. *)
GroupWithinLimit == Cardinality(Participants) <= MaxParticipants

(* A replayed or late add never demotes (memory adapter, addParticipants): an
   admin becomes a member by a demotion that names them and by nothing else,
   whichever calls overlap. *)
OnlyDemotionDemotes ==
    [][\A u \in Users : group.role[u] = "admin" /\ group'.role[u] = "member" =>
        \E s \in Slots : /\ req[s].pc = "write" /\ req'[s].pc = "publish"
                         /\ req[s].op = "demote" /\ u \in req[s].targets]_vars

(* ADR 0017 par. 4: the events carry the whole membership and the removed are
   told as well, so that no refetch is needed.  At rest every client that has
   the conversation shows its name and participants as stored, and someone who
   was removed has no copy.  Overlapping calls publish in another order than
   they write in. *)
Quiet == \A s \in Slots : req[s] = Idle

ViewsAgree ==
    Quiet => \A u \in Users :
        view[u].cached =>
            /\ u \in Participants
            /\ view[u].role = group.role
            /\ view[u].info["name"] = group.info["name"]
=============================================================================
