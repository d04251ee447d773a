---------------------------- MODULE GroupProofs -----------------------------
(***************************************************************************)
(* Proofs about Membership, Admission and AdmissionOverlaps, for every set *)
(* of users, fields, values, links and slots and every limit, and whatever *)
(* overlaps.  First the group and the calls on it (Spec), then the group   *)
(* and its doors (AdmissionSpec), then what the group keeps of its         *)
(* promises where no two calls of a class have overlapped (OverlapsSpec).  *)
(***************************************************************************)
EXTENDS AdmissionOverlaps, TLAPS, FiniteSetTheorems
-----------------------------------------------------------------------------
\* A group whose roles, or whose fields, were replaced is a group.
LEMMA GroupChanges ==
    ASSUME NEW g \in Group
    PROVE  /\ \A role \in [Users -> Roles] : /\ [g EXCEPT !.role = role] \in Group
                                             /\ [g EXCEPT !.role = role].role = role
                                             /\ [g EXCEPT !.role = role].info = g.info
           /\ \A info \in [Fields -> Values] : /\ [g EXCEPT !.info = info] \in Group
                                               /\ [g EXCEPT !.info = info].role = g.role
                                               /\ [g EXCEPT !.info = info].info = info
  BY DEF Group

\* What a busy slot runs is a call.
LEMMA BusyIsCall ==
    ASSUME TypeOK, NEW s \in Slots, req[s] # Idle
    PROVE  req[s] \in Call
  BY DEF TypeOK

\* Merging an event into a cached copy gives a copy.
LEMMA MergedIsView ==
    ASSUME NEW shown \in View, NEW g \in Group
    PROVE  Merged(shown, g) \in View /\ Cached(g) \in View
  BY MembershipAssumption DEF Merged, Cached, View, Group, NotCached

\* A call that starts has its type.
LEMMA BeginKeepsType ==
    ASSUME TypeOK, NEW s \in Slots, NEW pc \in {"write", "return"}, NEW op \in AllOps,
           NEW u \in Users, NEW targets \in SUBSET Users, NEW patch \in Patches \cup {NoPatch},
           pc = "write" => (targets = {} <=> op = "update"),
           Begin(s, pc, op, u, targets, patch)
    PROVE  TypeOK'
  <1> DEFINE q == [pc |-> pc, op |-> op, user |-> u, targets |-> targets, patch |-> patch,
                   snap |-> group, out |-> group]
  <1>1. q \in Call
    BY DEF Call, TypeOK
  <1>2. req' = [req EXCEPT ![s] = q]
    BY DEF Begin
  <1>3. req' \in [Slots -> {Idle} \cup Call]
    BY <1>1, <1>2 DEF TypeOK
  <1>4. \A t \in Slots : req'[t].pc \in {"write", "publish"} =>
            (req'[t].targets = {} <=> req'[t].op = "update")
    BY <1>2 DEF TypeOK
  <1> QED  BY <1>3, <1>4 DEF TypeOK, Begin

\* A write of a well-typed group keeps every type.
LEMMA WriteKeepsType ==
    ASSUME TypeOK, NEW s \in Slots, NEW op, NEW new \in Group, Write(s, op, new)
    PROVE  TypeOK' /\ req[s] \in Call
  <1>1. req[s] \in Call
    BY DEF Write, TypeOK, Idle
  <1> DEFINE q == [req[s] EXCEPT !.pc = "publish", !.out = new]
  <1>2. q \in Call /\ q.targets = req[s].targets /\ q.op = req[s].op
    BY <1>1 DEF Call
  <1>3. req' = [req EXCEPT ![s] = q]
    BY DEF Write, TypeOK
  <1>4. req' \in [Slots -> {Idle} \cup Call]
    BY <1>2, <1>3 DEF TypeOK
  <1>5. \A t \in Slots : req'[t].pc \in {"write", "publish"} =>
            (req'[t].targets = {} <=> req'[t].op = "update")
    BY <1>2, <1>3 DEF TypeOK, Write
  <1> QED  BY <1>1, <1>4, <1>5 DEF TypeOK, Write
-----------------------------------------------------------------------------
\* What each write makes of the group.
LEMMA AddWrites ==
    ASSUME TypeOK, NEW s \in Slots, AddWrite(s)
    PROVE  /\ TypeOK' /\ req[s] \in Call /\ group'.info = group.info
           /\ group'.role = Added(req[s].targets)
           /\ req[s].pc = "write" /\ req[s].op = "add"
  <1>1. Added(req[s].targets) \in [Users -> Roles] /\ group \in Group
    BY DEF Added, TypeOK, Group, Roles
  <1> DEFINE new == [group EXCEPT !.role = Added(req[s].targets)]
  <1>2. /\ new \in Group /\ new.role = Added(req[s].targets)
        /\ new.info = group.info
    BY <1>1, GroupChanges
  <1>3. Write(s, "add", new)
    BY DEF AddWrite
  <1>4. TypeOK' /\ req[s] \in Call
    BY <1>2, <1>3, WriteKeepsType
  <1> QED  BY <1>2, <1>3, <1>4 DEF Write

LEMMA RemoveWrites ==
    ASSUME TypeOK, NEW s \in Slots, RemoveWrite(s)
    PROVE  /\ TypeOK' /\ req[s] \in Call /\ group'.info = group.info
           /\ group'.role = [u \in Users |->
                                IF u \in req[s].targets THEN "none" ELSE group.role[u]]
           /\ req[s].pc = "write" /\ req[s].op = "remove"
  <1> DEFINE role == [u \in Users |->
                        IF u \in req[s].targets THEN "none" ELSE group.role[u]]
             new == [group EXCEPT !.role = role]
  <1>1. role \in [Users -> Roles] /\ group \in Group
    BY DEF TypeOK, Group, Roles
  <1>2. new \in Group /\ new.role = role /\ new.info = group.info
    BY <1>1, GroupChanges
  <1>3. Write(s, "remove", new)
    BY <1>1 DEF RemoveWrite, Group
  <1>4. TypeOK' /\ req[s] \in Call
    BY <1>2, <1>3, WriteKeepsType
  <1> QED  BY <1>2, <1>3, <1>4 DEF Write

LEMMA RoleWrites ==
    ASSUME TypeOK, NEW s \in Slots, RoleWrite(s)
    PROVE  /\ TypeOK' /\ req[s] \in Call /\ group'.info = group.info
           /\ req[s].targets \subseteq Participants
           /\ group'.role = [u \in Users |->
                IF u \in req[s].targets
                THEN (IF req[s].op = "promote" THEN "admin" ELSE "member") ELSE group.role[u]]
           /\ req[s].pc = "write" /\ req[s].op \in {"promote", "demote"}
  <1> PICK op \in {"promote", "demote"} :
        /\ req[s].targets \subseteq Participants
        /\ Write(s, op, [group EXCEPT !.role =
                [u \in Users |-> IF u \in req[s].targets
                    THEN (IF op = "promote" THEN "admin" ELSE "member") ELSE @[u]]])
    BY DEF RoleWrite
  <1> DEFINE role == [u \in Users |->
                IF u \in req[s].targets
                THEN (IF op = "promote" THEN "admin" ELSE "member") ELSE group.role[u]]
             new == [group EXCEPT !.role = role]
  <1>1. role \in [Users -> Roles] /\ group \in Group
    BY DEF TypeOK, Group, Roles
  <1>2. new \in Group /\ new.role = role /\ new.info = group.info
    BY <1>1, GroupChanges
  <1>3. Write(s, op, new)
    BY <1>1 DEF Group
  <1>4. TypeOK' /\ req[s] \in Call
    BY <1>2, <1>3, WriteKeepsType
  <1> QED  BY <1>2, <1>3, <1>4 DEF Write

LEMMA UpdateWrites ==
    ASSUME TypeOK, NEW s \in Slots, UpdateWrite(s)
    PROVE  /\ TypeOK' /\ req[s] \in Call /\ group'.role = group.role
           /\ group'.info = Resolved(req[s])
           /\ req[s].pc = "write" /\ req[s].op = "update"
  <1>1. req[s] \in Call
    BY BusyIsCall DEF UpdateWrite
  <1>2. /\ req[s].patch \in Patches \cup {NoPatch}
        /\ req[s].snap.info \in [Fields -> Values]
    BY <1>1 DEF Call, Group
  <1>3. \A f \in DOMAIN req[s].patch : req[s].patch[f] \in Values
    BY <1>2 DEF Patches, NoPatch
  <1>4. Resolved(req[s]) \in [Fields -> Values] /\ group \in Group
    BY <1>2, <1>3 DEF Resolved, TypeOK
  <1> DEFINE new == [group EXCEPT !.info = Resolved(req[s])]
  <1>5. new \in Group /\ new.info = Resolved(req[s]) /\ new.role = group.role
    BY <1>4, GroupChanges
  <1>6. Write(s, "update", new)
    BY DEF UpdateWrite
  <1>7. TypeOK'
    BY <1>5, <1>6, WriteKeepsType
  <1> QED  BY <1>1, <1>5, <1>6, <1>7 DEF Write
-----------------------------------------------------------------------------
\* A call that starts has checked what it will need.
LEMMA LoadBegins ==
    ASSUME TypeOK, NEW s \in Slots, Load(s)
    PROVE  \E pc \in {"write", "return"}, op \in AllOps, u \in Users,
              targets \in SUBSET Users, patch \in Patches \cup {NoPatch} :
            /\ Begin(s, pc, op, u, targets, patch)
            /\ pc = "write" => (targets = {} <=> op = "update")
            /\ pc = "write" /\ op \in {"remove", "demote"} =>
                    AdminsOf(group) \ targets # {}
            /\ pc = "write" /\ op = "add" =>
                    Cardinality(Participants \cup targets) <= MaxParticipants
  <1>1. CASE AddLoad(s)
    <2> PICK u \in Users, asked \in (SUBSET Users) \ {{}} :
            /\ RoomFor(asked \ Participants)
            /\ Begin(s, WriteIfAny(asked \ Participants), "add", u,
                     asked \ Participants, NoPatch)
      BY <1>1 DEF AddLoad
    <2> DEFINE new == asked \ Participants
    <2>1. IsFiniteSet(Participants) /\ IsFiniteSet(new)
      BY MembershipAssumption, FS_Subset DEF Participants, ParticipantsOf
    <2>2. Participants \cap new = {}
      OBVIOUS
    <2>3. Cardinality(Participants \cup new) = Cardinality(Participants) + Cardinality(new)
      <3>1. Cardinality(Participants) \in Nat /\ Cardinality(new) \in Nat
        BY <2>1, FS_CardinalityType
      <3>2. Cardinality(Participants \cup new)
                = Cardinality(Participants) + Cardinality(new) - Cardinality(Participants \cap new)
        BY <2>1, FS_Union
      <3>3. Cardinality(Participants \cap new) = 0
        BY <2>2, FS_EmptySet
      <3> QED  BY <3>1, <3>2, <3>3
    <2>4. Cardinality(Participants \cup new) <= MaxParticipants
      BY <2>3 DEF RoomFor
    <2>5. WriteIfAny(new) \in {"write", "return"} /\ (WriteIfAny(new) = "write" => new # {})
      BY DEF WriteIfAny
    <2> QED  BY <2>4, <2>5 DEF AllOps
  <1>2. CASE RemoveLoad(s)
    <2> PICK u \in Users, target \in Users :
            /\ target \in Participants => AdminRemains(AdminsOf(group) \ {target})
            /\ Begin(s, IF target \in Participants THEN "write" ELSE "return",
                     "remove", u, {target}, NoPatch)
      BY <1>2 DEF RemoveLoad
    <2> DEFINE pc == IF target \in Participants THEN "write" ELSE "return"
    <2>1. pc = "write" => AdminsOf(group) \ {target} # {}
      BY DEF AdminRemains
    <2> QED  BY <2>1 DEF AllOps
  <1>3. CASE RoleLoad(s)
    <2> PICK u \in Users, target \in Participants :
            \/ Begin(s, IF Manages(target) THEN "return" ELSE "write",
                     "promote", u, {target}, NoPatch)
            \/ /\ Manages(target) => AdminRemains(AdminsOf(group) \ {target})
               /\ Begin(s, IF Manages(target) THEN "write" ELSE "return",
                        "demote", u, {target}, NoPatch)
      BY <1>3 DEF RoleLoad
    <2>1. target \in Users
      BY DEF Participants, ParticipantsOf
    <2>2. CASE Begin(s, IF Manages(target) THEN "return" ELSE "write",
                     "promote", u, {target}, NoPatch)
      BY <2>1, <2>2 DEF AllOps
    <2>3. CASE /\ Manages(target) => AdminRemains(AdminsOf(group) \ {target})
               /\ Begin(s, IF Manages(target) THEN "write" ELSE "return",
                        "demote", u, {target}, NoPatch)
      <3> DEFINE pc == IF Manages(target) THEN "write" ELSE "return"
      <3>1. pc = "write" => AdminsOf(group) \ {target} # {}
        BY <2>3 DEF AdminRemains
      <3> QED  BY <2>1, <2>3, <3>1 DEF AllOps
    <2> QED  BY <2>2, <2>3
  <1>4. CASE UpdateLoad(s)
    BY <1>4 DEF UpdateLoad, AllOps
  <1> QED  BY <1>1, <1>2, <1>3, <1>4 DEF Load

\* Publishing, returning, refusing and failing leave the group alone and only
\* bring a call nearer its end.
Winds(s) ==
    /\ UNCHANGED group
    /\ req[s] # Idle
    /\ \E new \in {Idle, [req[s] EXCEPT !.pc = "return"]} : req' = [req EXCEPT ![s] = new]

LEMMA WindingDown ==
    ASSUME TypeOK, NEW s \in Slots, Publish(s) \/ Return(s) \/ Refuse(s) \/ Fail(s)
    PROVE  TypeOK' /\ Winds(s)
  <1>1. req[s] \in Call
    BY DEF TypeOK, Idle, Publish, Return, Refuse, Fail
  <1>2. req[s] # Idle
    BY <1>1 DEF Call, Idle
  <1> DEFINE q == [req[s] EXCEPT !.pc = "return"]
  <1>3. q \in Call /\ q.pc = "return"
    BY <1>1 DEF Call
  <1>4. Winds(s)
    <2>1. CASE Publish(s)
      <3>1. req' = [req EXCEPT ![s] = q]
        BY <2>1 DEF Publish, TypeOK
      <3> QED  BY <1>2, <2>1, <3>1 DEF Publish, Winds
    <2>2. CASE Return(s) \/ Refuse(s) \/ Fail(s)
      BY <1>2, <2>2 DEF Return, Refuse, Fail, Winds
    <2> QED  BY <2>1, <2>2
  <1>5. /\ req' \in [Slots -> {Idle} \cup Call]
        /\ \A t \in Slots : req'[t].pc \in {"write", "publish"} =>
            (req'[t].targets = {} <=> req'[t].op = "update")
    <2>1. PICK new \in {Idle, q} : req' = [req EXCEPT ![s] = new]
      BY <1>4 DEF Winds
    <2>2. Idle.pc = "idle"
      BY DEF Idle
    <2>3. new.pc \in {"idle", "return"}
      <3>1. new = Idle \/ new = q
        OBVIOUS
      <3> HIDE DEF q
      <3> QED  BY <1>3, <2>2, <3>1
    <2> QED  BY <1>3, <2>1, <2>3 DEF TypeOK
  <1>6. view' \in [Users -> View]
    <2>1. \A u \in Users : view[u] \in View
      BY DEF TypeOK
    <2>2. req[s].out \in Group
      BY <1>1 DEF Call
    <2>3. \A u \in Users : /\ Merged(view[u], req[s].out) \in View
                           /\ Cached(req[s].out) \in View
                           /\ AfterRemoval(view[u], u, req[s]) \in View
      BY <2>1, <2>2, MergedIsView DEF AfterRemoval, View
    <2>4. CASE Publish(s)
      BY <2>1, <2>3, <2>4 DEF Publish
    <2>5. CASE Return(s)
      <3> DEFINE u == req[s].user
                 shown == IF req[s].op = "remove" THEN AfterRemoval(view[u], u, req[s])
                          ELSE Cached(req[s].out)
      <3>1. u \in Users
        BY <1>1 DEF Call
      <3>2. shown \in View
        BY <2>3, <3>1
      <3>3. view' = [view EXCEPT ![u] = shown]
        BY <2>5, <3>1 DEF Return, TypeOK
      <3> QED  BY <2>1, <3>2, <3>3 DEF TypeOK
    <2>6. CASE Refuse(s) \/ Fail(s)
      BY <2>6 DEF Refuse, Fail, TypeOK
    <2> QED  BY <2>4, <2>5, <2>6
  <1> QED  BY <1>4, <1>5, <1>6 DEF TypeOK, Publish, Return, Refuse, Fail, Winds

\* The group everybody starts from.
LEMMA InitHolds ==
    ASSUME Init
    PROVE  TypeOK /\ AtLeastOneAdmin /\ GroupWithinLimit
  <1> PICK creator \in Users, seeds \in SUBSET Users, info \in [Fields -> Values] :
        /\ Cardinality(seeds \cup {creator}) <= MaxParticipants
        /\ group = [role |-> [u \in Users |-> IF u = creator THEN "admin"
                                              ELSE IF u \in seeds THEN "member" ELSE "none"],
                    info |-> info]
    BY DEF Init
  <1>1. group \in Group
    BY DEF Group, Roles
  <1>2. \A u \in Users : view[u] \in View
    BY <1>1 DEF Init, Cached, View, Group
  <1>3. TypeOK
    BY <1>1, <1>2 DEF Init, TypeOK, Idle
  <1>4. Participants = seeds \cup {creator}
    BY DEF Participants, ParticipantsOf
  <1>5. creator \in AdminsOf(group)
    BY DEF AdminsOf
  <1> QED  BY <1>3, <1>4, <1>5 DEF AtLeastOneAdmin, GroupWithinLimit

\* Types are preserved by every step, whichever calls overlap.
LEMMA NextKeepsType ==
    ASSUME TypeOK, [Next]_vars
    PROVE  TypeOK'
  <1>1. ASSUME NEW s \in Slots, Load(s)  PROVE TypeOK'
    BY <1>1, LoadBegins, BeginKeepsType
  <1>2. ASSUME NEW s \in Slots, Store(s)  PROVE TypeOK'
    BY <1>2, AddWrites, RemoveWrites, RoleWrites, UpdateWrites DEF Store
  <1>3. ASSUME NEW s \in Slots, Publish(s) \/ Return(s) \/ Refuse(s) \/ Fail(s)
        PROVE  TypeOK'
    BY <1>3, WindingDown
  <1>4. CASE UNCHANGED vars
    BY <1>4 DEF TypeOK, vars
  <1> QED  BY <1>1, <1>2, <1>3, <1>4 DEF Next
\* A write leaves the other calls as they were, and the writer published.
LEMMA WriteMoves ==
    ASSUME TypeOK, NEW s \in Slots, Store(s)
    PROVE  /\ req[s] \in Call /\ req[s] # Idle /\ req[s].pc = "write"
           /\ req'[s].pc = "publish" /\ req'[s].op = req[s].op
           /\ \A t \in Slots : t # s => req'[t] = req[t]
  <1>1. req[s] \in Call /\ req[s].pc = "write"
    BY AddWrites, RemoveWrites, RoleWrites, UpdateWrites DEF Store
  <1>2. \E new : req' = [req EXCEPT ![s].pc = "publish", ![s].out = new]
    BY DEF Store, AddWrite, RemoveWrite, RoleWrite, UpdateWrite, Write
  <1> QED  BY <1>1, <1>2 DEF TypeOK, Call, Idle

\* Only a removal or a demotion takes an admin away, and none but its target.
LEMMA AdminsAfterWrite ==
    ASSUME TypeOK, NEW s \in Slots, Store(s)
    PROVE  /\ req[s].op \notin {"remove", "demote"} => AdminsOf(group) \subseteq AdminsOf(group')
           /\ AdminsOf(group) \ req[s].targets \subseteq AdminsOf(group')
  <1>1. CASE AddWrite(s)
    BY <1>1, AddWrites DEF AdminsOf, Added, Participants, ParticipantsOf
  <1>2. CASE RemoveWrite(s)
    BY <1>2, RemoveWrites DEF AdminsOf
  <1>3. CASE RoleWrite(s)
    BY <1>3, RoleWrites DEF AdminsOf
  <1>4. CASE UpdateWrite(s)
    BY <1>4, UpdateWrites DEF AdminsOf
  <1> QED  BY <1>1, <1>2, <1>3, <1>4 DEF Store

\* Only an addition brings people in, and none but its targets.
LEMMA ParticipantsAfterWrite ==
    ASSUME TypeOK, NEW s \in Slots, Store(s)
    PROVE  /\ req[s].op # "add" => Participants' \subseteq Participants
           /\ Participants' \subseteq Participants \cup req[s].targets
  <1>1. CASE AddWrite(s)
    BY <1>1, AddWrites DEF Added, Participants, ParticipantsOf
  <1>2. CASE RemoveWrite(s)
    BY <1>2, RemoveWrites DEF Participants, ParticipantsOf
  <1>3. CASE RoleWrite(s)
    BY <1>3, RoleWrites DEF Participants, ParticipantsOf
  <1>4. CASE UpdateWrite(s)
    BY <1>4, UpdateWrites DEF Participants, ParticipantsOf
  <1> QED  BY <1>1, <1>2, <1>3, <1>4 DEF Store

\* Only an update changes a field.
LEMMA FieldsAfterWrite ==
    ASSUME TypeOK, NEW s \in Slots, Store(s), req[s].op # "update"
    PROVE  group'.info = group.info
  BY AddWrites, RemoveWrites, RoleWrites, UpdateWrites DEF Store

\* A smaller set of users counts no more.
LEMMA FewerUsers ==
    ASSUME NEW more \in SUBSET Users, NEW fewer \in SUBSET more,
           Cardinality(more) <= MaxParticipants
    PROVE  Cardinality(fewer) <= MaxParticipants
  <1>1. IsFiniteSet(more)
    BY MembershipAssumption, FS_Subset
  <1>2. Cardinality(fewer) <= Cardinality(more) /\ IsFiniteSet(fewer)
    BY <1>1, FS_Subset
  <1>3. Cardinality(fewer) \in Nat /\ Cardinality(more) \in Nat
    BY <1>1, <1>2, FS_CardinalityType
  <1> QED  BY <1>2, <1>3, MembershipAssumption
-----------------------------------------------------------------------------
(* Every reachable state is well typed, whichever calls overlap. *)
THEOREM TypeCorrect == Spec => []TypeOK
  <1>1. Init => TypeOK
    BY InitHolds
  <1>2. TypeOK /\ [Next]_vars => TypeOK'
    BY NextKeepsType
  <1> QED  BY <1>1, <1>2, PTL DEF Spec

(* A replayed or late addition never demotes: only a demotion that names an
   admin makes a member of them, whichever calls overlap. *)
THEOREM NeverDemotes == Spec => OnlyDemotionDemotes
  <1> DEFINE Kept == \A u \in Users :
        group.role[u] = "admin" /\ group'.role[u] = "member" =>
            \E s \in Slots : /\ req[s].pc = "write" /\ req'[s].pc = "publish"
                             /\ req[s].op = "demote" /\ u \in req[s].targets
  <1>1. ASSUME TypeOK, [Next]_vars
        PROVE  [Kept]_vars
    <2> SUFFICES ASSUME NEW u \in Users, group.role[u] = "admin", group'.role[u] = "member"
                 PROVE  \E s \in Slots : /\ req[s].pc = "write" /\ req'[s].pc = "publish"
                                         /\ req[s].op = "demote" /\ u \in req[s].targets
      OBVIOUS
    <2>1. ~ UNCHANGED group
      OBVIOUS
    <2>2. Next
      BY <1>1, <2>1 DEF vars
    <2>3. PICK s \in Slots : Store(s)
      <3>1. \A s \in Slots : Load(s) => UNCHANGED group
        BY <1>1, LoadBegins DEF Begin
      <3>2. \A s \in Slots : Publish(s) \/ Return(s) \/ Refuse(s) \/ Fail(s) => UNCHANGED group
        BY DEF Publish, Return, Refuse, Fail
      <3> QED  BY <2>1, <2>2, <3>1, <3>2 DEF Next
    <2>4. req[s].pc = "write" /\ req'[s].pc = "publish"
      BY <1>1, <2>3, WriteMoves
    <2>5. ~ AddWrite(s)
      BY <1>1, AddWrites DEF Added, Participants, ParticipantsOf
    <2>6. ~ RemoveWrite(s)
      BY <1>1, RemoveWrites
    <2>7. ~ UpdateWrite(s)
      BY <1>1, UpdateWrites
    <2>8. RoleWrite(s)
      BY <2>3, <2>5, <2>6, <2>7 DEF Store
    <2>9. req[s].op = "demote" /\ u \in req[s].targets
      BY <1>1, <2>8, RoleWrites
    <2> QED  BY <2>4, <2>9
  <1> QED  BY <1>1, TypeCorrect, PTL DEF Spec, OnlyDemotionDemotes
-----------------------------------------------------------------------------
(***************************************************************************)
(* The doors: whichever calls overlap.                                     *)
(***************************************************************************)

\* The addition a slot is about to write is of people who were let in.
Vouched(q) == q.pc = "write" /\ q.op = "add" => q.targets \subseteq letIn

\* A call that is about to spend a use has a link.
Holds(c) == c.pc \in {"group", "consume"} => c.link \in Links

\* The inductive invariant.
DoorInv ==
    /\ AdmissionTypeOK
    /\ \A s \in Slots : Holds(door[s])
    /\ \A s \in Slots : req[s] # Idle => Vouched(req[s])
    /\ LinkHonoured
    /\ NobodySlipsIn
-----------------------------------------------------------------------------
\* No call holds nothing.
LEMMA NothingHeld == Holds(Idle)
  BY DEF Holds, Idle

\* A slot that is past a step of an admission call runs one, and no other call.
LEMMA DoorIsCall ==
    ASSUME AdmissionTypeOK, NEW s \in Slots, door[s] # Idle
    PROVE  door[s] \in DoorCall /\ req[s] = Idle
  BY DEF AdmissionTypeOK

LEMMA AtIsCall ==
    ASSUME AdmissionTypeOK, NEW s \in Slots,
           NEW pc \in {"mint", "group", "queue", "consume", "ask", "decide", "resolve"},
           At(s, pc)
    PROVE  door[s] \in DoorCall /\ req[s] = Idle /\ door[s] # Idle
  <1>1. door[s] # Idle
    BY DEF At, Idle
  <1> QED  BY <1>1, DoorIsCall

\* A step that leaves the membership alone and moves one admission call.
LEMMA DoorMoves ==
    ASSUME DoorInv, NEW s \in Slots, NEW new \in {Idle} \cup DoorCall, Holds(new),
           door' = [door EXCEPT ![s] = new], req[s] = Idle,
           UNCHANGED <<group, req, view>>, calls' \in Nat, failures' \in Nat,
           invite' \in [Links -> Invite], request' \in [Users -> Statuses],
           redeemed' \in [Links -> Nat], decisions' \in [Users -> Nat],
           letIn' \subseteq Users, letIn \subseteq letIn',
           \A l \in Links : invite'[l].uses = redeemed'[l],
           LinkHonoured'
    PROVE  DoorInv'
  <1>1. door' \in [Slots -> {Idle} \cup DoorCall]
    BY DEF DoorInv, AdmissionTypeOK
  <1>2. \A t \in Slots : door'[t] = Idle \/ req'[t] = Idle
    BY DEF DoorInv, AdmissionTypeOK
  <1>3. TypeOK'
    BY DEF DoorInv, AdmissionTypeOK, TypeOK
  <1>4. AdmissionTypeOK'
    BY <1>1, <1>2, <1>3 DEF AdmissionTypeOK
  <1>5. \A t \in Slots : req'[t] # Idle => Vouched(req[t])'
    BY DEF DoorInv, Vouched
  <1>6. NobodySlipsIn'
    BY DEF DoorInv, NobodySlipsIn, Participants, ParticipantsOf
  <1>7. \A t \in Slots : Holds(door[t])'
    BY DEF DoorInv, AdmissionTypeOK, Holds
  <1> QED  BY <1>4, <1>5, <1>6, <1>7 DEF DoorInv

\* A step of an admission call that touches nothing but the call.
LEMMA DoorReads ==
    ASSUME DoorInv, NEW s \in Slots, NEW new \in {Idle} \cup DoorCall, Holds(new),
           door' = [door EXCEPT ![s] = new], req[s] = Idle,
           UNCHANGED <<group, req, view>>, calls' \in Nat, failures' \in Nat,
           UNCHANGED queue
    PROVE  DoorInv'
  <1>1. LinkHonoured'
    BY DEF DoorInv, LinkHonoured, queue
  <1>2. /\ invite' \in [Links -> Invite] /\ request' \in [Users -> Statuses]
        /\ redeemed' \in [Links -> Nat] /\ decisions' \in [Users -> Nat]
        /\ letIn' \subseteq Users /\ letIn \subseteq letIn'
        /\ \A l \in Links : invite'[l].uses = redeemed'[l]
    BY DEF DoorInv, AdmissionTypeOK, queue
  <1> QED  BY <1>1, <1>2, DoorMoves

\* A call that knocks is only read in.
LEMMA KnockKeepsDoorInv ==
    ASSUME DoorInv, NEW s \in Slots, NEW call \in DoorCall, Holds(call),
           Knock(s, call), UNCHANGED queue
    PROVE  DoorInv'
  <1>1. calls' \in Nat /\ failures' \in Nat
    BY DEF Knock, DoorInv, AdmissionTypeOK, TypeOK
  <1> QED  BY <1>1, DoorReads DEF Knock

\* The call admission makes of an admitted person, or answers one with.
Handed(pc, u, target, snap) ==
    [pc |-> pc, op |-> "add", user |-> u, targets |-> {target},
     patch |-> NoPatch, snap |-> snap, out |-> snap]

\* A call that is handed over carries somebody who was let in.
LEMMA HandOverKeepsDoorInv ==
    ASSUME DoorInv, NEW s \in Slots, NEW pc \in {"write", "return"},
           NEW u \in Users, NEW target \in Users, NEW snap \in Group,
           req' = [req EXCEPT ![s] = Handed(pc, u, target, snap)],
           door'[s] = Idle, door' \in [Slots -> {Idle} \cup DoorCall],
           \A t \in Slots : t # s => door'[t] = door[t],
           UNCHANGED <<group, view>>, calls' \in Nat, failures' \in Nat,
           invite' \in [Links -> Invite], request' \in [Users -> Statuses],
           redeemed' \in [Links -> Nat], decisions' \in [Users -> Nat],
           letIn' \subseteq Users, letIn \subseteq letIn',
           pc = "write" => target \in letIn',
           \A l \in Links : invite'[l].uses = redeemed'[l],
           LinkHonoured'
    PROVE  DoorInv'
  <1> DEFINE q == Handed(pc, u, target, snap)
  <1>1. /\ q \in Call /\ q.targets = {target} /\ q.op = "add" /\ q.pc = pc
    BY DEF Handed, Call, AllOps
  <1> HIDE DEF q
  <1>2. \A t \in Slots : req'[t] = IF t = s THEN q ELSE req[t]
    BY DEF DoorInv, AdmissionTypeOK, TypeOK, q
  <1>3. req' \in [Slots -> {Idle} \cup Call]
    BY <1>1 DEF DoorInv, AdmissionTypeOK, TypeOK, q
  <1>4. \A t \in Slots : req'[t].pc \in {"write", "publish"} =>
            (req'[t].targets = {} <=> req'[t].op = "update")
    BY <1>1, <1>2 DEF DoorInv, AdmissionTypeOK, TypeOK
  <1>5. TypeOK'
    BY <1>3, <1>4 DEF DoorInv, AdmissionTypeOK, TypeOK
  <1>6. \A t \in Slots : door'[t] = Idle \/ req'[t] = Idle
    BY <1>2 DEF DoorInv, AdmissionTypeOK
  <1>7. AdmissionTypeOK'
    BY <1>5, <1>6 DEF AdmissionTypeOK
  <1>8. \A t \in Slots : req'[t] # Idle => Vouched(req[t])'
    BY <1>1, <1>2 DEF DoorInv, Vouched
  <1>9. NobodySlipsIn'
    BY DEF DoorInv, NobodySlipsIn, Participants, ParticipantsOf
  <1>10. \A t \in Slots : Holds(door[t])'
    BY NothingHeld DEF DoorInv, Holds
  <1> QED  BY <1>7, <1>8, <1>9, <1>10 DEF DoorInv
-----------------------------------------------------------------------------
\* A call that is made without an invite is a call.
LEMMA DoorOfIsCall ==
    ASSUME AdmissionTypeOK,
           NEW pc \in {"mint", "group", "queue", "consume", "ask", "decide", "resolve"},
           NEW u \in Users, NEW target \in Users, NEW approve \in BOOLEAN
    PROVE  /\ DoorOf(pc, u, target, approve) \in DoorCall
           /\ pc \notin {"group", "consume"} => Holds(DoorOf(pc, u, target, approve))
           /\ \A l \in Links : LET c == [DoorOf(pc, u, target, approve) EXCEPT
                                            !.link = l, !.inv = invite[l]] IN
                                c \in DoorCall /\ Holds(c)
  BY DEF AdmissionTypeOK, TypeOK, DoorOf, DoorCall, NoInvite, Invite, Holds

LEMMA MintLoadKeepsDoorInv ==
    ASSUME DoorInv, NEW s \in Slots, MintLoad(s)
    PROVE  DoorInv'
  BY DoorOfIsCall, KnockKeepsDoorInv DEF MintLoad, DoorInv

LEMMA AcceptLoadKeepsDoorInv ==
    ASSUME DoorInv, NEW s \in Slots, AcceptLoad(s)
    PROVE  DoorInv'
  BY DoorOfIsCall, KnockKeepsDoorInv DEF AcceptLoad, DoorInv

LEMMA JoinLoadKeepsDoorInv ==
    ASSUME DoorInv, NEW s \in Slots, JoinLoad(s)
    PROVE  DoorInv'
  BY DoorOfIsCall, KnockKeepsDoorInv DEF JoinLoad, DoorInv

LEMMA ResolveLoadKeepsDoorInv ==
    ASSUME DoorInv, NEW s \in Slots, ResolveLoad(s)
    PROVE  DoorInv'
  BY DoorOfIsCall, KnockKeepsDoorInv DEF ResolveLoad, DoorInv

\* A fresh invite has been redeemed by nobody.
LEMMA MintKeepsDoorInv ==
    ASSUME DoorInv, NEW s \in Slots, Mint(s)
    PROVE  DoorInv'
  <1> PICK l \in Links, max \in MaxUses, approval \in BOOLEAN :
        /\ invite[l] = NoInvite
        /\ invite' = [invite EXCEPT ![l] = [NoInvite EXCEPT
                        !.state = "live", !.maxUses = max, !.approval = approval]]
    BY DEF Mint
  <1> DEFINE new == [NoInvite EXCEPT !.state = "live", !.maxUses = max, !.approval = approval]
  <1>1. new \in Invite /\ new.uses = 0 /\ new.maxUses = max
    BY DEF NoInvite, Invite
  <1>2. \A k \in Links : invite'[k] = IF k = l THEN new ELSE invite[k]
    BY DEF DoorInv, AdmissionTypeOK
  <1>3. invite[l].uses = 0
    BY DEF NoInvite
  <1> HIDE DEF new
  <1>4. invite' \in [Links -> Invite]
    BY <1>1 DEF new, DoorInv, AdmissionTypeOK
  <1>5. UNCHANGED <<request, redeemed, decisions, letIn>>
    BY DEF Mint
  <1>6. \A k \in Links : invite'[k].uses = redeemed'[k]
    BY <1>1, <1>2, <1>3, <1>5 DEF DoorInv, AdmissionTypeOK
  <1>7. max \in Nat /\ redeemed[l] = 0
    BY <1>3, AdmissionAssumption DEF DoorInv, AdmissionTypeOK
  <1>8. LinkHonoured'
    BY <1>1, <1>2, <1>5, <1>7 DEF DoorInv, LinkHonoured
  <1>9. req[s] = Idle /\ door' = [door EXCEPT ![s] = Idle] /\ UNCHANGED vars
    BY AtIsCall DEF Mint, Proceed, DoorInv
  <1> QED
    BY <1>4, <1>5, <1>6, <1>8, <1>9, NothingHeld, DoorMoves DEF DoorInv, AdmissionTypeOK, TypeOK, vars

\* The queue is read, and the call goes on or ends.
LEMMA ReadQueueKeepsDoorInv ==
    ASSUME DoorInv, NEW s \in Slots, ReadQueue(s)
    PROVE  DoorInv'
  <1>1. door[s] \in DoorCall /\ req[s] = Idle
    BY AtIsCall DEF ReadQueue, DoorInv
  <1>2. \A pc \in {"ask", "consume"} : LET c == [door[s] EXCEPT !.pc = pc] IN
            c \in DoorCall /\ (pc = "ask" \/ door[s].link # NoLink => Holds(c))
    BY <1>1 DEF DoorCall, Holds
  <1>3. \E new \in {Idle} \cup DoorCall : Holds(new) /\ Proceed(s, new)
    BY <1>2, NothingHeld DEF ReadQueue
  <1> QED
    BY <1>1, <1>3, DoorReads DEF ReadQueue, Proceed, DoorInv, AdmissionTypeOK, TypeOK, vars

LEMMA DecideKeepsDoorInv ==
    ASSUME DoorInv, NEW s \in Slots, Decide(s)
    PROVE  DoorInv'
  <1>1. door[s] \in DoorCall /\ req[s] = Idle
    BY AtIsCall DEF Decide, DoorInv
  <1>2. LET c == [door[s] EXCEPT !.pc = "resolve"] IN c \in DoorCall /\ Holds(c)
    BY <1>1 DEF DoorCall, Holds
  <1>3. \E new \in {Idle} \cup DoorCall : Holds(new) /\ Proceed(s, new)
    BY <1>2, NothingHeld DEF Decide
  <1> QED
    BY <1>1, <1>3, DoorReads DEF Decide, Proceed, DoorInv, AdmissionTypeOK, TypeOK, vars

LEMMA GiveUpKeepsDoorInv ==
    ASSUME DoorInv, NEW s \in Slots, GiveUp(s)
    PROVE  DoorInv'
  <1>1. req[s] = Idle
    BY DoorIsCall DEF GiveUp, DoorInv
  <1>2. calls' \in Nat /\ failures' \in Nat
    BY DEF GiveUp, DoorInv, AdmissionTypeOK, TypeOK
  <1> QED  BY <1>1, <1>2, NothingHeld, DoorReads DEF GiveUp

\* Filing a request lets nobody in.
LEMMA AskKeepsDoorInv ==
    ASSUME DoorInv, NEW s \in Slots, Ask(s)
    PROVE  DoorInv'
  <1>1. door[s] \in DoorCall /\ req[s] = Idle
    BY AtIsCall DEF Ask, DoorInv
  <1>2. door[s].user \in Users
    BY <1>1 DEF DoorCall
  <1>3. request' \in [Users -> Statuses] /\ decisions' \in [Users -> Nat]
    BY <1>2 DEF Ask, DoorInv, AdmissionTypeOK, Statuses
  <1>4. LinkHonoured'
    BY DEF Ask, DoorInv, LinkHonoured
  <1> QED
    BY <1>1, <1>3, <1>4, NothingHeld, DoorMoves DEF Ask, Proceed, DoorInv, AdmissionTypeOK, TypeOK, vars

\* A participant is answered, an outsider goes on with the conversation as read.
LEMMA AcceptGroupKeepsDoorInv ==
    ASSUME DoorInv, NEW s \in Slots, AcceptGroup(s)
    PROVE  DoorInv'
  <1> DEFINE q == door[s]
  <1>1. q \in DoorCall /\ req[s] = Idle
    BY AtIsCall DEF AcceptGroup, DoorInv
  <1>2. group \in Group /\ q.user \in Users
    BY <1>1 DEF DoorInv, AdmissionTypeOK, TypeOK, DoorCall
  <1>3. \A pc \in {"queue", "consume"} : LET c == [q EXCEPT !.pc = pc, !.snap = group] IN
            c \in DoorCall /\ Holds(c)
    BY <1>1, <1>2 DEF DoorCall, Holds, DoorInv, AcceptGroup, At
  <1>4. CASE AnswerJoined(s, q.user)
    <2>1. /\ req' = [req EXCEPT ![s] = Handed("return", q.user, q.user, group)]
          /\ door' = [door EXCEPT ![s] = Idle]
          /\ UNCHANGED <<group, view, calls, failures>>
      BY <1>4 DEF AnswerJoined, HandOver, Handed
    <2>2. /\ door'[s] = Idle /\ door' \in [Slots -> {Idle} \cup DoorCall]
          /\ \A t \in Slots : t # s => door'[t] = door[t]
      BY <2>1 DEF DoorInv, AdmissionTypeOK
    <2>3. UNCHANGED queue
      BY DEF AcceptGroup
    <2>4. LinkHonoured'
      BY <2>3 DEF DoorInv, LinkHonoured, queue
    <2>5. /\ invite' \in [Links -> Invite] /\ request' \in [Users -> Statuses]
          /\ redeemed' \in [Links -> Nat] /\ decisions' \in [Users -> Nat]
          /\ letIn' \subseteq Users /\ letIn \subseteq letIn'
          /\ \A l \in Links : invite'[l].uses = redeemed'[l]
          /\ calls' \in Nat /\ failures' \in Nat
      BY <2>1, <2>3 DEF DoorInv, AdmissionTypeOK, TypeOK, queue
    <2> QED  BY <1>2, <2>1, <2>2, <2>4, <2>5, HandOverKeepsDoorInv
  <1>5. CASE \E new \in {Idle} \cup DoorCall : Holds(new) /\ Proceed(s, new)
    BY <1>1, <1>5, DoorReads DEF AcceptGroup, Proceed, DoorInv, AdmissionTypeOK, TypeOK, vars
  <1> QED  BY <1>3, <1>4, <1>5, NothingHeld DEF AcceptGroup

\* An open channel lets its joiner in.
LEMMA JoinOpenKeepsDoorInv ==
    ASSUME DoorInv, NEW s \in Slots, JoinOpen(s)
    PROVE  DoorInv'
  <1> PICK u \in Users : /\ req' = [req EXCEPT ![s] = Handed("write", u, u, group)]
                         /\ letIn' = letIn \cup {u}
    BY DEF JoinOpen, Handed
  <1>1. door' = door /\ door[s] = Idle
    BY DEF JoinOpen
  <1>2. UNCHANGED <<group, view, failures, invite, request, redeemed, decisions>>
    BY DEF JoinOpen
  <1>3. LinkHonoured'
    BY <1>2 DEF DoorInv, LinkHonoured
  <1>4. group \in Group /\ calls' \in Nat /\ failures' \in Nat /\ letIn' \subseteq Users
    BY DEF DoorInv, AdmissionTypeOK, TypeOK, JoinOpen
  <1>5. /\ invite' \in [Links -> Invite] /\ request' \in [Users -> Statuses]
        /\ redeemed' \in [Links -> Nat] /\ decisions' \in [Users -> Nat]
        /\ \A l \in Links : invite'[l].uses = redeemed'[l]
        /\ door' \in [Slots -> {Idle} \cup DoorCall]
    BY <1>1, <1>2 DEF DoorInv, AdmissionTypeOK
  <1> QED  BY <1>1, <1>2, <1>3, <1>4, <1>5, HandOverKeepsDoorInv

\* A use is granted only below the limit, in the step that counts it.
LEMMA SpendingHonours ==
    ASSUME DoorInv, NEW q \in DoorCall, q.link \in Links, Grants(q),
           invite' = [invite EXCEPT ![q.link] = Spend(q)],
           redeemed' = [redeemed EXCEPT ![q.link] = @ + 1]
    PROVE  /\ invite' \in [Links -> Invite] /\ redeemed' \in [Links -> Nat]
           /\ \A l \in Links : invite'[l].uses = redeemed'[l]
           /\ LinkHonoured'
  <1> DEFINE l == q.link
  <1>1. invite[l] \in Invite /\ redeemed[l] = invite[l].uses
    BY DEF DoorInv, AdmissionTypeOK
  <1>2. /\ invite[l] \in Invite /\ invite[l].uses \in Nat /\ redeemed[l] = invite[l].uses
        /\ invite[l].maxUses \in Nat
    <2>1. \A i \in Invite : i.maxUses \in MaxUses \cup {0} /\ i.uses \in Nat
      BY DEF Invite
    <2>2. MaxUses \cup {0} \subseteq Nat
      BY AdmissionAssumption
    <2>3. \A i \in Invite : i.maxUses \in Nat /\ i.uses \in Nat
      BY <2>1, <2>2, Zenon
    <2> QED  BY <1>1, <2>3, Zenon
  <1>3. /\ Spend(q) \in Invite /\ Spend(q).uses = invite[l].uses + 1
        /\ Spend(q).maxUses = invite[l].maxUses
    BY <1>2 DEF Spend, Invite
  <1>4. \A k \in Links : /\ invite'[k] = IF k = l THEN Spend(q) ELSE invite[k]
                         /\ redeemed'[k] = IF k = l THEN redeemed[l] + 1 ELSE redeemed[k]
    BY DEF DoorInv, AdmissionTypeOK
  <1>5. invite' \in [Links -> Invite] /\ redeemed' \in [Links -> Nat]
    BY <1>2, <1>3 DEF DoorInv, AdmissionTypeOK
  <1>6. \A k \in Links : invite'[k].uses = redeemed'[k]
    BY <1>2, <1>3, <1>4 DEF DoorInv, AdmissionTypeOK
  <1>7. invite[l].maxUses # 0 => invite[l].uses < invite[l].maxUses
    BY <1>2 DEF Grants, Usable, Spent
  <1>8. LinkHonoured'
    BY <1>2, <1>3, <1>4, <1>7 DEF DoorInv, LinkHonoured
  <1> QED  BY <1>5, <1>6, <1>8

\* acceptInvite spends a use and files a request, or admits.
LEMMA ConsumeKeepsDoorInv ==
    ASSUME DoorInv, NEW s \in Slots, Consume(s)
    PROVE  DoorInv'
  <1> DEFINE q == door[s]
  <1>1. q \in DoorCall /\ req[s] = Idle
    BY AtIsCall DEF Consume, DoorInv
  <1>2. q.user \in Users /\ q.target \in Users /\ q.snap \in Group
    BY <1>1 DEF DoorCall
  <1>3. CASE Proceed(s, Idle) /\ UNCHANGED queue
    BY <1>1, <1>3, NothingHeld, DoorReads DEF Proceed, DoorInv, AdmissionTypeOK, TypeOK, vars
  <1>4. CASE /\ Grants(q)
             /\ invite' = [invite EXCEPT ![q.link] = Spend(q)]
             /\ redeemed' = [redeemed EXCEPT ![q.link] = @ + 1]
             /\ IF q.inv.approval THEN Proceed(s, [q EXCEPT !.pc = "ask"]) /\ UNCHANGED letIn
                ELSE Admit(s) /\ letIn' = letIn \cup {q.target}
             /\ UNCHANGED <<request, decisions>>
    <2>1. /\ invite' \in [Links -> Invite] /\ redeemed' \in [Links -> Nat]
          /\ \A l \in Links : invite'[l].uses = redeemed'[l]
          /\ LinkHonoured'
      BY <1>1, <1>4, SpendingHonours DEF Consume, At, DoorInv, Holds
    <2>2. /\ request' \in [Users -> Statuses] /\ decisions' \in [Users -> Nat]
          /\ letIn' \subseteq Users /\ letIn \subseteq letIn'
      BY <1>2, <1>4 DEF DoorInv, AdmissionTypeOK
    <2>3. CASE q.inv.approval
      <3>1. [q EXCEPT !.pc = "ask"] \in DoorCall /\ Holds([q EXCEPT !.pc = "ask"])
        BY <1>1 DEF DoorCall, Holds
      <3>2. Proceed(s, [q EXCEPT !.pc = "ask"])
        BY <1>4, <2>3
      <3> QED
        BY <1>1, <2>1, <2>2, <3>1, <3>2, DoorMoves
        DEF Proceed, DoorInv, AdmissionTypeOK, TypeOK, vars
    <2>4. CASE ~q.inv.approval
      <3>1. /\ req' = [req EXCEPT ![s] = Handed("write", q.user, q.target, q.snap)]
            /\ door' = [door EXCEPT ![s] = Idle]
            /\ UNCHANGED <<group, view, calls, failures>>
            /\ letIn' = letIn \cup {q.target}
        BY <1>4, <2>4 DEF Admit, HandOver, Handed
      <3>2. /\ door'[s] = Idle /\ door' \in [Slots -> {Idle} \cup DoorCall]
            /\ \A t \in Slots : t # s => door'[t] = door[t]
        BY <3>1 DEF DoorInv, AdmissionTypeOK
      <3>3. calls' \in Nat /\ failures' \in Nat
        BY <3>1 DEF DoorInv, AdmissionTypeOK, TypeOK
      <3>4. q.target \in letIn'
        BY <3>1
      <3> QED  BY <1>2, <2>1, <2>2, <3>1, <3>2, <3>3, <3>4, HandOverKeepsDoorInv
    <2> QED  BY <2>3, <2>4
  <1> QED  BY <1>3, <1>4 DEF Consume

\* An approval lets its target in, whether or not there is room.
LEMMA ResolveKeepsDoorInv ==
    ASSUME DoorInv, NEW s \in Slots, Resolve(s)
    PROVE  DoorInv'
  <1> DEFINE q == door[s]
  <1>1. q \in DoorCall /\ req[s] = Idle
    BY AtIsCall DEF Resolve, DoorInv
  <1>2. q.user \in Users /\ q.target \in Users /\ q.snap \in Group
    BY <1>1 DEF DoorCall
  <1>3. /\ invite' \in [Links -> Invite] /\ redeemed' \in [Links -> Nat]
        /\ request' \in [Users -> Statuses] /\ decisions' \in [Users -> Nat]
        /\ letIn' \subseteq Users /\ letIn \subseteq letIn'
        /\ \A l \in Links : invite'[l].uses = redeemed'[l]
    BY <1>2 DEF Resolve, DoorInv, AdmissionTypeOK, Statuses
  <1>4. LinkHonoured'
    BY DEF Resolve, DoorInv, LinkHonoured
  <1>5. CASE Proceed(s, Idle)
    BY <1>1, <1>3, <1>4, <1>5, NothingHeld, DoorMoves DEF Proceed, DoorInv, AdmissionTypeOK, TypeOK, vars
  <1>6. CASE q.approve /\ Admit(s)
    <2>1. /\ req' = [req EXCEPT ![s] = Handed("write", q.user, q.target, q.snap)]
          /\ door' = [door EXCEPT ![s] = Idle]
          /\ UNCHANGED <<group, view, calls, failures>>
          /\ q.target \in letIn'
      BY <1>6 DEF Admit, HandOver, Handed, Resolve
    <2>2. /\ door'[s] = Idle /\ door' \in [Slots -> {Idle} \cup DoorCall]
          /\ \A t \in Slots : t # s => door'[t] = door[t]
      BY <2>1 DEF DoorInv, AdmissionTypeOK
    <2>3. calls' \in Nat /\ failures' \in Nat
      BY <2>1 DEF DoorInv, AdmissionTypeOK, TypeOK
    <2> QED  BY <1>2, <1>3, <1>4, <2>1, <2>2, <2>3, HandOverKeepsDoorInv
  <1> QED  BY <1>5, <1>6 DEF Resolve

\* Membership's calls begin with whoever they add let in.
LEMMA ManageKeepsDoorInv ==
    ASSUME DoorInv, NEW s \in Slots, Manage(s)
    PROVE  DoorInv'
  <1>1. TypeOK /\ Load(s) /\ door[s] = Idle
    BY DEF DoorInv, AdmissionTypeOK, Manage
  <1> PICK pc \in {"write", "return"}, op \in AllOps, u \in Users, targets \in SUBSET Users,
           patch \in Patches \cup {NoPatch} :
        /\ Begin(s, pc, op, u, targets, patch)
        /\ pc = "write" => (targets = {} <=> op = "update")
    BY <1>1, LoadBegins
  <1> DEFINE q == [pc |-> pc, op |-> op, user |-> u, targets |-> targets, patch |-> patch,
                   snap |-> group, out |-> group]
  <1>2. TypeOK'
    BY <1>1, BeginKeepsType
  <1>3. req' = [req EXCEPT ![s] = q] /\ UNCHANGED group
    BY DEF Begin
  <1>4. \A t \in Slots : req'[t] = IF t = s THEN q ELSE req[t]
    BY <1>1, <1>3 DEF TypeOK
  <1>5. UNCHANGED <<door, invite, request, redeemed, decisions>>
    BY DEF Manage
  <1>6. letIn' = IF op = "add" THEN letIn \cup targets ELSE letIn
    BY <1>4 DEF Manage
  <1>7. letIn' \subseteq Users /\ letIn \subseteq letIn'
    BY <1>6 DEF DoorInv, AdmissionTypeOK
  <1>8. AdmissionTypeOK'
    BY <1>1, <1>2, <1>4, <1>5, <1>7 DEF DoorInv, AdmissionTypeOK
  <1>9. \A t \in Slots : req'[t] # Idle => Vouched(req[t])'
    BY <1>4, <1>6, <1>7 DEF DoorInv, Vouched
  <1>10. LinkHonoured' /\ (\A t \in Slots : Holds(door[t])')
    BY <1>5 DEF DoorInv, LinkHonoured, Holds
  <1>11. NobodySlipsIn'
    BY <1>3, <1>7 DEF DoorInv, NobodySlipsIn, Participants, ParticipantsOf
  <1> QED  BY <1>8, <1>9, <1>10, <1>11 DEF DoorInv

\* A write brings in those it was handed, and they had been let in.
LEMMA FinishKeepsDoorInv ==
    ASSUME DoorInv, NEW s \in Slots, Finish(s)
    PROVE  DoorInv'
  <1>1. TypeOK /\ UNCHANGED <<door, queue>>
    BY DEF DoorInv, AdmissionTypeOK, Finish
  <1>2. LinkHonoured' /\ (\A t \in Slots : Holds(door[t])')
    BY <1>1 DEF DoorInv, LinkHonoured, Holds, queue
  <1>3. /\ TypeOK' /\ req[s] # Idle
        /\ \A t \in Slots : t # s => req'[t] = req[t]
        /\ req'[s] # Idle => req'[s].pc # "write"
        /\ Participants' \subseteq letIn
    <2>1. CASE Store(s)
      <3>1. TypeOK'
        BY <1>1, <2>1, AddWrites, RemoveWrites, RoleWrites, UpdateWrites DEF Store
      <3>2. /\ req[s] # Idle /\ req[s].pc = "write" /\ req'[s].pc = "publish"
            /\ \A t \in Slots : t # s => req'[t] = req[t]
        BY <1>1, <2>1, WriteMoves
      <3>3. req[s].op = "add" => req[s].targets \subseteq letIn
        BY <3>2 DEF DoorInv, Vouched
      <3>4. Participants \subseteq letIn
        BY DEF DoorInv, NobodySlipsIn
      <3>5. Participants' \subseteq letIn
        BY <1>1, <2>1, <3>3, <3>4, ParticipantsAfterWrite
      <3> QED  BY <3>1, <3>2, <3>5
    <2>2. CASE Publish(s) \/ Return(s) \/ Refuse(s) \/ Fail(s)
      <3>1. TypeOK' /\ Winds(s)
        BY <1>1, <2>2, WindingDown
      <3>2. Participants' \subseteq letIn
        BY <3>1 DEF Winds, DoorInv, NobodySlipsIn, Participants, ParticipantsOf
      <3>3. PICK new \in {Idle, [req[s] EXCEPT !.pc = "return"]} : req' = [req EXCEPT ![s] = new]
        BY <3>1 DEF Winds
      <3>4. \A t \in Slots : req'[t] = IF t = s THEN new ELSE req[t]
        BY <1>1, <3>3 DEF TypeOK
      <3>5. req[s] \in Call /\ req[s] # Idle
        BY <1>1, <3>1, BusyIsCall DEF Winds
      <3>6. new # Idle => new.pc = "return"
        BY <3>5 DEF Call
      <3> QED  BY <3>1, <3>2, <3>4, <3>5, <3>6
    <2> QED  BY <2>1, <2>2 DEF Finish
  <1>4. AdmissionTypeOK'
    BY <1>1, <1>3 DEF DoorInv, AdmissionTypeOK, queue
  <1>5. \A t \in Slots : req'[t] # Idle => Vouched(req[t])'
    BY <1>1, <1>3 DEF DoorInv, Vouched, queue
  <1>6. NobodySlipsIn'
    BY <1>1, <1>3 DEF NobodySlipsIn, queue
  <1> QED  BY <1>2, <1>4, <1>5, <1>6 DEF DoorInv

\* An invite that is revoked or runs out keeps its limit and its count.
LEMMA InviteEnds ==
    ASSUME DoorInv, NEW l \in Links, Revoke(l) \/ Expire(l)
    PROVE  DoorInv'
  <1>1. UNCHANGED <<vars, door, request, redeemed, decisions, letIn>>
    BY DEF Revoke, Expire
  <1>2. invite[l] \in Invite
    BY DEF DoorInv, AdmissionTypeOK
  <1>3. PICK new \in Invite : /\ invite' = [invite EXCEPT ![l] = new]
                              /\ new.uses = invite[l].uses
                              /\ new.maxUses = invite[l].maxUses
    <2>1. CASE Revoke(l)
      <3> DEFINE new == [invite[l] EXCEPT !.state = "revoked"]
      <3>1. new \in Invite /\ new.uses = invite[l].uses /\ new.maxUses = invite[l].maxUses
        BY <1>2 DEF Invite
      <3>2. invite' = [invite EXCEPT ![l] = new]
        BY <2>1 DEF Revoke, DoorInv, AdmissionTypeOK
      <3> QED  BY <3>1, <3>2
    <2>2. CASE Expire(l)
      <3> DEFINE new == [invite[l] EXCEPT !.expired = TRUE]
      <3>1. new \in Invite /\ new.uses = invite[l].uses /\ new.maxUses = invite[l].maxUses
        BY <1>2 DEF Invite
      <3>2. invite' = [invite EXCEPT ![l] = new]
        BY <2>2 DEF Expire, DoorInv, AdmissionTypeOK
      <3> QED  BY <3>1, <3>2
    <2> QED  BY <2>1, <2>2
  <1>4. \A k \in Links : invite'[k] = IF k = l THEN new ELSE invite[k]
    BY <1>3 DEF DoorInv, AdmissionTypeOK
  <1>5. /\ invite' \in [Links -> Invite]
        /\ \A k \in Links : /\ invite'[k].uses = invite[k].uses
                            /\ invite'[k].maxUses = invite[k].maxUses
    BY <1>3, <1>4 DEF DoorInv, AdmissionTypeOK
  <1>6. TypeOK'
    BY <1>1 DEF DoorInv, AdmissionTypeOK, TypeOK, vars
  <1>7. AdmissionTypeOK'
    BY <1>1, <1>5, <1>6 DEF DoorInv, AdmissionTypeOK, vars
  <1>8. LinkHonoured'
    BY <1>1, <1>5 DEF DoorInv, LinkHonoured
  <1>9. (\A t \in Slots : Holds(door[t])') /\ (\A t \in Slots : req'[t] # Idle => Vouched(req[t])')
    BY <1>1 DEF DoorInv, Holds, Vouched, vars
  <1>10. NobodySlipsIn'
    BY <1>1 DEF DoorInv, NobodySlipsIn, Participants, ParticipantsOf, vars
  <1> QED  BY <1>7, <1>8, <1>9, <1>10 DEF DoorInv

\* At the start there is no invite, no request, no call and no stranger.
LEMMA AdmissionStarts ==
    ASSUME AdmissionInit
    PROVE  DoorInv
  <1>1. TypeOK /\ \A s \in Slots : req[s] = Idle
    BY InitHolds DEF AdmissionInit, Init
  <1>2. AdmissionTypeOK
    BY <1>1 DEF AdmissionInit, AdmissionTypeOK, NoInvite, Invite, Statuses, Participants,
                ParticipantsOf
  <1>3. LinkHonoured /\ NobodySlipsIn
    BY DEF AdmissionInit, LinkHonoured, NobodySlipsIn, NoInvite
  <1>4. \A s \in Slots : Holds(door[s])
    BY NothingHeld DEF AdmissionInit
  <1> QED  BY <1>1, <1>2, <1>3, <1>4 DEF DoorInv

\* Every step preserves the inductive invariant.
LEMMA NextKeepsDoorInv ==
    ASSUME DoorInv, [AdmissionNext]_admissionVars
    PROVE  DoorInv'
  <1>1. CASE UNCHANGED admissionVars
    <2>1. TypeOK'
      BY <1>1 DEF DoorInv, AdmissionTypeOK, TypeOK, admissionVars, vars
    <2>2. AdmissionTypeOK'
      BY <1>1, <2>1 DEF DoorInv, AdmissionTypeOK, admissionVars, vars, queue
    <2>3. LinkHonoured' /\ NobodySlipsIn'
      BY <1>1 DEF DoorInv, LinkHonoured, NobodySlipsIn, Participants, ParticipantsOf,
                  admissionVars, vars, queue
    <2>4. (\A t \in Slots : Holds(door[t])') /\ (\A t \in Slots : req'[t] # Idle => Vouched(req[t])')
      BY <1>1 DEF DoorInv, Holds, Vouched, admissionVars, vars, queue
    <2> QED  BY <2>2, <2>3, <2>4 DEF DoorInv
  <1>2. ASSUME NEW s \in Slots, Manage(s) \/ Finish(s) \/ AtTheDoor(s)
        PROVE  DoorInv'
    BY <1>2, ManageKeepsDoorInv, FinishKeepsDoorInv, MintLoadKeepsDoorInv, MintKeepsDoorInv,
       AcceptLoadKeepsDoorInv, AcceptGroupKeepsDoorInv, ConsumeKeepsDoorInv,
       JoinLoadKeepsDoorInv, JoinOpenKeepsDoorInv, ReadQueueKeepsDoorInv, AskKeepsDoorInv,
       ResolveLoadKeepsDoorInv, DecideKeepsDoorInv, ResolveKeepsDoorInv, GiveUpKeepsDoorInv
    DEF AtTheDoor
  <1>3. ASSUME NEW l \in Links, Revoke(l) \/ Expire(l)
        PROVE  DoorInv'
    BY <1>3, InviteEnds
  <1> QED  BY <1>1, <1>2, <1>3 DEF AdmissionNext
-----------------------------------------------------------------------------
(* The inductive invariant holds whichever calls overlap. *)
THEOREM DoorInvariance == AdmissionSpec => []DoorInv
  <1>1. AdmissionInit => DoorInv
    BY AdmissionStarts
  <1>2. DoorInv /\ [AdmissionNext]_admissionVars => DoorInv'
    BY NextKeepsDoorInv
  <1> QED  BY <1>1, <1>2, PTL DEF AdmissionSpec

(* Every reachable state is well typed, and an invite's use count is the number
   of redemptions it granted, however its redemptions overlap. *)
THEOREM AdmissionTypeCorrect == AdmissionSpec => []AdmissionTypeOK
  <1>1. DoorInv => AdmissionTypeOK
    BY DEF DoorInv
  <1> QED  BY <1>1, DoorInvariance, PTL

(* ADR 0019 par. 2: an invite is never redeemed more often than its limit says,
   however many calls read it while it was usable. *)
THEOREM LinkCorrect == AdmissionSpec => []LinkHonoured
  <1>1. DoorInv => LinkHonoured
    BY DEF DoorInv
  <1> QED  BY <1>1, DoorInvariance, PTL

(* ADR 0019 par. 4: nobody becomes a participant whom no admin added or
   approved, no link was spent for, and no open channel took. *)
THEOREM NoIntruders == AdmissionSpec => []NobodySlipsIn
  <1>1. DoorInv => NobodySlipsIn
    BY DEF DoorInv
  <1> QED  BY <1>1, DoorInvariance, PTL
-----------------------------------------------------------------------------
(***************************************************************************)
(* What a step of the whole does to the calls and to the doors.            *)
(***************************************************************************)

\* A call is handed over to the group: somebody is answered, is taken by an open
\* channel, or comes in by a link that was spent or a request that was approved.
Hands(s, pc, u, target, snap) ==
    /\ UNCHANGED <<group, view, failures>>
    /\ req[s] = Idle
    /\ req' = [req EXCEPT ![s] = Handed(pc, u, target, snap)]
    /\ door'[s] = Idle
    /\ \A t \in Slots : t # s => door'[t] = door[t]
    /\ \/ pc = "return" /\ u \in Participants /\ target = u /\ snap = group
       \/ pc = "write" /\ target = u /\ HasRoom(group)
       \/ /\ pc = "write" /\ MayAdmit(door[s]) /\ u = door[s].user /\ target = door[s].target
          /\ door[s].pc # "consume" => HasRoom(door[s].snap)

\* The calls: nothing moves, or one is made, writes, winds down or is handed over.
LEMMA CallSteps ==
    ASSUME DoorInv, [AdmissionNext]_admissionVars
    PROVE  \/ UNCHANGED <<group, req, view>> /\ (failures' = 0 => failures = 0)
           \/ \E s \in Slots : Load(s) /\ door' = door
           \/ \E s \in Slots : Store(s) /\ door' = door
           \/ \E s \in Slots : /\ Publish(s) \/ Return(s) \/ Refuse(s) \/ Fail(s)
                               /\ door' = door
           \/ \E s \in Slots, pc \in {"write", "return"}, u, target \in Users, snap \in Group :
                Hands(s, pc, u, target, snap)
  <1>1. CASE UNCHANGED admissionVars
    BY <1>1 DEF admissionVars, vars
  <1>2. ASSUME NEW l \in Links, Revoke(l) \/ Expire(l)
        PROVE  UNCHANGED <<group, req, view, failures>>
    BY <1>2 DEF Revoke, Expire, vars
  <1>3. ASSUME NEW s \in Slots, MintLoad(s) \/ Mint(s) \/ AcceptLoad(s) \/ JoinLoad(s)
                    \/ ReadQueue(s) \/ Ask(s) \/ ResolveLoad(s) \/ Decide(s)
        PROVE  UNCHANGED <<group, req, view, failures>>
    BY <1>3 DEF MintLoad, Mint, AcceptLoad, JoinLoad, ReadQueue, Ask, ResolveLoad, Decide, Knock,
                Proceed, vars
  <1>4. ASSUME NEW s \in Slots, GiveUp(s)
        PROVE  UNCHANGED <<group, req, view>> /\ (failures' = 0 => failures = 0)
    BY <1>4 DEF GiveUp, DoorInv, AdmissionTypeOK, TypeOK
  <1>5. ASSUME NEW s \in Slots, Manage(s)  PROVE Load(s) /\ door' = door
    BY <1>5 DEF Manage
  <1>6. ASSUME NEW s \in Slots, Finish(s)
        PROVE  /\ Store(s) \/ Publish(s) \/ Return(s) \/ Refuse(s) \/ Fail(s)
               /\ door' = door
    BY <1>6 DEF Finish
  <1>7. ASSUME NEW s \in Slots, JoinOpen(s)
        PROVE  \E u \in Users : Hands(s, "write", u, u, group)
    BY <1>7 DEF JoinOpen, Hands, Handed, DoorInv, AdmissionTypeOK
  <1>8. ASSUME NEW s \in Slots, AcceptGroup(s) \/ Consume(s) \/ Resolve(s)
        PROVE  \/ UNCHANGED <<group, req, view, failures>>
               \/ \E pc \in {"write", "return"}, u, target \in Users, snap \in Group :
                    Hands(s, pc, u, target, snap)
    <2>1. door[s] \in DoorCall /\ req[s] = Idle /\ group \in Group
      BY <1>8, AtIsCall DEF DoorInv, AdmissionTypeOK, TypeOK, AcceptGroup, Consume, Resolve
    <2>2. door[s].user \in Users /\ door[s].target \in Users /\ door[s].snap \in Group
      BY <2>1 DEF DoorCall
    <2>3. door' = [door EXCEPT ![s] = Idle] =>
            door'[s] = Idle /\ \A t \in Slots : t # s => door'[t] = door[t]
      BY DEF DoorInv, AdmissionTypeOK
    <2>4. CASE AlreadyIn(door[s].user) /\ AnswerJoined(s, door[s].user)
      BY <2>1, <2>2, <2>3, <2>4 DEF AnswerJoined, HandOver, Hands, Handed, AlreadyIn
    <2>5. CASE Consume(s) /\ ~door[s].inv.approval /\ Admit(s)
      <3>1. MayAdmit(door[s]) /\ door[s].pc = "consume"
        BY <2>5 DEF MayAdmit, Consume, At
      <3> QED  BY <2>1, <2>2, <2>3, <2>5, <3>1 DEF Admit, HandOver, Hands, Handed
    <2>6. CASE Resolve(s) /\ door[s].approve /\ HasRoom(door[s].snap) /\ Admit(s)
      <3>1. MayAdmit(door[s])
        BY <2>6 DEF MayAdmit, Resolve, At
      <3> QED  BY <2>1, <2>2, <2>3, <2>6, <3>1 DEF Admit, HandOver, Hands, Handed
    <2>7. CASE UNCHANGED vars
      BY <2>7 DEF vars
    <2> QED  BY <1>8, <2>4, <2>5, <2>6, <2>7 DEF AcceptGroup, Consume, Resolve, Proceed
  <1>9. CASE \E s \in Slots : Manage(s) \/ Finish(s)
    BY <1>5, <1>6, <1>9, Zenon
  <1>10. CASE \E s \in Slots : AtTheDoor(s)
    <2> PICK s \in Slots : AtTheDoor(s)
      BY <1>10
    <2>1. CASE JoinOpen(s)
      <3>1. group \in Group
        BY DEF DoorInv, AdmissionTypeOK, TypeOK
      <3> QED  BY <1>7, <2>1, <3>1, Zenon
    <2>2. CASE GiveUp(s)
      BY <1>4, <2>2, Zenon
    <2>3. CASE AcceptGroup(s) \/ Consume(s) \/ Resolve(s)
      BY <1>8, <2>3
    <2>4. CASE MintLoad(s) \/ Mint(s) \/ AcceptLoad(s) \/ JoinLoad(s)
               \/ ReadQueue(s) \/ Ask(s) \/ ResolveLoad(s) \/ Decide(s)
      BY <1>3, <2>4
    <2> QED  BY <2>1, <2>2, <2>3, <2>4 DEF AtTheDoor
  <1> QED  BY <1>1, <1>2, <1>9, <1>10 DEF AdmissionNext

\* A call that knocks has read the group; a joiner is outside, a decider manages.
Enters(c) ==
    /\ c.snap = group
    /\ \/ c.pc = "mint"
       \/ c.pc = "group" /\ c.target = c.user
       \/ c.pc = "queue" /\ c.target = c.user /\ c.link = NoLink /\ c.user \notin Participants
       \/ c.pc = "decide" /\ Manages(c.user)

\* A call at the door that goes on is about the same, and has checked what it must.
GoesOn(q, c) ==
    /\ c.user = q.user /\ c.target = q.target /\ c.link = q.link /\ c.inv = q.inv
    /\ c.approve = q.approve
    /\ \/ /\ q.pc = "group" /\ c.pc = "queue"
          /\ q.inv.approval /\ q.user \notin Participants
       \/ /\ q.pc = "group" /\ c.pc = "consume" /\ c.snap = group
          /\ ~q.inv.approval /\ q.user \notin Participants /\ HasRoom(group)
       \/ /\ q.pc = "queue" /\ c.pc = "consume" /\ c.snap = q.snap
          /\ q.link # NoLink /\ request[q.user] # "pending"
       \/ q.pc \in {"queue", "consume"} /\ c.pc = "ask"
       \/ /\ q.pc = "decide" /\ c.pc = "resolve" /\ c.snap = q.snap
          /\ request[q.target] = "pending"

LEMMA DoorSteps ==
    ASSUME DoorInv, [AdmissionNext]_admissionVars, NEW t \in Slots,
           door'[t] # door[t], door'[t] # Idle
    PROVE  /\ UNCHANGED <<group, req, view, request>>
           /\ \/ Enters(door'[t])
              \/ door[t] \in DoorCall /\ GoesOn(door[t], door'[t])
  <1>0. AdmissionTypeOK /\ group \in Group
    BY DEF DoorInv, AdmissionTypeOK, TypeOK
  <1>1. ~ UNCHANGED door
    OBVIOUS
  <1>2. PICK s \in Slots : AtTheDoor(s)
    BY <1>1 DEF AdmissionNext, admissionVars, Manage, Finish, Revoke, Expire
  <1>3. ASSUME NEW new, door' = [door EXCEPT ![s] = new]
        PROVE  t = s /\ door'[t] = new
    BY <1>0, <1>3 DEF AdmissionTypeOK
  <1>4. CASE MintLoad(s) \/ AcceptLoad(s) \/ JoinLoad(s) \/ ResolveLoad(s)
    <2>1. ASSUME NEW call, Knock(s, call), UNCHANGED queue
          PROVE  UNCHANGED <<group, req, view, request>> /\ door'[t] = call
      BY <1>3, <2>1 DEF Knock, queue
    <2>2. CASE MintLoad(s)
      BY <2>1, <2>2 DEF MintLoad, Enters, DoorOf
    <2>3. CASE AcceptLoad(s)
      <3> PICK u \in Users, l \in Links :
            Knock(s, [DoorOf("group", u, u, FALSE) EXCEPT !.link = l, !.inv = invite[l]])
        BY <2>3 DEF AcceptLoad
      <3> DEFINE c == [DoorOf("group", u, u, FALSE) EXCEPT !.link = l, !.inv = invite[l]]
      <3>1. c.pc = "group" /\ c.user = u /\ c.target = u /\ c.snap = group
        BY DEF DoorOf
      <3>2. UNCHANGED <<group, req, view, request>> /\ door'[t] = c
        BY <2>1, <2>3 DEF AcceptLoad
      <3> QED  BY <3>1, <3>2 DEF Enters
    <2>4. CASE JoinLoad(s)
      BY <2>1, <2>4 DEF JoinLoad, Enters, DoorOf
    <2>5. CASE ResolveLoad(s)
      BY <2>1, <2>5 DEF ResolveLoad, Enters, DoorOf
    <2> QED  BY <1>4, <2>2, <2>3, <2>4, <2>5
  <1>5. CASE Mint(s) \/ Ask(s) \/ GiveUp(s) \/ Resolve(s) \/ JoinOpen(s)
    BY <1>1, <1>3, <1>5 DEF Mint, Ask, GiveUp, Resolve, JoinOpen, Proceed, Admit, HandOver
  <1>6. CASE AcceptGroup(s) \/ ReadQueue(s) \/ Consume(s) \/ Decide(s)
    <2> DEFINE q == door[s]
    <2>1. q \in DoorCall
      BY <1>0, <1>6, AtIsCall DEF AcceptGroup, ReadQueue, Consume, Decide
    <2>2. /\ q.pc = "group" <=> AcceptGroup(s)
          /\ q.pc = "queue" <=> ReadQueue(s)
          /\ q.pc = "consume" <=> Consume(s)
          /\ q.pc = "decide" <=> Decide(s)
      BY <1>6 DEF AcceptGroup, ReadQueue, Consume, Decide, At
    <2>3. ASSUME NEW new, Proceed(s, new)
          PROVE  t = s /\ door'[t] = new /\ UNCHANGED <<group, req, view>>
      BY <1>3, <2>3 DEF Proceed, vars
    <2>4. request' = request
      BY <1>6 DEF AcceptGroup, ReadQueue, Consume, Decide, queue
    <2>5. \A pc \in {"queue", "consume"} :
            LET c == [q EXCEPT !.pc = pc, !.snap = group] IN
            /\ c.user = q.user /\ c.target = q.target /\ c.link = q.link /\ c.inv = q.inv
            /\ c.approve = q.approve /\ c.pc = pc /\ c.snap = group
      BY <2>1 DEF DoorCall
    <2>6. \A pc \in {"consume", "ask", "resolve"} :
            LET c == [q EXCEPT !.pc = pc] IN
            /\ c.user = q.user /\ c.target = q.target /\ c.link = q.link /\ c.inv = q.inv
            /\ c.approve = q.approve /\ c.pc = pc /\ c.snap = q.snap
      BY <2>1 DEF DoorCall
    <2>7. ~ Proceed(s, Idle) /\ ~ (door' = [door EXCEPT ![s] = Idle])
      BY <1>3, <2>3
    <2>8. CASE AcceptGroup(s)
      <3>1. CASE ~AlreadyIn(q.user) /\ q.inv.approval
                 /\ Proceed(s, [q EXCEPT !.pc = "queue", !.snap = group])
        BY <2>1, <2>2, <2>3, <2>4, <2>5, <2>8, <3>1 DEF GoesOn, AlreadyIn
      <3>2. CASE ~AlreadyIn(q.user) /\ ~q.inv.approval /\ HasRoom(group)
                 /\ Proceed(s, [q EXCEPT !.pc = "consume", !.snap = group])
        BY <2>1, <2>2, <2>3, <2>4, <2>5, <2>8, <3>2 DEF GoesOn, AlreadyIn
      <3> QED  BY <2>7, <2>8, <3>1, <3>2 DEF AcceptGroup, AnswerJoined, HandOver
    <2>9. CASE ReadQueue(s)
      <3>1. CASE request[q.user] # "pending" /\ q.link # NoLink
                 /\ Proceed(s, [q EXCEPT !.pc = "consume"])
        BY <2>1, <2>2, <2>3, <2>4, <2>6, <2>9, <3>1 DEF GoesOn
      <3>2. CASE Proceed(s, [q EXCEPT !.pc = "ask"])
        BY <2>1, <2>2, <2>3, <2>4, <2>6, <2>9, <3>2 DEF GoesOn
      <3> QED  BY <2>7, <2>9, <3>1, <3>2 DEF ReadQueue
    <2>10. CASE Consume(s)
      <3>1. CASE Proceed(s, [q EXCEPT !.pc = "ask"])
        BY <2>1, <2>2, <2>3, <2>4, <2>6, <2>10, <3>1 DEF GoesOn
      <3> QED  BY <2>7, <2>10, <3>1 DEF Consume, Admit, HandOver
    <2>11. CASE Decide(s)
      <3>1. CASE MayDecide(q) /\ Proceed(s, [q EXCEPT !.pc = "resolve"])
        BY <2>1, <2>2, <2>3, <2>4, <2>6, <2>11, <3>1 DEF GoesOn, MayDecide
      <3> QED  BY <2>7, <2>11, <3>1 DEF Decide
    <2> QED  BY <1>6, <2>8, <2>9, <2>10, <2>11
  <1> QED  BY <1>2, <1>4, <1>5, <1>6 DEF AtTheDoor
-----------------------------------------------------------------------------
(***************************************************************************)
(* Which calls have overlapped.                                            *)
(***************************************************************************)

Apart(class) ==
    \A s, t \in Slots : s # t /\ InFlight(s, class) => ~InFlight(t, class)

Singly(u) == \A s, t \in Slots : s # t /\ BringsIn(s, u) => ~BringsIn(t, u)

\* A call at the door that reads the queue with a link is one for approval, and
\* whoever redeems a link or asks does so for themselves.
Shaped(c) ==
    /\ c.pc = "queue" /\ c.link # NoLink => c.inv.approval
    /\ c.pc \in {"group", "queue", "consume", "ask"} => c.target = c.user

\* The histories miss no overlap.
Noted ==
    /\ DoorInv
    /\ \A s \in Slots : Shaped(door[s])
    /\ \A class \in Classes : class \notin crossed => Apart(class)
    /\ \A u \in Users : u \notin doubled => Singly(u)

LEMMA DoorsKeepShape ==
    ASSUME DoorInv, \A s \in Slots : Shaped(door[s]), [AdmissionNext]_admissionVars,
           NEW t \in Slots
    PROVE  Shaped(door[t])'
  <1>1. CASE door'[t] = door[t]
    BY <1>1 DEF Shaped
  <1>2. CASE door'[t] = Idle
    BY <1>2 DEF Shaped, Idle
  <1>3. CASE door'[t] # door[t] /\ door'[t] # Idle
    BY <1>3, DoorSteps DEF Enters, GoesOn, Shaped
  <1> QED  BY <1>1, <1>2, <1>3

LEMMA OverlapsAreNoted ==
    ASSUME Noted, [OverlapsNext]_overlapsVars
    PROVE  /\ Noted' /\ [AdmissionNext]_admissionVars
           /\ crossed \subseteq crossed' /\ doubled \subseteq doubled'
  <1>1. [AdmissionNext]_admissionVars /\ crossed \subseteq crossed' /\ doubled \subseteq doubled'
    BY DEF OverlapsNext, overlapsVars
  <1>2. DoorInv' /\ \A t \in Slots : Shaped(door[t])'
    BY <1>1, NextKeepsDoorInv, DoorsKeepShape DEF Noted
  <1>3. ASSUME NEW class \in Classes, class \notin crossed'
        PROVE  Apart(class)'
    <2>1. CASE OverlapsNext
      BY <1>3, <2>1 DEF OverlapsNext, Crossing, Apart
    <2>2. CASE UNCHANGED overlapsVars
      <3>1. UNCHANGED <<req, door, crossed>>
        BY <2>2 DEF overlapsVars, admissionVars, vars
      <3> QED  BY <1>3, <3>1 DEF Noted, Apart, InFlight
    <2> QED  BY <2>1, <2>2
  <1>4. ASSUME NEW u \in Users, u \notin doubled'
        PROVE  Singly(u)'
    <2>1. CASE OverlapsNext
      BY <1>4, <2>1 DEF OverlapsNext, Doubling, Singly
    <2>2. CASE UNCHANGED overlapsVars
      <3>1. UNCHANGED <<req, door, doubled>>
        BY <2>2 DEF overlapsVars, admissionVars, vars
      <3> QED  BY <1>4, <3>1 DEF Noted, Singly, BringsIn
    <2> QED  BY <2>1, <2>2
  <1> QED  BY <1>1, <1>2, <1>3, <1>4 DEF Noted

LEMMA OverlapsStart ==
    ASSUME OverlapsInit
    PROVE  Noted
  <1>1. \A s \in Slots : req[s] = Idle /\ door[s] = Idle
    BY DEF OverlapsInit, AdmissionInit, Init
  <1>2. \A s \in Slots, class \in Classes : ~InFlight(s, class)
    BY <1>1 DEF InFlight, MayAdmit, Idle
  <1>3. \A s \in Slots, u \in Users : ~BringsIn(s, u)
    BY <1>1 DEF BringsIn, Idle
  <1>4. \A s \in Slots : Shaped(door[s])
    BY <1>1 DEF Shaped, Idle
  <1> QED  BY <1>2, <1>3, <1>4, AdmissionStarts DEF OverlapsInit, Noted, Apart, Singly
-----------------------------------------------------------------------------
(***************************************************************************)
(* What the calls of a class have checked, where no two have overlapped.   *)
(***************************************************************************)

\* A removal or a demotion that is about to be written leaves an admin.
LeavesAdmin(q) ==
    q.pc = "write" /\ q.op \in {"remove", "demote"} => AdminsOf(group) \ q.targets # {}

ShrinkInv ==
    "shrink" \notin crossed => AtLeastOneAdmin /\ \A s \in Slots : LeavesAdmin(req[s])

\* Newcomers that are about to be written fit in.
FitIn(q) ==
    q.pc = "write" /\ q.op = "add" => Cardinality(Participants \cup q.targets) <= MaxParticipants

\* Nobody has come in since an admission read the group, and it spends a use
\* only with room for one more.
HasRead(c) ==
    MayAdmit(c) => /\ Participants \subseteq ParticipantsOf(c.snap)
                   /\ c.pc = "consume" => HasRoom(c.snap)

GrowInv ==
    "grow" \notin crossed =>
        /\ GroupWithinLimit
        /\ \A s \in Slots : FitIn(req[s]) /\ HasRead(door[s])

\* The fields an update was not given are as it read them.
ReadsFields(q) ==
    q.pc = "write" /\ q.op = "update" =>
        \A f \in Fields \ DOMAIN q.patch : q.snap.info[f] = group.info[f]

UpdateInv == "update" \notin crossed => \A s \in Slots : ReadsFields(req[s])

\* A call that starts: its place in req, and what it was checked for.
LEMMA LoadMoves ==
    ASSUME TypeOK, NEW s \in Slots, Load(s)
    PROVE  /\ UNCHANGED <<group, view, failures>>
           /\ \A t \in Slots : t # s => req'[t] = req[t]
           /\ req[s] = Idle /\ req'[s] \in Call /\ req'[s] # Idle
           /\ req'[s].pc \in {"write", "return"}
           /\ req'[s].snap = group /\ req'[s].out = group
           /\ LeavesAdmin(req'[s]) /\ FitIn(req'[s])
  <1> PICK pc \in {"write", "return"}, op \in AllOps, u \in Users,
           targets \in SUBSET Users, patch \in Patches \cup {NoPatch} :
        /\ Begin(s, pc, op, u, targets, patch)
        /\ pc = "write" /\ op \in {"remove", "demote"} => AdminsOf(group) \ targets # {}
        /\ pc = "write" /\ op = "add" =>
                Cardinality(Participants \cup targets) <= MaxParticipants
    BY LoadBegins
  <1>1. PICK q \in Call :
            /\ q = [pc |-> pc, op |-> op, user |-> u, targets |-> targets, patch |-> patch,
                    snap |-> group, out |-> group]
            /\ q.pc = pc /\ q.op = op /\ q.targets = targets /\ q.snap = group /\ q.out = group
    <2> DEFINE q == [pc |-> pc, op |-> op, user |-> u, targets |-> targets, patch |-> patch,
                     snap |-> group, out |-> group]
    <2>1. q \in Call
      BY DEF TypeOK, Call
    <2>2. /\ q.pc = pc /\ q.op = op /\ q.targets = targets /\ q.snap = group /\ q.out = group
      OBVIOUS
    <2> QED  BY <2>1, <2>2, Zenon
  <1>2. /\ req' = [req EXCEPT ![s] = q] /\ UNCHANGED <<group, view, failures>>
        /\ req[s] = Idle
    BY <1>1 DEF Begin
  <1>3. req'[s] = q /\ \A t \in Slots : t # s => req'[t] = req[t]
    BY <1>2 DEF TypeOK
  <1>4. q # Idle
    BY <1>1 DEF Idle
  <1> QED  BY <1>1, <1>2, <1>3, <1>4 DEF LeavesAdmin, FitIn

\* A call that winds down is not about to write any more.
LEMMA WindingMoves ==
    ASSUME TypeOK, NEW s \in Slots, Publish(s) \/ Return(s) \/ Refuse(s) \/ Fail(s)
    PROVE  /\ UNCHANGED group
           /\ \A t \in Slots : req'[t] = req[t] \/ req'[t].pc # "write"
  <1>1. Winds(s) /\ req[s] \in Call
    BY WindingDown, BusyIsCall DEF Winds
  <1> PICK new \in {Idle, [req[s] EXCEPT !.pc = "return"]} : req' = [req EXCEPT ![s] = new]
    BY <1>1 DEF Winds
  <1>2. \A t \in Slots : req'[t] = IF t = s THEN new ELSE req[t]
    BY DEF TypeOK
  <1>3. new.pc # "write"
    BY <1>1 DEF Call, Idle
  <1> QED  BY <1>1, <1>2, <1>3 DEF Winds

\* A call that is handed over is an addition of one.
LEMMA HandingMoves ==
    ASSUME TypeOK, NEW s \in Slots, NEW pc, NEW u, NEW target, NEW snap,
           Hands(s, pc, u, target, snap)
    PROVE  /\ req'[s].op = "add" /\ req'[s].pc = pc /\ req'[s].targets = {target}
           /\ \A t \in Slots : t # s => req'[t] = req[t]
  BY DEF Hands, Handed, TypeOK

LEMMA StepKeepsShrink ==
    ASSUME Noted, ShrinkInv, [OverlapsNext]_overlapsVars
    PROVE  ShrinkInv'
  <1> SUFFICES ASSUME "shrink" \notin crossed'
               PROVE  AtLeastOneAdmin' /\ \A t \in Slots : LeavesAdmin(req[t])'
    BY DEF ShrinkInv
  <1>1. /\ [AdmissionNext]_admissionVars /\ DoorInv /\ TypeOK /\ Apart("shrink")
        /\ AtLeastOneAdmin /\ \A t \in Slots : LeavesAdmin(req[t])
    BY OverlapsAreNoted DEF Noted, Classes, DoorInv, AdmissionTypeOK, ShrinkInv
  <1>2. ASSUME UNCHANGED group,
               \A t \in Slots : \/ req'[t] = req[t] \/ req'[t].pc # "write"
                                \/ req'[t].op \notin {"remove", "demote"} \/ LeavesAdmin(req'[t])
        PROVE  AtLeastOneAdmin' /\ \A t \in Slots : LeavesAdmin(req[t])'
    BY <1>1, <1>2 DEF AtLeastOneAdmin, LeavesAdmin, AdminsOf
  <1>3. CASE UNCHANGED <<group, req, view>>
    BY <1>2, <1>3
  <1>4. ASSUME NEW s \in Slots, Load(s)
        PROVE  AtLeastOneAdmin' /\ \A t \in Slots : LeavesAdmin(req[t])'
    BY <1>1, <1>2, <1>4, LoadMoves
  <1>5. ASSUME NEW s \in Slots, Publish(s) \/ Return(s) \/ Refuse(s) \/ Fail(s)
        PROVE  AtLeastOneAdmin' /\ \A t \in Slots : LeavesAdmin(req[t])'
    BY <1>1, <1>2, <1>5, WindingMoves
  <1>6. ASSUME NEW s \in Slots, NEW pc, NEW u, NEW target, NEW snap,
               Hands(s, pc, u, target, snap)
        PROVE  AtLeastOneAdmin' /\ \A t \in Slots : LeavesAdmin(req[t])'
    <2>1. /\ UNCHANGED group
          /\ \A t \in Slots : req'[t] = req[t] \/ req'[t].op = "add"
      BY <1>1, <1>6, HandingMoves DEF Hands
    <2> QED  BY <1>2, <2>1
  <1>7. ASSUME NEW s \in Slots, Store(s)
        PROVE  AtLeastOneAdmin' /\ \A t \in Slots : LeavesAdmin(req[t])'
    <2>1. /\ req[s].pc = "write" /\ req'[s].pc = "publish"
          /\ \A t \in Slots : t # s => req'[t] = req[t]
      BY <1>1, <1>7, WriteMoves
    <2>2. /\ req[s].op \notin {"remove", "demote"} => AdminsOf(group) \subseteq AdminsOf(group')
          /\ AdminsOf(group) \ req[s].targets \subseteq AdminsOf(group')
      BY <1>1, <1>7, AdminsAfterWrite
    <2>3. AdminsOf(group') # {}
      BY <1>1, <2>1, <2>2 DEF AtLeastOneAdmin, LeavesAdmin
    <2>4. ASSUME NEW t \in Slots, t # s, req[t].pc = "write", req[t].op \in {"remove", "demote"}
          PROVE  AdminsOf(group') \ req[t].targets # {}
      <3>1. req[s].op \notin {"remove", "demote"}
        BY <1>1, <2>1, <2>4 DEF Apart, InFlight, ClassOf
      <3> QED  BY <1>1, <2>2, <2>4, <3>1 DEF LeavesAdmin
    <2> QED  BY <2>1, <2>3, <2>4 DEF AtLeastOneAdmin, LeavesAdmin
  <1> QED  BY <1>1, <1>3, <1>4, <1>5, <1>6, <1>7, CallSteps

LEMMA StepKeepsUpdate ==
    ASSUME Noted, UpdateInv, [OverlapsNext]_overlapsVars
    PROVE  UpdateInv'
  <1> SUFFICES ASSUME "update" \notin crossed'
               PROVE  \A t \in Slots : ReadsFields(req[t])'
    BY DEF UpdateInv
  <1>1. /\ [AdmissionNext]_admissionVars /\ DoorInv /\ TypeOK /\ Apart("update")
        /\ \A t \in Slots : ReadsFields(req[t])
    BY OverlapsAreNoted DEF Noted, Classes, DoorInv, AdmissionTypeOK, UpdateInv
  <1>2. ASSUME UNCHANGED group,
               \A t \in Slots : \/ req'[t] = req[t] \/ req'[t].pc # "write"
                                \/ req'[t].op # "update" \/ req'[t].snap = group
        PROVE  \A t \in Slots : ReadsFields(req[t])'
    BY <1>1, <1>2 DEF ReadsFields
  <1>3. CASE UNCHANGED <<group, req, view>>
    BY <1>2, <1>3
  <1>4. ASSUME NEW s \in Slots, Load(s)
        PROVE  \A t \in Slots : ReadsFields(req[t])'
    BY <1>1, <1>2, <1>4, LoadMoves
  <1>5. ASSUME NEW s \in Slots, Publish(s) \/ Return(s) \/ Refuse(s) \/ Fail(s)
        PROVE  \A t \in Slots : ReadsFields(req[t])'
    BY <1>1, <1>2, <1>5, WindingMoves
  <1>6. ASSUME NEW s \in Slots, NEW pc, NEW u, NEW target, NEW snap,
               Hands(s, pc, u, target, snap)
        PROVE  \A t \in Slots : ReadsFields(req[t])'
    <2>1. /\ UNCHANGED group
          /\ \A t \in Slots : req'[t] = req[t] \/ req'[t].op = "add"
      BY <1>1, <1>6, HandingMoves DEF Hands
    <2> QED  BY <1>2, <2>1
  <1>7. ASSUME NEW s \in Slots, Store(s)
        PROVE  \A t \in Slots : ReadsFields(req[t])'
    <2>1. /\ req[s].pc = "write" /\ req'[s].pc = "publish"
          /\ \A t \in Slots : t # s => req'[t] = req[t]
      BY <1>1, <1>7, WriteMoves
    <2>2. ASSUME NEW t \in Slots, t # s, req[t].pc = "write", req[t].op = "update"
          PROVE  group'.info = group.info
      <3>1. req[s].op # "update"
        BY <1>1, <2>1, <2>2 DEF Apart, InFlight, ClassOf
      <3> QED  BY <1>1, <1>7, <3>1, FieldsAfterWrite
    <2> QED  BY <1>1, <2>1, <2>2 DEF ReadsFields
  <1> QED  BY <1>1, <1>3, <1>4, <1>5, <1>6, <1>7, CallSteps

\* One more than those in fits in where the group had room when it was read.
LEMMA OneMore ==
    ASSUME NEW g \in Group, HasRoom(g), NEW target, NEW in \in SUBSET ParticipantsOf(g)
    PROVE  Cardinality(in \cup {target}) <= MaxParticipants
  <1>1. IsFiniteSet(ParticipantsOf(g)) /\ IsFiniteSet(in)
    BY MembershipAssumption, FS_Subset DEF ParticipantsOf
  <1>2. /\ Cardinality(in) \in Nat /\ Cardinality(ParticipantsOf(g)) \in Nat
        /\ Cardinality(in) <= Cardinality(ParticipantsOf(g))
    BY <1>1, FS_CardinalityType, FS_Subset
  <1>3. Cardinality(in \cup {target}) \in {Cardinality(in), Cardinality(in) + 1}
    BY <1>1, <1>2, FS_AddElement
  <1> QED  BY <1>2, <1>3, MembershipAssumption DEF HasRoom

\* Whoever goes on at the door has read the group as it was.
LEMMA DoorsKeepReading ==
    ASSUME DoorInv, \A s \in Slots : Shaped(door[s]), [AdmissionNext]_admissionVars,
           \A s \in Slots : HasRead(door[s]), NEW t \in Slots, door'[t] # door[t]
    PROVE  HasRead(door[t])'
  <1>1. CASE door'[t] = Idle
    BY <1>1 DEF HasRead, MayAdmit, Idle
  <1>2. CASE door'[t] # Idle
    <2>1. UNCHANGED group /\ (Enters(door'[t]) \/ GoesOn(door[t], door'[t]))
      BY <1>2, DoorSteps
    <2>2. HasRead(door'[t])
      BY <2>1 DEF Enters, GoesOn, HasRead, MayAdmit, Shaped, Participants
    <2> QED  BY <2>1, <2>2 DEF HasRead, Participants, ParticipantsOf
  <1> QED  BY <1>1, <1>2

LEMMA StepKeepsGrow ==
    ASSUME Noted, GrowInv, [OverlapsNext]_overlapsVars
    PROVE  GrowInv'
  <1> SUFFICES ASSUME "grow" \notin crossed'
               PROVE  /\ GroupWithinLimit'
                      /\ \A t \in Slots : FitIn(req[t])' /\ HasRead(door[t])'
    BY DEF GrowInv
  <1>1. /\ [AdmissionNext]_admissionVars /\ DoorInv /\ DoorInv' /\ TypeOK /\ Apart("grow")
        /\ \A t \in Slots : Shaped(door[t])
        /\ GroupWithinLimit /\ \A t \in Slots : FitIn(req[t]) /\ HasRead(door[t])
    BY OverlapsAreNoted DEF Noted, Classes, DoorInv, AdmissionTypeOK, GrowInv
  <1>2. Participants \subseteq Users
    BY DEF Participants, ParticipantsOf
  <1>3. ASSUME UNCHANGED group,
               \A t \in Slots : \/ req'[t] = req[t] \/ req'[t].pc # "write"
                                \/ req'[t].op # "add" \/ FitIn(req'[t])
        PROVE  /\ GroupWithinLimit'
               /\ \A t \in Slots : FitIn(req[t])' /\ HasRead(door[t])'
    <2>1. \A t \in Slots : FitIn(req'[t])
      BY <1>1, <1>3 DEF FitIn
    <2>2. \A t \in Slots : FitIn(req[t])'
      BY <1>3, <2>1 DEF FitIn, Participants, ParticipantsOf
    <2>3. \A t \in Slots : door'[t] = door[t] => HasRead(door[t])'
      BY <1>1, <1>3 DEF HasRead, Participants, ParticipantsOf
    <2>4. \A t \in Slots : HasRead(door[t])'
      BY <1>1, <2>3, DoorsKeepReading
    <2> QED
      BY <1>1, <1>3, <2>2, <2>4 DEF GroupWithinLimit, Participants, ParticipantsOf
  <1>4. CASE UNCHANGED <<group, req, view>>
    BY <1>3, <1>4
  <1>5. ASSUME NEW s \in Slots, Load(s)
        PROVE  /\ GroupWithinLimit'
               /\ \A t \in Slots : FitIn(req[t])' /\ HasRead(door[t])'
    BY <1>1, <1>3, <1>5, LoadMoves
  <1>6. ASSUME NEW s \in Slots, Publish(s) \/ Return(s) \/ Refuse(s) \/ Fail(s)
        PROVE  /\ GroupWithinLimit'
               /\ \A t \in Slots : FitIn(req[t])' /\ HasRead(door[t])'
    BY <1>1, <1>3, <1>6, WindingMoves
  <1>7. ASSUME NEW s \in Slots, NEW pc, NEW u, NEW target, NEW snap,
               Hands(s, pc, u, target, snap)
        PROVE  /\ GroupWithinLimit'
               /\ \A t \in Slots : FitIn(req[t])' /\ HasRead(door[t])'
    <2>1. /\ UNCHANGED group
          /\ \A t \in Slots : t # s => req'[t] = req[t]
          /\ req'[s].targets = {target} /\ req'[s].pc = pc
      BY <1>1, <1>7, HandingMoves DEF Hands
    <2>2. pc = "write" => Cardinality(Participants \cup {target}) <= MaxParticipants
      <3>1. CASE HasRoom(group)
        BY <1>1, <3>1, OneMore DEF TypeOK, Participants
      <3>2. CASE MayAdmit(door[s]) /\ (door[s].pc # "consume" => HasRoom(door[s].snap))
        <4>1. HasRoom(door[s].snap) /\ Participants \subseteq ParticipantsOf(door[s].snap)
          BY <1>1, <3>2 DEF HasRead
        <4>2. door[s].snap \in Group
          <5>1. door[s] # Idle
            BY <3>2 DEF MayAdmit, Idle
          <5>2. door[s] \in DoorCall
            BY <1>1, <5>1, DoorIsCall DEF DoorInv
          <5> QED  BY <5>2 DEF DoorCall
        <4> QED  BY <4>1, <4>2, OneMore
      <3> QED  BY <1>7, <3>1, <3>2 DEF Hands
    <2>3. FitIn(req'[s])
      BY <2>1, <2>2 DEF FitIn
    <2> QED  BY <1>3, <2>1, <2>3
  <1>8. ASSUME NEW s \in Slots, Store(s), door' = door
        PROVE  /\ GroupWithinLimit'
               /\ \A t \in Slots : FitIn(req[t])' /\ HasRead(door[t])'
    <2>1. /\ req[s] \in Call /\ req[s].pc = "write" /\ req'[s].pc = "publish"
          /\ \A t \in Slots : t # s => req'[t] = req[t]
      BY <1>1, <1>8, WriteMoves
    <2>2. /\ req[s].op # "add" => Participants' \subseteq Participants
          /\ Participants' \subseteq Participants \cup req[s].targets
      BY <1>1, <1>8, ParticipantsAfterWrite
    <2>3. req[s].targets \subseteq Users
      BY <2>1 DEF Call
    <2>4. Cardinality(Participants') <= MaxParticipants
      <3>1. CASE req[s].op = "add"
        <4>1. Cardinality(Participants \cup req[s].targets) <= MaxParticipants
          BY <1>1, <2>1, <3>1 DEF FitIn
        <4> QED  BY <1>2, <2>2, <2>3, <4>1, FewerUsers
      <3>2. CASE req[s].op # "add"
        BY <1>1, <1>2, <2>2, <3>2, FewerUsers DEF GroupWithinLimit
      <3> QED  BY <3>1, <3>2
    <2>5. ASSUME NEW t \in Slots, t # s, InFlight(t, "grow")
          PROVE  Participants' \subseteq Participants
      <3>1. req[s].op # "add"
        BY <1>1, <2>1, <2>5 DEF Apart, InFlight, ClassOf
      <3> QED  BY <2>2, <3>1
    <2>6. ASSUME NEW t \in Slots  PROVE FitIn(req[t])'
      <3>1. CASE t = s
        BY <2>1, <3>1 DEF FitIn
      <3>2. CASE t # s /\ req[t].pc = "write" /\ req[t].op = "add"
        <4>1. InFlight(t, "grow")
          BY <3>2 DEF InFlight, ClassOf
        <4>2. Participants' \subseteq Participants
          BY <2>5, <3>2, <4>1
        <4>3. req[t].targets \subseteq Users
          BY <1>1, <3>2, BusyIsCall DEF Call, Idle
        <4>4. Cardinality(Participants \cup req[t].targets) <= MaxParticipants
          BY <1>1, <3>2 DEF FitIn
        <4>5. Cardinality(Participants' \cup req[t].targets) <= MaxParticipants
          BY <1>2, <4>2, <4>3, <4>4, FewerUsers
        <4> QED  BY <2>1, <3>2, <4>5 DEF FitIn
      <3>3. CASE t # s /\ ~(req[t].pc = "write" /\ req[t].op = "add")
        BY <2>1, <3>3 DEF FitIn
      <3> QED  BY <3>1, <3>2, <3>3
    <2>7. ASSUME NEW t \in Slots  PROVE HasRead(door[t])'
      <3>1. CASE MayAdmit(door[t])
        <4>1. t # s
          BY <1>1, <2>1, <3>1 DEF DoorInv, AdmissionTypeOK, MayAdmit, Idle
        <4>2. InFlight(t, "grow")
          BY <3>1 DEF InFlight
        <4> QED  BY <1>1, <1>8, <2>5, <4>1, <4>2 DEF HasRead
      <3>2. CASE ~MayAdmit(door[t])
        BY <1>8, <3>2 DEF HasRead
      <3> QED  BY <3>1, <3>2
    <2> QED  BY <2>4, <2>6, <2>7 DEF GroupWithinLimit
  <1> QED  BY <1>1, <1>4, <1>5, <1>6, <1>7, <1>8, CallSteps
-----------------------------------------------------------------------------
\* Whoever is on the way to a use is outside, and about to spend one, not waiting.
Outsider(q) ==
    /\ q.pc \in {"queue", "consume"} => q.user \notin Participants
    /\ q.pc = "consume" /\ q.inv.approval => request[q.user] # "pending"

UsesInv == \A s \in Slots : door[s] # Idle /\ door[s].user \notin doubled => Outsider(door[s])

\* Somebody comes in by a write that brings them in, and waits by asking.
LEMMA ComingIn ==
    ASSUME Noted, [AdmissionNext]_admissionVars, NEW u \in Users
    PROVE  /\ u \in Participants' \ Participants =>
                \E t \in Slots : BringsIn(t, u) /\ req[t] # Idle
           /\ request'[u] = "pending" /\ request[u] # "pending" =>
                \E t \in Slots : BringsIn(t, u) /\ door[t].pc = "ask"
  <1>0. DoorInv /\ AdmissionTypeOK /\ TypeOK
    BY DEF Noted, DoorInv, AdmissionTypeOK
  <1>1. ASSUME u \in Participants' \ Participants
        PROVE  \E t \in Slots : BringsIn(t, u) /\ req[t] # Idle
    <2>1. group' # group
      BY <1>1 DEF Participants
    <2>2. PICK t \in Slots : Store(t)
      <3>1. \A s \in Slots : Load(s) => UNCHANGED group
        BY <1>0, LoadMoves
      <3>2. \A s \in Slots : Publish(s) \/ Return(s) \/ Refuse(s) \/ Fail(s) => UNCHANGED group
        BY DEF Publish, Return, Refuse, Fail
      <3> QED  BY <1>0, <2>1, <3>1, <3>2, CallSteps DEF Hands
    <2>3. req[t] # Idle /\ req[t].pc = "write"
      BY <1>0, <2>2, WriteMoves
    <2>4. req[t].op = "add" /\ u \in req[t].targets
      BY <1>0, <1>1, <2>2, ParticipantsAfterWrite
    <2> QED  BY <2>3, <2>4 DEF BringsIn
  <1>2. ASSUME request'[u] = "pending", request[u] # "pending"
        PROVE  \E t \in Slots : BringsIn(t, u) /\ door[t].pc = "ask"
    <2>1. PICK t \in Slots : Ask(t) \/ Resolve(t)
      <3>1. request' # request
        BY <1>2
      <3> QED
        BY <3>1 DEF AdmissionNext, admissionVars, queue, Manage, Finish, AtTheDoor, MintLoad, Mint,
           AcceptLoad, AcceptGroup, JoinLoad, JoinOpen, ReadQueue, ResolveLoad, Decide, Consume,
           GiveUp, Revoke, Expire
    <2>2. ~Resolve(t)
      BY <1>0, <1>2 DEF Resolve, AdmissionTypeOK
    <2>3. Ask(t) /\ door[t].user = u
      BY <1>0, <1>2, <2>1, <2>2 DEF Ask, AdmissionTypeOK
    <2>4. door[t].pc = "ask" /\ door[t].target = u
      BY <2>3 DEF Ask, At, Noted, Shaped
    <2> QED  BY <2>4 DEF BringsIn
  <1> QED  BY <1>1, <1>2

LEMMA StepKeepsUses ==
    ASSUME Noted, UsesInv, [OverlapsNext]_overlapsVars
    PROVE  UsesInv'
  <1> SUFFICES ASSUME NEW s \in Slots, door'[s] # Idle, door'[s].user \notin doubled'
               PROVE  Outsider(door[s])'
    BY DEF UsesInv
  <1>1. /\ [AdmissionNext]_admissionVars /\ DoorInv /\ AdmissionTypeOK
        /\ doubled \subseteq doubled'
    BY OverlapsAreNoted DEF Noted, DoorInv
  <1>2. CASE door'[s] = door[s]
    <2> DEFINE q == door[s]
    <2>1. /\ q \in DoorCall /\ req[s] = Idle /\ q.user \in Users
          /\ q.user \notin doubled /\ Outsider(q)
      BY <1>1, <1>2, DoorIsCall DEF UsesInv, DoorCall
    <2>2. ASSUME q.pc \in {"queue", "consume"}, NEW t \in Slots, t # s
          PROVE  ~BringsIn(t, q.user)
      <3>1. BringsIn(s, q.user)
        BY <2>2 DEF BringsIn, Noted, Shaped
      <3> QED  BY <2>1, <2>2, <3>1 DEF Noted, Singly
    <2>3. q.pc \in {"queue", "consume"} => q.user \notin Participants'
      BY <1>1, <2>1, <2>2, ComingIn DEF Outsider
    <2>4. q.pc = "consume" /\ q.inv.approval => request'[q.user] # "pending"
      BY <1>1, <2>1, <2>2, ComingIn DEF Outsider
    <2> QED  BY <1>2, <2>3, <2>4 DEF Outsider
  <1>3. CASE door'[s] # door[s]
    <2>1. /\ UNCHANGED <<group, request>>
          /\ \/ Enters(door'[s])
             \/ door[s] \in DoorCall /\ GoesOn(door[s], door'[s])
      BY <1>1, <1>3, DoorSteps
    <2>2. CASE Enters(door'[s])
      BY <2>1, <2>2 DEF Enters, Outsider, Participants
    <2>3. CASE door[s] \in DoorCall /\ GoesOn(door[s], door'[s])
      <3>1. door[s].user \notin doubled /\ door[s] # Idle
        BY <1>1, <2>3 DEF GoesOn, DoorCall, Idle
      <3>2. Outsider(door[s])
        BY <3>1 DEF UsesInv
      <3> QED  BY <2>1, <2>3, <3>2 DEF GoesOn, Outsider, Participants
    <2> QED  BY <2>1, <2>2, <2>3
  <1> QED  BY <1>2, <1>3

\* Only a redemption counts one, and it is made by somebody on the way to a use.
LEMMA UsesByOutsiders ==
    ASSUME Noted, UsesInv, [AdmissionNext]_admissionVars, NEW s \in Slots,
           door[s] # Idle, redeemed' # redeemed, door'[s] # door[s],
           door[s].user \notin doubled
    PROVE  /\ door[s].user \notin Participants
           /\ door[s].inv.approval => request[door[s].user] # "pending"
  <1>1. PICK t \in Slots : Consume(t)
    BY DEF AdmissionNext, admissionVars, queue, vars, Manage, Finish, AtTheDoor, MintLoad, Mint,
           AcceptLoad, AcceptGroup, JoinLoad, JoinOpen, ReadQueue, Ask, ResolveLoad, Decide,
           Resolve, GiveUp, Revoke, Expire
  <1>2. \A r \in Slots : r # t => door'[r] = door[r]
    BY <1>1 DEF Consume, Proceed, Admit, HandOver, Noted, DoorInv, AdmissionTypeOK
  <1>3. t = s
    BY <1>2
  <1> QED  BY <1>1, <1>3 DEF Consume, At, UsesInv, Outsider
-----------------------------------------------------------------------------
\* A request that waits has not been decided, and one about to be decided waits.
DecideInv ==
    "decide" \notin crossed =>
        /\ \A u \in Users : decisions[u] <= 1 /\ (request[u] = "pending" => decisions[u] = 0)
        /\ \A s \in Slots : door[s].pc = "resolve" => request[door[s].target] = "pending"

LEMMA StepKeepsDecide ==
    ASSUME Noted, DecideInv, [OverlapsNext]_overlapsVars
    PROVE  DecideInv'
  <1> DEFINE Once == \A u \in Users : /\ decisions[u] <= 1
                                      /\ request[u] = "pending" => decisions[u] = 0
             Waits == \A s \in Slots : door[s].pc = "resolve" => request[door[s].target] = "pending"
  <1> SUFFICES ASSUME "decide" \notin crossed'
               PROVE  Once' /\ Waits'
    BY DEF DecideInv
  <1>1. /\ [AdmissionNext]_admissionVars /\ DoorInv /\ AdmissionTypeOK
        /\ "decide" \notin crossed
    BY OverlapsAreNoted DEF Noted, DoorInv
  <1>2. Apart("decide") /\ Once /\ Waits
    BY <1>1 DEF Noted, Classes, DecideInv
  <1>3. ASSUME NEW s \in Slots, Resolve(s)
        PROVE  Once' /\ Waits'
    <2>1. door[s] \in DoorCall /\ door[s].pc = "resolve"
      BY <1>1, <1>3, AtIsCall DEF Resolve, At
    <2>2. door[s].target \in Users /\ request[door[s].target] = "pending"
      BY <1>2, <2>1 DEF DoorCall
    <2>3. /\ request' = [request EXCEPT ![door[s].target] =
                            IF door[s].approve THEN "approved" ELSE "denied"]
          /\ decisions' = [decisions EXCEPT ![door[s].target] = @ + 1]
          /\ door' = [door EXCEPT ![s] = Idle]
      BY <1>3 DEF Resolve, Admit, HandOver, Proceed
    <2>4. Once'
      BY <1>1, <1>2, <2>2, <2>3 DEF AdmissionTypeOK
    <2>5. \A t \in Slots : t # s => door[t].pc # "resolve"
      BY <1>2, <2>1 DEF Apart, InFlight
    <2>6. \A t \in Slots : door'[t].pc # "resolve"
      BY <1>1, <2>3, <2>5 DEF AdmissionTypeOK, Idle
    <2> QED  BY <2>4, <2>6
  <1>4. ASSUME NEW s \in Slots, Ask(s)
        PROVE  Once' /\ Waits'
    <2>1. door[s].user \in Users
      BY <1>1, <1>4, AtIsCall DEF Ask, DoorCall
    <2>2. /\ request' = [request EXCEPT ![door[s].user] = "pending"]
          /\ decisions' = [decisions EXCEPT ![door[s].user] = 0]
          /\ door' = [door EXCEPT ![s] = Idle]
      BY <1>4 DEF Ask, Proceed
    <2>3. \A u \in Users : request[u] = "pending" => request'[u] = "pending"
      BY <1>1, <2>2 DEF AdmissionTypeOK
    <2>4. \A t \in Slots : door'[t].pc = "resolve" =>
            door'[t] = door[t] /\ door[t] \in DoorCall
      BY <1>1, <2>2, DoorIsCall DEF AdmissionTypeOK, Idle
    <2>5. Waits'
      BY <1>2, <2>3, <2>4 DEF DoorCall
    <2>6. Once'
      BY <1>1, <1>2, <2>1, <2>2 DEF AdmissionTypeOK
    <2> QED  BY <2>5, <2>6
  <1>5. CASE \A s \in Slots : ~Resolve(s) /\ ~Ask(s)
    <2>1. UNCHANGED <<request, decisions>>
      BY <1>1, <1>5 DEF AdmissionNext, admissionVars, queue, vars, Manage, Finish, AtTheDoor,
         MintLoad, Mint, AcceptLoad, AcceptGroup, JoinLoad, JoinOpen, ReadQueue, ResolveLoad,
         Decide, Consume, GiveUp, Revoke, Expire
    <2>2. Once'
      BY <1>2, <2>1
    <2>3. ASSUME NEW t \in Slots, door'[t].pc = "resolve"
          PROVE  request'[door'[t].target] = "pending"
      <3>1. CASE door'[t] = door[t]
        BY <1>2, <2>1, <2>3, <3>1
      <3>2. CASE door'[t] # door[t]
        <4>1. door'[t] # Idle
          BY <2>3 DEF Idle
        <4>2. Enters(door'[t]) \/ GoesOn(door[t], door'[t])
          BY <1>1, <3>2, <4>1, DoorSteps
        <4>3. door'[t].target = door[t].target /\ request[door[t].target] = "pending"
          BY <2>3, <4>2 DEF Enters, GoesOn
        <4> QED  BY <2>1, <4>3
      <3> QED  BY <3>1, <3>2
    <2> QED  BY <2>2, <2>3
  <1> QED  BY <1>3, <1>4, <1>5
-----------------------------------------------------------------------------
LEMMA ClassesStart ==
    ASSUME OverlapsInit
    PROVE  Noted /\ ShrinkInv /\ GrowInv /\ UpdateInv /\ UsesInv /\ DecideInv
  <1>1. /\ AtLeastOneAdmin /\ GroupWithinLimit
        /\ \A s \in Slots : req[s] = Idle /\ door[s] = Idle
    BY InitHolds DEF OverlapsInit, AdmissionInit, Init
  <1>2. \A s \in Slots : LeavesAdmin(req[s]) /\ FitIn(req[s]) /\ ReadsFields(req[s])
    BY <1>1 DEF LeavesAdmin, FitIn, ReadsFields, Idle
  <1>3. \A s \in Slots : HasRead(door[s])
    BY <1>1 DEF HasRead, MayAdmit, Idle
  <1>4. DecideInv
    BY <1>1 DEF OverlapsInit, AdmissionInit, DecideInv, Idle
  <1> QED
    BY <1>1, <1>2, <1>3, <1>4, OverlapsStart DEF ShrinkInv, GrowInv, UpdateInv, UsesInv

(* The inductive invariant of the whole: the histories miss no overlap, and what
   the calls of a class have checked (an admin stays, the newcomers fit in, the
   fields they were not given are as they read them, whoever spends a use is
   outside, the request they decide is open) holds when they write, unless two of that class have overlapped. *)
THEOREM ClassInvariance ==
    OverlapsSpec => [](Noted /\ ShrinkInv /\ GrowInv /\ UpdateInv /\ UsesInv /\ DecideInv)
  <1> DEFINE IInv == Noted /\ ShrinkInv /\ GrowInv /\ UpdateInv /\ UsesInv /\ DecideInv
  <1>1. OverlapsInit => IInv
    BY ClassesStart
  <1>2. IInv /\ [OverlapsNext]_overlapsVars => IInv'
    BY OverlapsAreNoted, StepKeepsShrink, StepKeepsGrow, StepKeepsUpdate, StepKeepsUses,
       StepKeepsDecide
  <1> QED  BY <1>1, <1>2, PTL DEF OverlapsSpec

(* ADR 0017 par. 3: unless two removals or demotions have overlapped between check
   and write, the group has an admin, whatever else overlaps. *)
THEOREM AdminCorrect == OverlapsSpec => []AdminUnlessCrossed
  <1>1. ShrinkInv => AdminUnlessCrossed
    BY DEF ShrinkInv, AdminUnlessCrossed
  <1> QED  BY <1>1, ClassInvariance, PTL

(* ADR 0017: unless two additions or admissions have, the group is within
   MAX_GROUP_PARTICIPANTS. *)
THEOREM LimitCorrect == OverlapsSpec => []LimitUnlessCrossed
  <1>1. GrowInv => LimitUnlessCrossed
    BY DEF GrowInv, LimitUnlessCrossed
  <1> QED  BY <1>1, ClassInvariance, PTL

(* chatpack.ts resolveJoinRequest: unless two decisions have overlapped, a request to
   join is decided once, whoever asks again or comes in by another door. *)
THEOREM DecidedOnce == OverlapsSpec => []OneDecisionUnlessCrossed
  <1>1. DecideInv => OneDecisionUnlessCrossed
    BY DEF DecideInv, OneDecisionUnlessCrossed, OneDecision
  <1> QED  BY <1>1, ClassInvariance, PTL

(* updateConversation: an omitted field keeps its current value, unless two
   updates have overlapped. *)
THEOREM FieldsKept == OverlapsSpec => FieldsUnlessCrossed
  <1> DEFINE Kept == \A f \in Fields : "update" \notin crossed /\ group'.info[f] # group.info[f] =>
        \E s \in Slots : /\ req[s].pc = "write" /\ req'[s].pc = "publish"
                         /\ req[s].op = "update" /\ f \in DOMAIN req[s].patch
  <1>1. ASSUME Noted, UpdateInv, [OverlapsNext]_overlapsVars
        PROVE  [Kept]_overlapsVars
    <2> SUFFICES ASSUME NEW f \in Fields, "update" \notin crossed, group'.info[f] # group.info[f]
                 PROVE  \E s \in Slots : /\ req[s].pc = "write" /\ req'[s].pc = "publish"
                                         /\ req[s].op = "update" /\ f \in DOMAIN req[s].patch
      OBVIOUS
    <2>1. ~ UNCHANGED group
      OBVIOUS
    <2>2. DoorInv /\ TypeOK /\ [AdmissionNext]_admissionVars
      BY <1>1, OverlapsAreNoted DEF Noted, DoorInv, AdmissionTypeOK
    <2>3. PICK s \in Slots : Store(s)
      <3>1. \A s \in Slots : Load(s) => UNCHANGED group
        BY <2>2, LoadMoves
      <3>2. \A s \in Slots : Publish(s) \/ Return(s) \/ Refuse(s) \/ Fail(s) => UNCHANGED group
        BY DEF Publish, Return, Refuse, Fail
      <3> QED  BY <2>1, <2>2, <3>1, <3>2, CallSteps DEF Hands
    <2>4. req[s].op = "update"
      BY <2>2, <2>3, FieldsAfterWrite
    <2>5. UpdateWrite(s)
      BY <2>2, <2>3, <2>4, AddWrites, RemoveWrites, RoleWrites DEF Store
    <2>6. /\ req[s] \in Call /\ req[s].pc = "write" /\ req'[s].pc = "publish"
          /\ ReadsFields(req[s]) /\ group'.info = Resolved(req[s])
      BY <1>1, <2>2, <2>3, <2>5, WriteMoves, UpdateWrites DEF UpdateInv
    <2>7. f \in DOMAIN req[s].patch
      BY <2>4, <2>6 DEF Resolved, ReadsFields
    <2> QED  BY <2>4, <2>6, <2>7
  <1> QED  BY <1>1, ClassInvariance, PTL DEF OverlapsSpec, FieldsUnlessCrossed

(* chatpack.ts acceptInvite: no use of an invite is spent for somebody who is in, or
   who waits for approval, unless two calls at once could have brought them in. *)
THEOREM UsesForOutsiders == OverlapsSpec => UsesUnlessDoubled
  <1>1. Noted /\ UsesInv /\ [OverlapsNext]_overlapsVars
        => [\A s \in Slots :
                /\ door[s] # Idle /\ redeemed' # redeemed /\ door'[s] # door[s]
                /\ door[s].user \notin doubled
                => /\ door[s].user \notin Participants
                   /\ door[s].inv.approval => request[door[s].user] # "pending"]_overlapsVars
    BY UsesByOutsiders, OverlapsAreNoted
  <1> QED  BY <1>1, ClassInvariance, PTL DEF OverlapsSpec, UsesUnlessDoubled
-----------------------------------------------------------------------------
(***************************************************************************)
(* The copies clients hold, where no two calls on the group have           *)
(* overlapped.                                                             *)
(***************************************************************************)

\* What a copy must show.
Shown ==
    \A u \in Users : view[u].cached =>
        /\ u \in Participants
        /\ view[u].role = group.role
        /\ view[u].info["name"] = group.info["name"]

\* A call that runs alone writes to the group it has read, answers with the group as
\* it is, to a participant unless it removes, and tells everyone who has a copy.
InStep(q) ==
    /\ q.pc = "write" /\ q.op = "remove" => q.snap = group
    /\ q.pc = "write" /\ q.op # "remove" =>
        q.user \in Participants \/ (q.op = "add" /\ q.user \in q.targets)
    /\ q.pc \in {"publish", "return"} => q.out = group
    /\ q.pc \in {"publish", "return"} /\ q.op # "remove" => q.user \in Participants
    /\ q.pc = "publish" /\ q.op = "remove" => Participants = ParticipantsOf(q.snap) \ q.targets
    /\ q.pc = "publish" /\ failures = 0 => \A u \in Users : view[u].cached => u \in Told(q)

NoNews == \A s \in Slots : req[s].pc # "publish"

\* Whoever is about to approve somebody is in.
DeciderIn(c) == MayAdmit(c) /\ c.pc # "consume" => c.user \in Participants

CallsInStep == \A s \in Slots : req[s] # Idle => InStep(req[s])

ViewsInv ==
    "any" \notin crossed =>
        /\ \A s \in Slots : DeciderIn(door[s])
        /\ CallsInStep
        /\ failures = 0 /\ NoNews => Shown

\* A step that leaves the group and the copies, and makes no call out of step.
LEMMA NothingShownChanges ==
    ASSUME CallsInStep, failures = 0 /\ NoNews => Shown, UNCHANGED <<group, view>>,
           failures' = 0 => failures = 0 /\ (NoNews' => NoNews),
           \A t \in Slots : \/ req'[t] = req[t] \/ req'[t] = Idle
                            \/ InStep(req'[t]) /\ req'[t].pc # "publish"
    PROVE  CallsInStep' /\ (failures' = 0 /\ NoNews' => Shown')
  <1>1. ASSUME NEW t \in Slots, req'[t] # Idle
        PROVE  InStep(req[t])'
    <2>1. InStep(req'[t])
      BY <1>1 DEF CallsInStep
    <2>2. CASE req'[t].pc # "publish"
      BY <2>1, <2>2 DEF InStep, Participants, ParticipantsOf
    <2>3. CASE req'[t].pc = "publish"
      BY <2>1, <2>3 DEF InStep, Participants, ParticipantsOf, Told
    <2> QED  BY <2>2, <2>3
  <1>2. failures' = 0 /\ NoNews' => Shown'
    BY DEF Shown, Participants, ParticipantsOf
  <1> QED  BY <1>1, <1>2 DEF CallsInStep

\* Only an admin makes Membership's calls, except to leave.
LEMMA LoadIsByParticipant ==
    ASSUME TypeOK, NEW s \in Slots, Load(s)
    PROVE  req'[s].op # "remove" => req'[s].user \in Participants
  <1>1. ASSUME NEW pc, NEW op, NEW u, NEW targets, NEW patch, Begin(s, pc, op, u, targets, patch)
        PROVE  req'[s].op = op /\ req'[s].user = u
    BY <1>1 DEF Begin, TypeOK
  <1>2. CASE RemoveLoad(s)
    BY <1>1, <1>2 DEF RemoveLoad
  <1>3. CASE ~RemoveLoad(s)
    <2>1. \E v \in Users : Manages(v) /\ req'[s].user = v
      BY <1>1, <1>3, Zenon DEF Load, AddLoad, RoleLoad, UpdateLoad
    <2> QED  BY <2>1 DEF Manages, Participants, ParticipantsOf
  <1> QED  BY <1>2, <1>3

\* A write answers with the group as it leaves it.
LEMMA WriteAnswers ==
    ASSUME TypeOK, NEW s \in Slots, Store(s)
    PROVE  \E p \in Call :
            /\ req' = [req EXCEPT ![s] = p] /\ p.pc = "publish" /\ p.out = group'
            /\ p.op = req[s].op /\ p.user = req[s].user /\ p.targets = req[s].targets
            /\ p.snap = req[s].snap
            /\ UNCHANGED <<view, failures>>
  <1>1. req[s] \in Call /\ group' \in Group
    BY AddWrites, RemoveWrites, RoleWrites, UpdateWrites DEF Store, TypeOK
  <1> DEFINE p == [req[s] EXCEPT !.pc = "publish", !.out = group']
  <1>2. p \in Call
    BY <1>1 DEF Call
  <1>3. /\ p.pc = "publish" /\ p.out = group'
        /\ p.op = req[s].op /\ p.user = req[s].user /\ p.targets = req[s].targets
        /\ p.snap = req[s].snap
    BY <1>1 DEF Call
  <1>4. req' = [req EXCEPT ![s] = p] /\ UNCHANGED <<view, failures>>
    BY DEF Store, AddWrite, RemoveWrite, RoleWrite, UpdateWrite, Write, TypeOK
  <1> QED  BY <1>2, <1>3, <1>4, Zenon

\* Who is in after a write.
LEMMA WriteKeepsPeople ==
    ASSUME TypeOK, NEW s \in Slots, Store(s)
    PROVE  /\ req[s].op # "remove" => Participants \subseteq Participants'
           /\ req[s].op = "add" => req[s].targets \subseteq Participants'
           /\ req[s].op = "remove" => Participants' = Participants \ req[s].targets
  <1>0. req[s] \in Call /\ req[s].targets \in SUBSET Users
    BY WriteMoves DEF Call
  <1>1. CASE AddWrite(s)
    BY <1>0, <1>1, AddWrites DEF Added, Participants, ParticipantsOf
  <1>2. CASE RemoveWrite(s)
    BY <1>0, <1>2, RemoveWrites DEF Participants, ParticipantsOf
  <1>3. CASE RoleWrite(s)
    BY <1>0, <1>3, RoleWrites DEF Participants, ParticipantsOf
  <1>4. CASE UpdateWrite(s)
    BY <1>0, <1>4, UpdateWrites DEF Participants, ParticipantsOf
  <1> QED  BY <1>1, <1>2, <1>3, <1>4 DEF Store

\* A call that runs where none have overlapped is the only one.
LEMMA RunsAlone ==
    ASSUME Noted, "any" \notin crossed, NEW s \in Slots, req[s] # Idle
    PROVE  \A t \in Slots : (t # s => req[t] = Idle) /\ ~MayAdmit(door[t])
  <1>1. Apart("any")
    BY DEF Noted, Classes
  <1>2. \A t \in Slots : t # s => ~InFlight(t, "any")
    BY <1>1 DEF Apart, InFlight
  <1>3. door[s] = Idle
    BY DEF Noted, DoorInv, AdmissionTypeOK
  <1> QED  BY <1>2, <1>3 DEF InFlight, MayAdmit, Idle

\* The first write of a call that runs alone: it has everything to tell.
LEMMA StoresInStep ==
    ASSUME TypeOK, NEW s \in Slots, Store(s), \A t \in Slots : t # s => req[t] = Idle,
           InStep(req[s]), failures = 0 => Shown
    PROVE  CallsInStep' /\ ~NoNews'
  <1>1. PICK p \in Call :
            /\ req' = [req EXCEPT ![s] = p] /\ p.pc = "publish" /\ p.out = group'
            /\ p.op = req[s].op /\ p.user = req[s].user /\ p.targets = req[s].targets
            /\ p.snap = req[s].snap
            /\ UNCHANGED <<view, failures>>
    BY WriteAnswers
  <1>2. req[s].pc = "write" /\ \A t \in Slots : req'[t] = IF t = s THEN p ELSE Idle
    BY <1>1, WriteMoves DEF TypeOK
  <1>3. p.op # "remove" => Participants \subseteq Participants' /\ p.user \in Participants'
    BY <1>1, <1>2, WriteKeepsPeople DEF InStep
  <1>4. p.op = "remove" => /\ p.snap = group
                           /\ Participants' = ParticipantsOf(p.snap) \ p.targets
    BY <1>1, <1>2, WriteKeepsPeople DEF InStep, Participants
  <1>5. Told(p) = IF p.op = "remove" THEN Participants ELSE Participants'
    BY <1>1, <1>4 DEF Told, Participants
  <1>6. failures' = 0 => \A u \in Users : view'[u].cached => u \in Told(p)
    BY <1>1, <1>3, <1>5 DEF Shown
  <1>7. InStep(p)'
    BY <1>1, <1>3, <1>4, <1>6 DEF InStep, Told, ParticipantsOf
  <1> QED  BY <1>1, <1>2, <1>7 DEF CallsInStep, NoNews, InStep, Told

\* A copy that takes an event about the group as it is shows it.
LEMMA MergedShows ==
    ASSUME NEW shown \in View, NEW g \in Group, Merged(shown, g).cached
    PROVE  /\ shown.cached /\ Merged(shown, g).role = g.role
           /\ Merged(shown, g).info["name"] = g.info["name"]
  <1>1. shown.cached
    BY DEF Merged, NotCached
  <1>2. shown \in [cached : {TRUE}, role : [Users -> Roles], info : [Fields -> Values]]
    <2>1. shown # NotCached
      BY <1>1 DEF NotCached
    <2> QED  BY <2>1 DEF View
  <1>3. Merged(shown, g)
            = [shown EXCEPT !.role = g.role, !.info["name"] = g.info["name"]]
    BY <1>1 DEF Merged
  <1> QED  BY <1>1, <1>2, <1>3, MembershipAssumption

\* Whoever had a copy is told, and shows the group or drops it.
LEMMA PublishesInStep ==
    ASSUME TypeOK, NEW s \in Slots, Publish(s), \A t \in Slots : t # s => req[t] = Idle,
           InStep(req[s])
    PROVE  CallsInStep' /\ (failures' = 0 => Shown')
  <1> PICK q \in Call : q = req[s] /\ q.pc = "publish"
    BY BusyIsCall DEF Publish, Idle
  <1>2. PICK p \in Call :
            /\ req' = [req EXCEPT ![s] = p] /\ p.pc = "return" /\ p.out = q.out
            /\ p.op = q.op /\ p.user = q.user
    <2> DEFINE p == [q EXCEPT !.pc = "return"]
    <2>1. p \in Call
      BY DEF Call
    <2>2. p.pc = "return" /\ p.out = q.out /\ p.op = q.op /\ p.user = q.user
      BY DEF Call
    <2>3. req' = [req EXCEPT ![s] = p]
      BY DEF Publish, TypeOK
    <2> QED  BY <2>1, <2>2, <2>3, Zenon
  <1>3. \A t \in Slots : req'[t] = IF t = s THEN p ELSE Idle
    BY <1>2 DEF TypeOK
  <1>4. UNCHANGED <<group, failures>> /\ q.out = group /\ group \in Group
    BY DEF Publish, InStep, TypeOK
  <1>5. InStep(p)'
    BY <1>2, <1>4 DEF InStep, Participants, ParticipantsOf
  <1>6. CallsInStep'
    BY <1>3, <1>5 DEF CallsInStep, InStep, Told
  <1>7. ASSUME failures = 0, NEW u \in Users, view'[u].cached
        PROVE  /\ u \in Participants
               /\ view'[u].role = group.role
               /\ view'[u].info["name"] = group.info["name"]
    <2>1. view[u] \in View
      BY DEF TypeOK
    <2>2. view'[u] = IF u \notin Told(q) THEN view[u]
                     ELSE IF q.op = "remove" THEN AfterRemoval(view[u], u, q)
                     ELSE Merged(view[u], q.out)
      BY DEF Publish
    <2>3. u \in Told(q)
      BY <1>7, <2>2 DEF InStep
    <2>4. view'[u] = Merged(view[u], group) /\ (q.op = "remove" => u \notin q.targets)
      BY <1>4, <1>7, <2>2, <2>3 DEF AfterRemoval, NotCached
    <2>5. u \in Participants
      BY <1>4, <2>3, <2>4 DEF InStep, Told, Participants
    <2> QED  BY <1>4, <1>7, <2>1, <2>4, <2>5, MergedShows
  <1>8. failures' = 0 => Shown'
    BY <1>4, <1>7 DEF Shown, Participants, ParticipantsOf
  <1> QED  BY <1>6, <1>8

\* The caller's own copy is the group, or what the removal leaves of it.
LEMMA ReturnsInStep ==
    ASSUME TypeOK, NEW s \in Slots, Return(s), \A t \in Slots : t # s => req[t] = Idle,
           InStep(req[s]), failures = 0 => Shown
    PROVE  CallsInStep' /\ (failures' = 0 => Shown')
  <1> PICK q \in Call : q = req[s] /\ q.pc = "return"
    BY BusyIsCall DEF Return, Idle
  <1>2. \A t \in Slots : req'[t] = Idle
    BY DEF Return, TypeOK
  <1>3. UNCHANGED <<group, failures>> /\ q.out = group /\ group \in Group /\ q.user \in Users
    BY DEF Return, InStep, TypeOK, Call
  <1>4. ASSUME failures = 0, NEW u \in Users, view'[u].cached
        PROVE  /\ u \in Participants
               /\ view'[u].role = group.role
               /\ view'[u].info["name"] = group.info["name"]
    <2>1. view[u] \in View
      BY DEF TypeOK
    <2>2. CASE u # q.user
      <3>1. view'[u] = view[u]
        BY <2>2 DEF Return, TypeOK
      <3> QED  BY <1>4, <3>1 DEF Shown
    <2>3. CASE u = q.user /\ q.op = "remove"
      <3>1. view'[u] = AfterRemoval(view[u], u, q)
        BY <2>3 DEF Return, TypeOK
      <3>2. view'[u] = Merged(view[u], group)
        BY <1>3, <1>4, <3>1 DEF AfterRemoval, NotCached
      <3>3. view[u].cached
        BY <1>3, <1>4, <2>1, <3>2, MergedShows
      <3> QED  BY <1>3, <1>4, <2>1, <3>2, <3>3, MergedShows DEF Shown
    <2>4. CASE u = q.user /\ q.op # "remove"
      <3>1. view'[u] = Cached(group)
        BY <1>3, <2>4 DEF Return, TypeOK
      <3> QED  BY <2>4, <3>1 DEF Cached, InStep
    <2> QED  BY <2>2, <2>3, <2>4
  <1>5. failures' = 0 => Shown'
    BY <1>3, <1>4 DEF Shown, Participants, ParticipantsOf
  <1> QED  BY <1>2, <1>5 DEF CallsInStep

\* The group only changes in a write.
LEMMA OnlyWritesChange ==
    ASSUME DoorInv, [AdmissionNext]_admissionVars, group' # group
    PROVE  \E s \in Slots : Store(s) /\ door' = door
  <1>1. TypeOK
    BY DEF DoorInv, AdmissionTypeOK
  <1>2. \A s \in Slots : Load(s) => UNCHANGED group
    BY <1>1, LoadMoves
  <1>3. \A s \in Slots : Publish(s) \/ Return(s) \/ Refuse(s) \/ Fail(s) => UNCHANGED group
    BY DEF Publish, Return, Refuse, Fail
  <1> QED  BY <1>2, <1>3, CallSteps DEF Hands

LEMMA DecidersStayIn ==
    ASSUME Noted, ViewsInv, [AdmissionNext]_admissionVars, "any" \notin crossed, NEW t \in Slots
    PROVE  DeciderIn(door[t])'
  <1>0. DoorInv /\ TypeOK /\ DeciderIn(door[t])
    BY DEF Noted, DoorInv, AdmissionTypeOK, ViewsInv
  <1>1. CASE door'[t] = Idle
    BY <1>1 DEF DeciderIn, MayAdmit, Idle
  <1>2. CASE door'[t] # Idle /\ door'[t] # door[t]
    <2>1. UNCHANGED group /\ (Enters(door'[t]) \/ GoesOn(door[t], door'[t]))
      BY <1>0, <1>2, DoorSteps
    <2>0. door'[t].user \in Users
      BY <1>0, <1>2, NextKeepsDoorInv DEF DoorInv, AdmissionTypeOK, DoorCall
    <2>2. CASE Enters(door'[t])
      BY <2>0, <2>1, <2>2 DEF Enters, DeciderIn, MayAdmit, Manages, Participants, ParticipantsOf
    <2>3. CASE GoesOn(door[t], door'[t])
      <3>1. ASSUME MayAdmit(door'[t]), door'[t].pc # "consume"
            PROVE  MayAdmit(door[t]) /\ door[t].pc # "consume" /\ door'[t].user = door[t].user
        BY <2>3, <3>1 DEF GoesOn, MayAdmit
      <3> QED  BY <1>0, <2>1, <3>1 DEF DeciderIn, Participants, ParticipantsOf
    <2> QED  BY <2>1, <2>2, <2>3
  <1>3. CASE door'[t] = door[t] /\ UNCHANGED group
    BY <1>0, <1>3 DEF DeciderIn, Participants, ParticipantsOf
  <1>4. CASE door'[t] = door[t] /\ group' # group
    <2>1. PICK s \in Slots : Store(s)
      BY <1>0, <1>4, OnlyWritesChange
    <2>2. ~MayAdmit(door[t])
      BY <1>0, <2>1, WriteMoves, RunsAlone
    <2> QED  BY <1>4, <2>2 DEF DeciderIn
  <1> QED  BY <1>1, <1>2, <1>3, <1>4

LEMMA StepKeepsViews ==
    ASSUME Noted, ViewsInv, [OverlapsNext]_overlapsVars
    PROVE  ViewsInv'
  <1> DEFINE Kept == CallsInStep' /\ (failures' = 0 /\ NoNews' => Shown')
  <1> SUFFICES ASSUME "any" \notin crossed'
               PROVE  Kept /\ \A t \in Slots : DeciderIn(door[t])'
    BY DEF ViewsInv
  <1>1. /\ [AdmissionNext]_admissionVars /\ "any" \notin crossed
        /\ DoorInv /\ TypeOK /\ \A t \in Slots : Shaped(door[t])
    BY OverlapsAreNoted DEF Noted, DoorInv, AdmissionTypeOK
  <1>2. /\ \A t \in Slots : DeciderIn(door[t])
        /\ CallsInStep /\ (failures = 0 /\ NoNews => Shown)
    BY <1>1 DEF ViewsInv
  <1>3. \A t \in Slots : DeciderIn(door[t])'
    BY <1>1, DecidersStayIn
  <1>4. ASSUME UNCHANGED <<group, req, view>>, failures' = 0 => failures = 0
        PROVE  Kept
    <2>1. failures' = 0 => failures = 0 /\ (NoNews' => NoNews)
      BY <1>4 DEF NoNews
    <2>2. UNCHANGED <<group, view>> /\ \A t \in Slots : req'[t] = req[t]
      BY <1>4
    <2> QED  BY <1>2, <2>1, <2>2, NothingShownChanges
  <1>5. ASSUME NEW s \in Slots, Load(s)  PROVE Kept
    <2>1. /\ UNCHANGED <<group, view, failures>>
          /\ \A t \in Slots : t # s => req'[t] = req[t]
          /\ req[s] = Idle /\ req'[s].pc \in {"write", "return"}
          /\ req'[s].snap = group /\ req'[s].out = group
          /\ req'[s].op # "remove" => req'[s].user \in Participants
      BY <1>1, <1>5, LoadMoves, LoadIsByParticipant
    <2>2. InStep(req'[s])
      BY <2>1 DEF InStep
    <2>3. NoNews' => NoNews
      BY <2>1 DEF NoNews, Idle
    <2> QED  BY <1>2, <2>1, <2>2, <2>3, NothingShownChanges
  <1>6. ASSUME NEW s \in Slots, NEW pc \in {"write", "return"}, NEW u, NEW target, NEW snap,
               Hands(s, pc, u, target, snap)
        PROVE  Kept
    <2>1. /\ UNCHANGED <<group, view, failures>>
          /\ \A t \in Slots : t # s => req'[t] = req[t]
          /\ req[s] = Idle
      BY <1>1, <1>6, HandingMoves DEF Hands
    <2>2. req'[s] = Handed(pc, u, target, snap)
      BY <1>1, <1>6 DEF Hands, TypeOK
    <2>3. /\ pc = "return" => snap = group /\ u \in Participants
          /\ pc = "write" => u = target \/ u \in Participants
      <3>1. MayAdmit(door[s]) => door[s].user = door[s].target \/ door[s].user \in Participants
        BY <1>1, <1>2 DEF MayAdmit, Shaped, DeciderIn
      <3> QED  BY <1>6, <3>1 DEF Hands
    <2>4. InStep(req'[s]) /\ req'[s].pc # "publish"
      BY <2>2, <2>3 DEF InStep, Handed
    <2>5. NoNews' => NoNews
      BY <2>1 DEF NoNews, Idle
    <2> QED  BY <1>2, <2>1, <2>4, <2>5, NothingShownChanges
  <1>7. ASSUME NEW s \in Slots, Store(s) \/ Publish(s) \/ Return(s) \/ Refuse(s) \/ Fail(s)
        PROVE  Kept
    <2>1. req[s] # Idle
      <3>1. CASE Store(s)
        BY <1>1, <3>1, WriteMoves
      <3>2. CASE Publish(s) \/ Return(s) \/ Refuse(s) \/ Fail(s)
        BY <3>2 DEF Publish, Return, Refuse, Fail, Idle
      <3> QED  BY <1>7, <3>1, <3>2
    <2>2. InStep(req[s]) /\ \A t \in Slots : t # s => req[t] = Idle
      BY <1>1, <1>2, <2>1, RunsAlone DEF CallsInStep
    <2>3. req[s].pc # "publish" /\ failures = 0 => Shown
      BY <1>2, <2>2 DEF NoNews, Idle
    <2>4. CASE Store(s)
      BY <1>1, <2>2, <2>3, <2>4, WriteMoves, StoresInStep
    <2>5. CASE Publish(s)
      BY <1>1, <2>2, <2>5, PublishesInStep
    <2>6. CASE Return(s)
      BY <1>1, <2>2, <2>3, <2>6, ReturnsInStep DEF Return
    <2>7. CASE Refuse(s) \/ Fail(s)
      <3>1. /\ UNCHANGED <<group, view>>
            /\ \A t \in Slots : req'[t] = IF t = s THEN Idle ELSE req[t]
        BY <1>1, <2>7 DEF Refuse, Fail, TypeOK
      <3>2. failures' = 0 => failures = 0 /\ req[s].pc = "write"
        BY <1>1, <2>7 DEF Refuse, Fail, TypeOK
      <3>3. failures' = 0 => failures = 0 /\ (NoNews' => NoNews)
        BY <3>1, <3>2 DEF NoNews
      <3> QED  BY <1>2, <3>1, <3>3, NothingShownChanges
    <2> QED  BY <1>7, <2>4, <2>5, <2>6, <2>7
  <1>8. Kept
    BY <1>1, <1>4, <1>5, <1>6, <1>7, CallSteps
  <1> QED  BY <1>3, <1>8

LEMMA ViewsStart ==
    ASSUME OverlapsInit
    PROVE  ViewsInv
  <1>1. \A s \in Slots : req[s] = Idle /\ door[s] = Idle
    BY DEF OverlapsInit, AdmissionInit, Init
  <1>2. Shown
    BY DEF OverlapsInit, AdmissionInit, Init, Shown, Cached, NotCached, Participants,
           ParticipantsOf
  <1> QED  BY <1>1, <1>2 DEF ViewsInv, CallsInStep, DeciderIn, MayAdmit, Idle

(* ADR 0017 par. 4: unless two calls on the group have overlapped or one was lost,
   no refetch is needed.  Whatever the doors and the managers do, at rest every
   client that has the conversation shows its people and its name as stored, and
   nobody who is out has a copy. *)
THEOREM ViewsCorrect == OverlapsSpec => []ViewsAgreeUnlessCrossed
  <1>1. OverlapsInit => ViewsInv
    BY ViewsStart
  <1>2. Noted /\ ViewsInv /\ [OverlapsNext]_overlapsVars => ViewsInv'
    BY StepKeepsViews
  <1>3. ViewsInv => ViewsAgreeUnlessCrossed
    BY DEF ViewsInv, NoNews, Shown, ViewsAgreeUnlessCrossed, ViewsAgree, Quiet, Idle
  <1> QED  BY <1>1, <1>2, <1>3, ClassInvariance, PTL DEF OverlapsSpec
=============================================================================
