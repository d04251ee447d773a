-------------------------- MODULE StorageContract --------------------------
(***************************************************************************)
(* What a storage adapter promises: every call of the interface takes      *)
(* effect at one instant, with the effect the memory adapter gives it in   *)
(* one synchronous function.  The other modules take storage to be this.   *)
(* One direct pair, one group, one of its messages that is edited, one user*)
(* who is blocked, muted, banned and reported, one invite, one join request*)
(***************************************************************************)
EXTENDS Integers, Sequences, FiniteSets

CONSTANTS
  Users,       \* people who join, react and are mentioned
  Moderators,  \* people who ban, revoke and decide
  Bodies,      \* texts of messages
  Titles,      \* titles of the group
  Ids,         \* fresh ids: of conversations, bans, reports, links; instants of creation
  MaxUses      \* uses the invite allows

VARIABLE store

Nobody == "nobody"
Empty == "empty"
Outside == [role |-> "out", read |-> FALSE]
None == -1
NoPair == [id |-> None, whole |-> FALSE]

Fresh(i) == /\ i # store.pair.id
            /\ i \notin DOMAIN store.rooms
            /\ i \notin DOMAIN store.bans \union DOMAIN store.reports \union store.links

With(f, k, v) == [x \in DOMAIN f \union {k} |-> IF x = k THEN v ELSE f[x]]

-----------------------------------------------------------------------------
(* Conversations and who is in them.                                       *)

GetOrCreateDirect(i) ==
  /\ store.pair = NoPair /\ Fresh(i)
  /\ store' = [store EXCEPT !.pair = [id |-> i, whole |-> TRUE]]

CreateGroup(i) ==
  /\ Fresh(i)
  /\ store' = [store EXCEPT !.rooms = With(@, i, TRUE)]

AddParticipant(u) ==
  /\ store.roster[u].role = "out"
  /\ store' = [store EXCEPT !.roster[u] = [role |-> "member", read |-> FALSE]]

RemoveParticipant(u) == store' = [store EXCEPT !.roster[u] = Outside]

SetParticipantRole(u, role) ==
  /\ store.roster[u].role # "out"
  /\ store' = [store EXCEPT !.roster[u].role = role]

UpdateLastRead(u) ==
  /\ store.roster[u].role # "out"
  /\ store' = [store EXCEPT !.roster[u].read = TRUE]

UpdateConversation(t) == store' = [store EXCEPT !.title = t]

-----------------------------------------------------------------------------
(* Messages, what search finds of them, mentions and reactions.            *)

Searchable(m) == IF m.gone THEN {} ELSE {m.body}

AddMessage(b) ==
  LET m == [body |-> b, gone |-> FALSE]
  IN  store' = [store EXCEPT !.log = Append(@, m), !.found = Append(@, Searchable(m))]

\* An edit sets the text and leaves a tombstone one; a deletion sets deletedAt
\* and an empty text.
UpdateMessage(q, b, gone) ==
  /\ q \in DOMAIN store.log
  /\ LET m == [body |-> b, gone |-> store.log[q].gone \/ gone]
     IN  store' = [store EXCEPT !.log[q] = m, !.found[q] = Searchable(m)]

SetMessageMentions(U) == store' = [store EXCEPT !.mentions = U]
AddReaction(u) == store' = [store EXCEPT !.reactions = @ \union {u}]
RemoveReaction(u) == store' = [store EXCEPT !.reactions = @ \ {u}]

-----------------------------------------------------------------------------
(* Moderation: the first block, mute, ban and revocation stay.             *)

CreateBlock(i) == store.block = None /\ store' = [store EXCEPT !.block = i]
RemoveBlock == store' = [store EXCEPT !.block = None]
CreateMute(i) == store.mute = None /\ store' = [store EXCEPT !.mute = i]
RemoveMute == store' = [store EXCEPT !.mute = None]

Active == {b \in DOMAIN store.bans : store.bans[b].revokedBy = Nobody}

CreateBan(i, by) ==
  /\ Active = {} /\ Fresh(i)
  /\ store' = [store EXCEPT !.bans = With(@, i, [by |-> by, revokedBy |-> Nobody])]

RevokeBan(b, by) ==
  /\ b \in Active
  /\ store' = [store EXCEPT !.bans[b].revokedBy = by]

\* Whether a report is open already is for the engine to find out.
CreateReport(i) ==
  /\ Fresh(i)
  /\ store' = [store EXCEPT !.reports = With(@, i, [status |-> "open", by |-> Nobody])]

UpdateReport(i, status, by) ==
  /\ i \in DOMAIN store.reports
  /\ store' = [store EXCEPT !.reports[i] = [status |-> status, by |-> by]]

-----------------------------------------------------------------------------
(* Admission.                                                              *)

CreateInvite(i) == Fresh(i) /\ store' = [store EXCEPT !.links = @ \union {i}]
DeleteInvite == store' = [store EXCEPT !.uses = None]

ConsumeInvite ==
  /\ store.uses # None /\ store.uses < MaxUses
  /\ store' = [store EXCEPT !.uses = @ + 1]

CreateJoinRequest ==
  store' = [store EXCEPT !.request = [status |-> "pending", by |-> Nobody]]

ResolveJoinRequest(status, by) ==
  /\ store.request.status # "none"
  /\ store' = [store EXCEPT !.request = [status |-> status, by |-> by]]

-----------------------------------------------------------------------------
(* Earlier calls have left each table in some state, with 0 for their ids. *)

Init ==
  /\ store.pair \in {NoPair, [id |-> 0, whole |-> TRUE]} /\ store.rooms = <<>>
  /\ store.roster \in [Users -> [role : {"out", "member", "admin"}, read : BOOLEAN]]
  /\ Len(store.found) = Len(store.log)
  /\ \A q \in DOMAIN store.log : store.found[q] = Searchable(store.log[q])
  /\ store.mentions \subseteq Users /\ store.reactions \subseteq Users
  /\ {store.block, store.mute} \subseteq {None, 0} /\ DOMAIN store.bans \subseteq {0}
  /\ store.uses \in 0..MaxUses /\ store.links = {} /\ DOMAIN store.reports \subseteq {0}

Next ==
  \/ \E i \in Ids : GetOrCreateDirect(i) \/ CreateGroup(i) \/ CreateBlock(i) \/ CreateMute(i)
                        \/ CreateReport(i) \/ CreateInvite(i)
  \/ \E u \in Users : AddParticipant(u) \/ RemoveParticipant(u) \/ UpdateLastRead(u)
                        \/ SetParticipantRole(u, "admin") \/ AddReaction(u) \/ RemoveReaction(u)
  \/ \E t \in Titles : UpdateConversation(t)
  \/ \E b \in Bodies : AddMessage(b)
  \/ \E q \in DOMAIN store.log : \/ UpdateMessage(q, Empty, TRUE)
                                \/ \E b \in Bodies : UpdateMessage(q, b, FALSE)
  \/ \E U \in {{}} \union {{u} : u \in Users} : SetMessageMentions(U)
  \/ RemoveBlock \/ RemoveMute \/ DeleteInvite \/ ConsumeInvite \/ CreateJoinRequest
  \/ \E m \in Moderators : \/ \E i \in Ids : CreateBan(i, m)
                           \/ \E b \in DOMAIN store.bans : RevokeBan(b, m)
                           \/ \E s \in {"approved", "denied"} : ResolveJoinRequest(s, m)
                           \/ \E i \in DOMAIN store.reports, s \in {"triaged", "resolved"} :
                                UpdateReport(i, s, m)

Spec == Init /\ [][Next]_store
=============================================================================
