------------------------- MODULE AdmissionOverlaps -------------------------
(***************************************************************************)
(* Which calls on a group have overlapped, and what the group keeps of its *)
(* promises then.  Nothing is forbidden: every behaviour of Admission is   *)
(* one of this specification, and two histories note what met.             *)
(***************************************************************************)
EXTENDS Admission

VARIABLES
    crossed,    \* the classes of calls two of which have overlapped
    doubled     \* whoever two calls at once could have brought in

overlapsVars == <<admissionVars, crossed, doubled>>

ClassOf(op) ==
    CASE op = "add" -> "grow"
      [] op \in {"remove", "demote"} -> "shrink"
      [] op = "update" -> "update"
      [] op = "promote" -> "promote"

\* "any" is every call from its first look at the group to its response, "decide"
\* a decision on a join request; the others are the calls that have read the group
\* and not yet written.
Classes == {"grow", "shrink", "update", "decide", "any"}

\* An admission that has read the group, and may come to add its target.
MayAdmit(q) ==
    \/ q.pc = "consume" /\ ~q.inv.approval
    \/ q.pc \in {"decide", "resolve"} /\ q.approve

InFlight(s, class) ==
    \/ class = "any" /\ req[s] # Idle
    \/ req[s].pc = "write" /\ ClassOf(req[s].op) = class
    \/ class \in {"grow", "any"} /\ MayAdmit(door[s])
    \/ class = "decide" /\ door[s].pc \in {"decide", "resolve"}

\* The call may bring u in, or put them in the queue.
BringsIn(s, u) ==
    \/ req[s].pc = "write" /\ req[s].op = "add" /\ u \in req[s].targets
    \/ door[s].pc \notin {"idle", "mint"} /\ door[s].target = u

Crossing == {class \in Classes :
    \E s, t \in Slots : s # t /\ InFlight(s, class) /\ InFlight(t, class)}

Doubling == {u \in Users : \E s, t \in Slots : s # t /\ BringsIn(s, u) /\ BringsIn(t, u)}

OverlapsInit == AdmissionInit /\ crossed = {} /\ doubled = {}

OverlapsNext ==
    /\ AdmissionNext
    /\ crossed' = crossed \cup Crossing'
    /\ doubled' = doubled \cup Doubling'

OverlapsSpec == OverlapsInit /\ [][OverlapsNext]_overlapsVars
-----------------------------------------------------------------------------
(* Where no two removals or demotions have overlapped between their check and
   their write, the group has an admin, whatever else ran in between:
   additions, promotions, updates and admissions cannot take the last one. *)
AdminUnlessCrossed == "shrink" \notin crossed => AtLeastOneAdmin

(* Where no two additions have, the group is within its limit.  An admission
   counts from the moment it has read the group: the use of its link, or the
   decision, comes between that and the write. *)
LimitUnlessCrossed == "grow" \notin crossed => GroupWithinLimit

(* Where no two decisions have overlapped, a request to join is decided once,
   however often it is asked again and whoever comes in by other doors. *)
OneDecisionUnlessCrossed == "decide" \notin crossed => OneDecision

(* chatpack.ts updateConversation: an omitted field keeps its current value.
   Every field is written as it was read, so one of two overlapping updates
   undoes the other.  Where no two have overlapped, a field only changes in an
   update that was given it, whoever comes, goes or changes role meanwhile. *)
FieldsUnlessCrossed ==
    [][\A f \in Fields : "update" \notin crossed /\ group'.info[f] # group.info[f] =>
        \E s \in Slots : /\ req[s].pc = "write" /\ req'[s].pc = "publish"
                         /\ req[s].op = "update" /\ f \in DOMAIN req[s].patch]_overlapsVars

(* Where calls on the group have not overlapped and none was lost, every client
   that has the conversation shows its name and participants as stored once it
   is quiet, and someone who was removed has no copy: no refetch is needed.
   Links and requests may be under way all the while. *)
ViewsAgreeUnlessCrossed == "any" \notin crossed /\ failures = 0 => ViewsAgree

(* chatpack.ts acceptInvite: someone who is in already, or is waiting for
   approval, burns no use; a double-clicked link must not cost one.  Both are
   read before the use is spent, so it holds of whoever no two calls at once
   could have brought in (a second click, an addition, an approval), and calls
   about other people do not matter. *)
UsesUnlessDoubled ==
    [][\A s \in Slots :
        /\ door[s] # Idle /\ redeemed' # redeemed /\ door'[s] # door[s]
        /\ door[s].user \notin doubled
        => /\ door[s].user \notin Participants
           /\ door[s].inv.approval => request[door[s].user] # "pending"]_overlapsVars
=============================================================================
