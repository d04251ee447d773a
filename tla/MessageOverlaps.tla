-------------------------- MODULE MessageOverlaps --------------------------
(***************************************************************************)
(* What subscribers make of the announcements of Messages.  Nothing stops  *)
(* a sender from calling again on a message before the last call on it has *)
(* finished (two tabs, a retry); a history notes the messages it happened  *)
(* to, and of those a subscriber may show an older text.                   *)
(***************************************************************************)
EXTENDS Messages

VARIABLE raced      \* messages two calls of whose sender have overlapped

overlapsVars == <<vars, raced>>

\* A call of its sender on message id: the insert, an edit or a delete.
Writes(q, id) == q # Idle /\ OnStored(q) /\ ~IsReaction(q.op) /\ q.id = id

Racing == {id \in Ids : \E r, t \in Slots : r # t /\ Writes(req[r], id) /\ Writes(req[t], id)}

OverlapsInit == Init /\ raced = {}

OverlapsNext == Next /\ raced' = raced \cup Racing'

OverlapsSpec == OverlapsInit /\ [][OverlapsNext]_overlapsVars
-----------------------------------------------------------------------------
(* Once every request has finished, every stored message has been announced, and
   what a subscriber shows of it is the text, the deletion and the mentions
   storage holds, however reactions that read the row before an edit or a delete
   are announced after it.  Excepted are messages whose sender had two calls on
   them at once, and a request that died between its write and its event. *)
Quiet == \A r \in Slots : req[r] = Idle

ShownTextIsStored ==
    Quiet /\ failures = 0 => \A id \in Ids \ raced :
        /\ shown[id] # NotShown
        /\ [shown[id] EXCEPT !.reacts = {}] = [msgs[id] EXCEPT !.reacts = {}]

(* chatpack.ts line 1479: "A tombstone has an empty body already".  An edit that
   read the row before a delete and writes after it breaks it (both are calls of
   the sender); of every other message it holds, whatever reacts to it, is
   forwarded from it or dies. *)
TombstonesStayEmpty ==
    \A id \in Ids \ raced : msgs[id].deleted => msgs[id].body = NoBody
=============================================================================
