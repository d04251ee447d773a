----------------------------- MODULE MessageLog -----------------------------
(***************************************************************************)
(* What a conversation's history promises its readers: an append-only      *)
(* sequence of posts.  The position of a post is its seq and never         *)
(* changes, and neither does what was frozen when it was written (its      *)
(* author, the message it answers, the thread it belongs to, the message   *)
(* it forwards).  The only later change is erasure, which is final.        *)
(* The text of a post may be rewritten, so it is not part of the log.      *)
(***************************************************************************)
EXTENDS Naturals, Sequences

CONSTANTS
    Conversations,  \* the conversations of the installation
    Posts           \* the frozen part of every possible message

VARIABLE
    log             \* [Conversations -> Seq of [post, erased]]

Entries == [post : Posts, erased : BOOLEAN]

LogInit == log = [c \in Conversations |-> <<>>]

\* The length comes first: it tells most steps apart without trying a post.
Post(c) ==
    /\ Len(log'[c]) = Len(log[c]) + 1
    /\ \E p \in Posts :
           log' = [log EXCEPT ![c] = Append(@, [post |-> p, erased |-> FALSE])]

Erase(c) ==
    \E s \in DOMAIN log[c] :
        log' = [log EXCEPT ![c] = [@ EXCEPT ![s].erased = TRUE]]

LogNext == \E c \in Conversations : Post(c) \/ Erase(c)

LogSpec == LogInit /\ [][LogNext]_log
=============================================================================
