-------------------------------- MODULE Calls -------------------------------
(***************************************************************************)
(* One call of the typed client and its way through the handler: asked,    *)
(* reached, answered.  What the operations do is the subject of the other  *)
(* modules; here the engine carries one out or refuses it.                 *)
(***************************************************************************)
EXTENDS Handler

VARIABLE call

NoCall == [stage |-> "none"]

\* The engine refuses with a code of its own, or fails.
Replies(to) ==
    {[keys |-> to.keys]} \cup {Refused(code) : code \in Codes \cup {"INTERNAL_ERROR"}}

Ask(name, given, caller) ==
    /\ call = NoCall
    /\ LET to == Handle(RequestOf(name, given), caller) IN
        \/ /\ "refused" \in DOMAIN to
           /\ call' = [stage |-> "reached", name |-> name, right |-> caller # "user", reply |-> to]
        \/ /\ "refused" \notin DOMAIN to
           /\ \E reply \in Replies(to) :
                call' = [stage |-> "reached", name |-> name, reply |-> reply,
                         right |-> caller = "user"
                                   /\ [op |-> to.op, args |-> to.args] = Meant(name, given)]

Answered(fate, gateway) ==
    /\ call.stage = "reached"
    /\ call' = [stage |-> "done", reply |-> call.reply, fate |-> fate,
                outcome |-> Outcome(call.name, call.reply, fate, gateway)]

CallsInit == call = NoCall

CallsNext ==
    \/ \E name \in Calls, caller \in {"user", "nobody", "banned"} :
        \E given \in Inputs(name) : Ask(name, given, caller)
    \/ \E fate \in Fates, gateway \in GatewayStatuses : Answered(fate, gateway)
-----------------------------------------------------------------------------
\* Whatever call is made, with whatever part of its input, the request it becomes
\* reaches the operation it means, and every field arrives as the argument it
\* stands for; without a user nothing is reached (client.ts:813-1386 against
\* handler.ts:595-1361).  And a caller learns why it was refused: the code of the
\* engine, and no success that did not happen; only a failing network or a gateway
\* hides it (request.ts:141-213 against STATUS_BY_CODE, handler.ts:106-157).
ReachesWhatItMeans == call.stage = "reached" => call.right

NamesItsRefusal ==
    call.stage = "done" =>
        /\ call.outcome = "ok" => call.fate = "intact" /\ "refused" \notin DOMAIN call.reply
        /\ call.fate = "intact" =>
            call.outcome = IF "refused" \in DOMAIN call.reply THEN call.reply.refused ELSE "ok"

CallsMeanWhatTheySay == ReachesWhatItMeans /\ NamesItsRefusal
=============================================================================
