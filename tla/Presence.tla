------------------------------ MODULE Presence ------------------------------
(***************************************************************************)
(* The presence plugin (plugins/presence.ts) for one user whose streams    *)
(* come and go on several nodes, over a shared store (redisPresenceStore). *)
(*                                                                         *)
(* A stream is a lease in the store, renewed by a heartbeat.  When the last *)
(* one closes, the node that served it waits a while and then asks the     *)
(* store to confirm that the user is still away.  The store decides which  *)
(* transitions there are; the node that is told of one looks up the user's *)
(* partners and publishes it, some time later.                             *)
(*                                                                         *)
(* Time is kept as what remains of each lease, token and timer, so that    *)
(* Tick needs no bound.                                                    *)
(***************************************************************************)
EXTENDS Integers, Sequences, SequencesExt

CONSTANTS
  Nodes,          \* server processes
  MaxConns,       \* bound: streams, used once and in this order
  LeaseTtl,       \* lifetime of a lease (leaseTtlMs)
  BeatEvery,      \* interval of a stream's heartbeat
  OfflineDelay,   \* wait before a last close is confirmed (offlineDelayMs)
  TokenSlack,     \* what the token outlives that wait by (1000 ms in Redis)
  MaxLag,         \* how late a timer may fire
  MaxMishaps      \* bound: crashes of a node, calls of the store that fail and answers
                  \* of it that are lost

ASSUME PresenceAssumption ==
  /\ {LeaseTtl, BeatEvery, OfflineDelay, TokenSlack} \subseteq Nat \ {0}
  /\ {MaxConns, MaxLag, MaxMishaps} \subseteq Nat
  /\ BeatEvery + MaxLag < LeaseTtl
  /\ MaxLag < TokenSlack

VARIABLES
  lease,      \* store: what remains of each lease, 0 when there is none
  pending,    \* store: the token of the offline that waits, and its lifetime
  conn,       \* each stream as its node sees it
  beat,       \* what remains until its next heartbeat
  beating,    \* heartbeats sent and not yet executed by the store
  missed,     \* history: the heartbeats of each stream that failed in a row, for good
              \* once they were too many
  timer,      \* each node's offline timer for this user
  replies,    \* answers of the store on their way to a node
  announcing, \* transitions whose partners are being looked up
  told,       \* what the partners were last told
  history     \* last decision of the store, time away, what went wrong

store == <<lease, pending>>
vars == <<lease, pending, conn, beat, beating, missed, timer, replies, announcing, told, history>>

Conns == 1..MaxConns
NoToken == 0
NoPending == [token |-> NoToken, left |-> 0]

Init ==
  /\ lease = [c \in Conns |-> 0]
  /\ pending = NoPending
  /\ conn = [c \in Conns |-> [phase |-> "unused", node |-> "none", gone |-> FALSE]]
  /\ beat = [c \in Conns |-> 0]
  /\ beating = {}
  /\ missed = [c \in Conns |-> 0]
  /\ timer = [n \in Nodes |-> NoPending]
  /\ replies = [n \in Nodes |-> <<>>]
  /\ announcing = <<>>
  /\ told = [what |-> "nothing", no |-> 0]
  /\ history = [decided |-> "nothing", count |-> 0, away |-> OfflineDelay, again |-> {},
                crossed |-> FALSE, swallowed |-> 0, failures |-> 0]

-----------------------------------------------------------------------------
(* The store.  Each script first removes the leases that have run out.     *)

Live == {c \in Conns : lease[c] > 0}

Mishaps == history.swallowed + history.failures

Decide(d) ==
  IF d = "nothing" THEN history
  ELSE [history EXCEPT !.decided = d, !.count = @ + 1,
                       !.again = IF history.decided = d THEN @ \union {d} ELSE @]

Answer(n, kind, c, result) ==
  replies' = [replies EXCEPT ![n] =
    Append(@, [kind |-> kind, conn |-> c, result |-> result, no |-> history.count + 1])]

\* Bug: the token that waits is overlooked.
OpenResultUnlessLive == IF Live = {} THEN "online" ELSE "nothing"

\* A user who was neither online nor about to be reported offline comes online.
OpenResult == IF Live = {} /\ pending.token = NoToken THEN "online" ELSE "nothing"

StoreOpen(c) ==
  /\ conn[c].phase = "opening"
  /\ lease' = [lease EXCEPT ![c] = LeaseTtl]
  /\ pending' = NoPending
  /\ history' = [Decide(OpenResult) EXCEPT !.away = 0]
  /\ Answer(conn[c].node, "open", c, OpenResult)
  /\ conn' = [conn EXCEPT ![c].phase = "opened"]
  /\ UNCHANGED <<beat, beating, timer, announcing, told, missed>>

\* A call of the store fails, and the plugin logs it.
Failure ==
  /\ Mishaps < MaxMishaps
  /\ history' = [history EXCEPT !.failures = @ + 1]

\* The stream goes on without a lease.
StoreOpenFails(c) ==
  /\ conn[c].phase = "opening"
  /\ Failure
  /\ conn' = [conn EXCEPT ![c].phase = "unleased"]
  /\ UNCHANGED <<lease, pending, beat, beating, timer, replies, announcing, told, missed>>

\* A heartbeat renews a lease and never makes one.
Renewed(c) == IF c \in Live THEN LeaseTtl ELSE 0

\* A lease outlives so many heartbeats that fail in a row, each as late as may be.
Outlives(n) == (n + 1) * (BeatEvery + MaxLag) < LeaseTtl

StoreBeat(c) ==
  /\ c \in beating
  /\ lease' = [lease EXCEPT ![c] = Renewed(c)]
  /\ beating' = beating \ {c}
  /\ missed' = [missed EXCEPT ![c] = IF Outlives(@) THEN 0 ELSE @]
  /\ UNCHANGED <<pending, conn, beat, timer, replies, announcing, told, history>>

\* The lease is not renewed; the interval goes on.
StoreBeatFails(c) ==
  /\ c \in beating
  /\ Failure
  /\ beating' = beating \ {c}
  /\ missed' = [missed EXCEPT ![c] = @ + 1]
  /\ UNCHANGED <<lease, pending, conn, beat, timer, replies, announcing, told>>

\* Bug: the token lives no longer than the timer that will present it.
TokenLifeBare == OfflineDelay

\* Slightly longer than the timer: the two run on different clocks.
TokenLife == OfflineDelay + TokenSlack

\* Bug: a close removes all leases of the user.
CloseDropsAll(c) == [b \in Conns |-> 0]

WithoutLease(c) == [lease EXCEPT ![c] = 0]

\* The close of the last lease leaves a token behind.
LeavesToken(c) == Live = {c}

StoreClose(c) ==
  /\ conn[c].phase = "closing"
  /\ lease' = WithoutLease(c)
  /\ pending' = IF LeavesToken(c) THEN [token |-> c, left |-> TokenLife]
                ELSE pending
  /\ Answer(conn[c].node, "close", c, IF LeavesToken(c) THEN c ELSE NoToken)
  /\ conn' = [conn EXCEPT ![c].phase = "closed"]
  /\ UNCHANGED <<beat, beating, timer, announcing, told, history, missed>>

\* The lease stays until it runs out, and no offline is scheduled.
StoreCloseFails(c) ==
  /\ conn[c].phase = "closing"
  /\ Failure
  /\ conn' = [conn EXCEPT ![c].phase = "closed"]
  /\ UNCHANGED <<lease, pending, beat, beating, timer, replies, announcing, told, missed>>

\* Bug: whatever token waits will do.
ConfirmsAny(token) == pending.token # NoToken /\ Live = {}

\* Offline is confirmed only for the token that still waits.
Confirms(token) == pending.token = token /\ Live = {}

-----------------------------------------------------------------------------
(* The plugin on a node.                                                   *)

\* onStreamOpen stops this node's offline timer before it calls the store.
StreamOpen(c, n) ==
  /\ conn[c].phase = "unused" /\ \A b \in Conns : b < c => conn[b].phase # "unused"
  /\ conn' = [conn EXCEPT ![c] = [phase |-> "opening", node |-> n, gone |-> FALSE]]
  /\ timer' = [timer EXCEPT ![n] = NoPending]
  /\ UNCHANGED <<lease, pending, beat, beating, replies, announcing, told, history, missed>>

\* The stream ends.  onStreamClose waits for onStreamOpen to have finished.
StreamGone(c) ==
  /\ conn[c].phase \in {"opening", "opened", "open", "unleased"} /\ ~conn[c].gone
  /\ conn' = [conn EXCEPT ![c].gone = TRUE]
  /\ UNCHANGED <<lease, pending, beat, beating, timer, replies, announcing, told, history, missed>>

StreamClose(c) ==
  /\ conn[c].phase \in {"open", "unleased"} /\ conn[c].gone
  /\ conn' = [conn EXCEPT ![c].phase = "closing"]
  /\ UNCHANGED <<lease, pending, beat, beating, timer, replies, announcing, told, history, missed>>

BeatFires(c) ==
  /\ conn[c].phase = "open" /\ beat[c] <= 0 /\ c \notin beating
  /\ beating' = beating \union {c}
  /\ beat' = [beat EXCEPT ![c] = BeatEvery]
  /\ UNCHANGED <<lease, pending, conn, timer, replies, announcing, told, history, missed>>

\* Bug: no transition is announced while the partners of another are looked up.
TransitionUnlessBusy(n, r) ==
  announcing' = IF r.result = "nothing" \/ announcing # <<>> THEN announcing
                ELSE Append(announcing, [node |-> n, what |-> r.result, no |-> r.no])

Transition(n, r) ==
  announcing' = IF r.result = "nothing" THEN announcing
                ELSE Append(announcing, [node |-> n, what |-> r.result, no |-> r.no])

OpenReply(n) ==
  /\ replies[n] # <<>> /\ Head(replies[n]).kind = "open"
  /\ LET r == Head(replies[n]) IN
       /\ conn' = [conn EXCEPT ![r.conn].phase = "open"]
       /\ beat' = [beat EXCEPT ![r.conn] = BeatEvery]
       /\ Transition(n, r)
  /\ replies' = [replies EXCEPT ![n] = Tail(@)]
  /\ UNCHANGED <<lease, pending, beating, timer, told, history, missed>>

\* clearOfflineTimer and scheduleOffline: one timer for the user on each node.
CloseReply(n) ==
  /\ replies[n] # <<>> /\ Head(replies[n]).kind = "close"
  /\ LET token == Head(replies[n]).result IN
       timer' = IF token = NoToken THEN timer
                ELSE [timer EXCEPT ![n] = [token |-> token, left |-> OfflineDelay]]
  /\ replies' = [replies EXCEPT ![n] = Tail(@)]
  /\ UNCHANGED <<lease, pending, conn, beat, beating, announcing, told, history, missed>>

TimerFires(n) ==
  /\ timer[n].token # NoToken /\ timer[n].left <= 0
  /\ timer' = [timer EXCEPT ![n] = NoPending]
  /\ IF Confirms(timer[n].token)
     THEN /\ pending' = NoPending
          /\ history' = Decide("offline")
          /\ Answer(n, "finalize", timer[n].token, "offline")
     ELSE UNCHANGED <<pending, history, replies>>
  /\ UNCHANGED <<lease, conn, beat, beating, announcing, told, missed>>

\* Nobody else asks for the confirmation: the token runs out.
FinalizeFails(n) ==
  /\ timer[n].token # NoToken /\ timer[n].left <= 0
  /\ Failure
  /\ timer' = [timer EXCEPT ![n] = NoPending]
  /\ UNCHANGED <<lease, pending, conn, beat, beating, replies, announcing, told, missed>>

FinalizeReply(n) ==
  /\ replies[n] # <<>> /\ Head(replies[n]).kind = "finalize"
  /\ Transition(n, Head(replies[n]))
  /\ replies' = [replies EXCEPT ![n] = Tail(@)]
  /\ UNCHANGED <<lease, pending, conn, beat, beating, timer, told, history, missed>>

\* publishTransition: the partners are looked up first, so that one transition
\* may overtake another.
Announce(i) ==
  /\ told' = [what |-> announcing[i].what, no |-> announcing[i].no]
  /\ announcing' = RemoveAt(announcing, i)
  /\ history' = [history EXCEPT !.crossed = @ \/ announcing[i].no < told.no]
  /\ UNCHANGED <<lease, pending, conn, beat, beating, timer, replies, missed>>

\* The store has executed a call and its answer does not arrive: for the plugin it
\* failed.
AnswerLost(n) ==
  /\ replies[n] # <<>> /\ Mishaps < MaxMishaps
  /\ conn' = IF Head(replies[n]).kind = "open"
             THEN [conn EXCEPT ![Head(replies[n]).conn].phase = "unleased"] ELSE conn
  /\ replies' = [replies EXCEPT ![n] = Tail(@)]
  /\ history' = [history EXCEPT !.swallowed = @ + 1]
  /\ UNCHANGED <<lease, pending, beat, beating, timer, announcing, told, missed>>

\* A node dies and comes back with no streams and no timers.
Crash(n) ==
  /\ Mishaps < MaxMishaps
  /\ conn' = [c \in Conns |->
       IF conn[c].node = n THEN [conn[c] EXCEPT !.phase = "dead"] ELSE conn[c]]
  /\ timer' = [timer EXCEPT ![n] = NoPending]
  /\ replies' = [replies EXCEPT ![n] = <<>>]
  /\ announcing' = SelectSeq(announcing, LAMBDA a : a.node # n)
  /\ beating' = {c \in beating : conn[c].node # n}
  /\ history' = [history EXCEPT !.swallowed = @ + 1]
  /\ UNCHANGED <<lease, pending, beat, told, missed>>

-----------------------------------------------------------------------------
(* Time.  Timers are at most MaxLag late, and the store answers in less    *)
(* than a tick; looking up partners may take any time.                     *)

Prompt ==
  /\ beating = {} /\ \A n \in Nodes : replies[n] = <<>>
  /\ \A c \in Conns : conn[c].phase \notin {"opening", "closing"}
  /\ \A c \in Conns : conn[c].phase = "open" => beat[c] > -MaxLag
  /\ \A n \in Nodes : timer[n].token # NoToken => timer[n].left > -MaxLag

Less(x) == IF x > 0 THEN x - 1 ELSE 0

Aged(p) == IF p.left > 1 THEN [p EXCEPT !.left = @ - 1] ELSE NoPending

Capped(x, y) == IF x < y THEN x + 1 ELSE y

Tick ==
  /\ Prompt
  /\ lease' = [c \in Conns |-> Less(lease[c])]
  /\ pending' = Aged(pending)
  /\ beat' = [c \in Conns |-> IF conn[c].phase = "open" THEN beat[c] - 1 ELSE 0]
  /\ timer' = [n \in Nodes |->
       IF timer[n].token = NoToken THEN NoPending ELSE [timer[n] EXCEPT !.left = @ - 1]]
  /\ history' = [history EXCEPT !.away = IF Live = {} THEN Capped(@, OfflineDelay) ELSE 0]
  /\ UNCHANGED <<conn, beating, replies, announcing, told, missed>>

-----------------------------------------------------------------------------
Opening(c) == StoreOpen(c) \/ StoreOpenFails(c)

Beating(c) == StoreBeat(c) \/ StoreBeatFails(c)

Closing(c) == StoreClose(c) \/ StoreCloseFails(c)

StoreStep(c) == Opening(c) \/ Beating(c) \/ Closing(c)

StreamStep(c) ==
  \/ StreamGone(c) \/ StreamClose(c) \/ BeatFires(c)
  \/ \E n \in Nodes : StreamOpen(c, n)

Replied(n) == OpenReply(n) \/ CloseReply(n) \/ FinalizeReply(n) \/ AnswerLost(n)

Confirming(n) == TimerFires(n) \/ FinalizeFails(n)

NodeStep(n) == Replied(n) \/ Confirming(n) \/ Crash(n)

Next ==
  \/ \E c \in Conns : StoreStep(c) \/ StreamStep(c)
  \/ \E n \in Nodes : NodeStep(n)
  \/ \E i \in DOMAIN announcing : Announce(i)
  \/ Tick

Spec == Init /\ [][Next]_vars

\* Promises settle, timers fire and time passes.  Nobody has to open or to close
\* a stream.
Fairness ==
  /\ \A c \in Conns : WF_vars(Opening(c)) /\ WF_vars(Beating(c)) /\ WF_vars(Closing(c))
  /\ \A c \in Conns : WF_vars(StreamClose(c)) /\ WF_vars(BeatFires(c))
  /\ \A n \in Nodes : WF_vars(Replied(n)) /\ WF_vars(Confirming(n))
  /\ WF_vars(\E i \in DOMAIN announcing : Announce(i))
  /\ WF_vars(Tick)

FairSpec == Spec /\ Fairness

-----------------------------------------------------------------------------
(* Properties.                                                             *)

Phases == {"unused", "opening", "opened", "open", "unleased", "closing", "closed", "dead"}

\* The variables have their types, and a timer's token was left by a stream that
\* is closed.
TypeOK ==
  /\ lease \in [Conns -> 0..LeaseTtl]
  /\ pending \in [token: Conns \union {NoToken}, left: 0..TokenLife]
  /\ conn \in [Conns -> [phase: Phases, node: Nodes \union {"none"}, gone: BOOLEAN]]
  /\ beat \in [Conns -> (-MaxLag)..BeatEvery] /\ beating \subseteq Conns
  /\ missed \in [Conns -> Nat]
  /\ timer \in [Nodes -> [token: Conns \union {NoToken}, left: (-MaxLag)..OfflineDelay]]
  /\ \A n \in Nodes : timer[n].token = NoToken \/ conn[timer[n].token].phase \in {"closed", "dead"}
  /\ told.what \in {"nothing", "online", "offline"} /\ told.no \in 0..history.count

\* "Whether at least one live connection exists" (PresenceState.online): the user
\* is online as long as a stream that got its lease is up, through any number of
\* heartbeats, closes of other streams, failed calls and crashes of other nodes.
\* Heartbeats may fail too, as long as not so many do in a row that the lease runs
\* out: no later one brings it back.
OnlineWhileConnected ==
  \A c \in Conns :
    conn[c].phase \in {"opened", "open"} /\ Outlives(missed[c]) => c \in Live

\* Offline is decided only when the user has been away for the whole delay: a
\* page reload, or a stream that moves to another node, is not seen as one.
ReloadsAreNotSeen ==
  [][history'.decided = "offline" /\ history.decided # "offline" =>
       history.away = OfflineDelay /\ Live = {}]_vars

\* The store never decides offline twice in a row, and online twice only when a
\* crash or a failed call swallowed the offline in between.
TransitionsAlternate ==
  /\ history.again \subseteq {"online"}
  /\ history.again # {} => Mishaps > 0

AtRest ==
  /\ announcing = <<>> /\ \A n \in Nodes : replies[n] = <<>>
  /\ \A c \in Conns : conn[c].phase # "opening"

\* When nothing is under way, partners of an online user have been told so, unless
\* two transitions overtook each other on their way, or one was taken along by a
\* crash or by an answer that was lost.
OnlineIsKnown ==
  AtRest /\ Live # {} =>
    told.what = "online" \/ history.crossed \/ history.swallowed > 0

\* What partners hear of a user is sound: transitions alternate and the last of
\* them is true.
TransitionsAreSound == TransitionsAlternate /\ OnlineIsKnown

\* When the last stream is gone for good, the partners are told, unless a node
\* died, a call of the store failed or two transitions overtook each other.
Away == \A c \in Conns : conn[c].gone \/ conn[c].phase = "unused"

OfflineIsAnnounced ==
  Away ~> \/ ~Away \/ told.what # "online"
          \/ history.crossed \/ Mishaps > 0

\* Partners hear "offline" when, and only when, the user is gone.
OfflineIsSound == ReloadsAreNotSeen /\ OfflineIsAnnounced
=============================================================================
