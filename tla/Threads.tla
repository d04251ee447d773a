------------------------------- MODULE Threads ------------------------------
(***************************************************************************)
(* Followed threads and their alerts in the reference app                  *)
(* (apps/app/src/lib/thread-state.ts, thread-delivery.ts).  A reply that   *)
(* was stored runs a hook: one transaction writes the follow rows and the  *)
(* alerts, then the alerts are delivered; a scheduled call retries what    *)
(* failed.  One thread; a reply is numbered by its place in it.            *)
(*                                                                         *)
(* The transaction runs at READ COMMITTED: a row that another one wrote is *)
(* waited for.  Two that wait for each other are a deadlock, and the       *)
(* database rolls one of them back.  Read marks and the order of the inbox *)
(* are left out: no alert depends on them.                                 *)
(***************************************************************************)
EXTENDS Naturals, Sequences, FiniteSets, SequencesExt

CONSTANTS
    Users,
    Author,         \* who started the thread
    Configured,     \* the channels that have their keys: "email", "push"
    MaxAttempts,    \* how often a channel is tried
    RetryLimit,     \* how many replies one scheduled call takes on
    MaxReplies,     \* bound: replies
    MaxMishaps      \* bound: requests to follow or mute, departures, refusals of a
                    \* provider and deaths of a process, together

ASSUME ThreadsAssumption ==
    /\ Author \in Users
    /\ Configured \subseteq {"email", "push"}
    /\ {MaxAttempts, RetryLimit} \subseteq Nat \ {0}
    /\ {MaxReplies, MaxMishaps} \subseteq Nat

VARIABLES
    direct,     \* the conversation is a direct one
    members,    \* who is in the room
    sent,       \* the replies: by whom, whom they mention, who was in the room
    follows,    \* the committed rows: "none", "on" or "muted"
    alerts,     \* the jobs, <<reply, user>> -> channel -> [done, attempts]
    hook,       \* the hook of each reply
    work,       \* the deliveries under way, one of each reply's hook, one of the schedule
    asks,       \* the statements that a user's request has left
    disturbed,  \* ghost: a provider took an alert for one of those in quiet
    owed,       \* ghost: <<reply, user>> where the user counts on the alert
    quiet,      \* ghost: <<reply, user>> where the user had muted the thread
    mishaps

room == <<direct, members, sent>>
ghosts == <<disturbed, owed, quiet>>
vars == <<room, follows, alerts, hook, work, asks, ghosts, mishaps>>

Mishap == mishaps < MaxMishaps /\ mishaps' = mishaps + 1

Replies == 1 .. MaxReplies
Workers == Replies \X {"hook", "cron"}

NoWork == [stage |-> "idle", left |-> {}, now |-> <<>>]

TypeOK ==
    /\ direct \in BOOLEAN /\ members \subseteq Users
    /\ follows \in [Users -> {"none", "on", "muted"}]
    /\ DOMAIN alerts \subseteq Replies \X Users
    /\ \A a \in DOMAIN alerts : alerts[a] \in [Configured -> [done : BOOLEAN, attempts : Nat]]
    /\ \A r \in Replies :
        hook[r].stage \in {"none", "upsert", "all", "done", "aborted", "dead"}
    /\ \A w \in Workers : work[w].stage \in {"idle", "select", "send", "record"}
    /\ {owed, quiet} \subseteq SUBSET (Replies \X Users)
    /\ disturbed \in BOOLEAN

Init ==
    /\ direct \in BOOLEAN
    /\ members \in {M \in SUBSET Users : Author \in M /\ (direct => Cardinality(M) = 2)}
    /\ follows \in [Users -> {"none", "on", "muted"}]
    /\ \A u \in Users \ members : follows[u] = "none"
    /\ sent = <<>> /\ alerts = <<>> /\ disturbed = FALSE /\ owed = {} /\ quiet = {}
    /\ hook = [r \in Replies |-> [stage |-> "none", todo |-> <<>>, own |-> <<>>]]
    /\ work = [w \in Workers |-> NoWork]
    /\ asks = [u \in Users |-> <<>>]
    /\ mishaps = 0
-----------------------------------------------------------------------------
(***************************************************************************)
(* A reply is stored, and its hook runs in the process that stored it.     *)
(***************************************************************************)

\* Bug: the sender's own row comes first.
FollowersFromSender(reply) ==
    <<reply.by>> \o (IF reply.by = Author THEN <<>> ELSE <<Author>>)
    \o SelectSeq(reply.mentions, LAMBDA u : u \notin {reply.by, Author})

\* Who follows by a reply: author, sender and those mentioned, each once, in this
\* order, and in a direct conversation the other too; all of them in the room.
Followers(reply) ==
    LET named == <<Author, reply.by>> \o reply.mentions
                 \o (IF direct THEN SetToSeq(reply.room \ {reply.by}) ELSE <<>>)
        first(i) == \A j \in 1 .. i - 1 : named[j] # named[i]
        kept == SelectSeq([i \in DOMAIN named |-> i],
                          LAMBDA i : named[i] \in reply.room /\ first(i))
    IN [k \in DOMAIN kept |-> named[kept[k]]]

\* Bound: a reply mentions nobody or one.
Mentions(by) == {<<>>} \cup {<<u>> : u \in members \ {by}}

\* The ghosts: who counts on being disturbed, by a row or by the reply itself, and who
\* counts on not being told.
Counts(u, reply) ==
    /\ u \in members \ {reply.by}
    /\ asks[u] = <<>>
    /\ \/ follows[u] = "on"
       \/ follows[u] = "none" /\ \E i \in DOMAIN Followers(reply) : Followers(reply)[i] = u

Muted(u) == follows[u] = "muted" /\ asks[u] = <<>>

Send(by, mentions) ==
    LET r == Len(sent) + 1
        reply == [by |-> by, mentions |-> mentions, room |-> members]
    IN /\ r \in Replies
       /\ sent' = Append(sent, reply)
       /\ hook' = [hook EXCEPT ![r].stage = "upsert", ![r].todo = Followers(reply)]
       /\ owed' = owed \cup {<<r, u>> : u \in {v \in Users : Counts(v, reply)}}
       /\ quiet' = quiet \cup {<<r, u>> : u \in {v \in Users : Muted(v)}}
       /\ UNCHANGED <<direct, members, follows, alerts, work, asks, disturbed, mishaps>>

\* The rows a transaction wrote are its own until it ends.
Held(u, r) == \E s \in Replies \ {r} : u \in DOMAIN hook[s].own

\* A row as the transaction of r sees it.
Row(u, r) == IF u \in DOMAIN hook[r].own THEN hook[r].own[u] ELSE follows[u]

\* Bug: whoever is mentioned hears of the thread again.
UpsertedAloud(row) == "on"

\* A row that is there keeps its mute.
Upserted(row) == IF row = "none" THEN "on" ELSE row

\* The next row of the statement, written when nobody else holds it.
TakeRow(r, new(_)) ==
    LET u == Head(hook[r].todo) IN
    /\ hook[r].todo # <<>>
    /\ ~Held(u, r)
    /\ hook' = [hook EXCEPT
        ![r].todo = Tail(@),
        ![r].own = [v \in DOMAIN @ \cup {u} |-> IF v = u THEN new(Row(u, r)) ELSE @[v]]]

UpsertFollow(r) ==
    /\ hook[r].stage = "upsert"
    /\ TakeRow(r, Upserted)
    /\ UNCHANGED <<room, follows, alerts, work, asks, ghosts, mishaps>>

\* The update of every row of the thread starts: it meets them in any order.
UpdateAll(r) ==
    /\ hook[r].stage = "upsert" /\ hook[r].todo = <<>>
    /\ \E rows \in SetToSeqs({u \in Users : follows[u] # "none"} \ DOMAIN hook[r].own) :
        hook' = [hook EXCEPT ![r].stage = "all", ![r].todo = rows]
    /\ UNCHANGED <<room, follows, alerts, work, asks, ghosts, mishaps>>

UpdateRow(r) ==
    /\ hook[r].stage = "all"
    /\ TakeRow(r, LAMBDA row : row)
    /\ UNCHANGED <<room, follows, alerts, work, asks, ghosts, mishaps>>

\* Everybody who follows, is not muted and is in the room, but for the sender.
Recipients(r) == {u \in members \ {sent[r].by} : Row(u, r) = "on"}

\* The recipients are read, their alerts inserted, and the transaction commits;
\* delivery comes next.  Nothing waits between these: what another does meanwhile
\* it might as well do after.  Whoever is between the two statements of a repeated
\* mute is taken for a follower.
Reopened(r) == {r} \X {u \in Recipients(r) : asks[u] # <<>>}

Commit(r) ==
    /\ hook[r].stage = "all" /\ hook[r].todo = <<>>
    /\ follows' = [u \in Users |-> Row(u, r)]
    /\ alerts' = [a \in DOMAIN alerts \cup ({r} \X Recipients(r)) |->
                    IF a \in DOMAIN alerts THEN alerts[a]
                    ELSE [ch \in Configured |-> [done |-> FALSE, attempts |-> 0]]]
    /\ hook' = [hook EXCEPT ![r].stage = "done", ![r].own = <<>>]
    /\ work' = [work EXCEPT ![<<r, "hook">>].stage = "select"]
    /\ quiet' = quiet \ Reopened(r)
    /\ UNCHANGED <<room, asks, disturbed, owed, mishaps>>

\* Whom a transaction waits for, and the end of one that waits in a circle: its
\* error is logged, and its alerts are never written.
WaitsFor(r) ==
    {s \in Replies \ {r} : hook[r].todo # <<>> /\ Head(hook[r].todo) \in DOMAIN hook[s].own}

Deadlocked(r) == \E s \in WaitsFor(r) : r \in WaitsFor(s)

RolledBack(r, stage) ==
    [hook EXCEPT ![r] = [stage |-> stage, todo |-> <<>>, own |-> <<>>]]

Abort(r) ==
    /\ Deadlocked(r)
    /\ hook' = RolledBack(r, "aborted")
    /\ UNCHANGED <<room, follows, alerts, work, asks, ghosts, mishaps>>

\* The process of the hook dies, before or while it delivers.
Crash(r) ==
    /\ Mishap
    /\ \/ /\ hook[r].stage \in {"upsert", "all"}
          /\ hook' = RolledBack(r, "dead")
          /\ UNCHANGED work
       \/ /\ work[<<r, "hook">>].stage # "idle"
          /\ work' = [work EXCEPT ![<<r, "hook">>] = NoWork]
          /\ UNCHANGED hook
    /\ UNCHANGED <<room, follows, alerts, asks, ghosts>>
-----------------------------------------------------------------------------
(***************************************************************************)
(* Delivery.                                                               *)
(***************************************************************************)

\* The channels of an alert that are still to be tried.
Open(r, u) ==
    {ch \in Configured : ~alerts[<<r, u>>][ch].done /\ alerts[<<r, u>>][ch].attempts < MaxAttempts}

Audible(r, u) == <<r, u>> \in DOMAIN alerts /\ u \in members /\ follows[u] = "on"

\* deliverThreadAlerts: the jobs are read once, with their mutes and attempts.
SelectJobs(w) ==
    LET r == w[1] IN
    /\ work[w].stage = "select"
    /\ LET jobs == UNION {{u} \X Open(r, u) : u \in {v \in Users : Audible(r, v)}}
       IN work' = [work EXCEPT ![w] = IF jobs = {} THEN NoWork
                                      ELSE [stage |-> "send", left |-> jobs, now |-> <<>>]]
    /\ UNCHANGED <<room, follows, alerts, hook, asks, ghosts, mishaps>>

\* One job after the other, e-mail first; the provider accepts or does not.
Provider(w) ==
    \E job \in work[w].left, ok \in BOOLEAN :
        /\ work[w].stage = "send"
        /\ job[2] = "push" => <<job[1], "email">> \notin work[w].left
        /\ work' = [work EXCEPT ![w].stage = "record", ![w].left = @ \ {job},
                                ![w].now = <<job[1], job[2], ok>>]
        /\ IF ok THEN disturbed' = (disturbed \/ <<w[1], job[1]>> \in quiet) /\ UNCHANGED mishaps
           ELSE Mishap /\ UNCHANGED disturbed
        /\ UNCHANGED <<room, follows, alerts, hook, asks, owed, quiet>>

\* The outcome is written to the job.
Record(w) ==
    LET now == work[w].now IN
    /\ work[w].stage = "record"
    /\ alerts' = IF now[3] THEN [alerts EXCEPT ![<<w[1], now[1]>>][now[2]].done = TRUE]
                 ELSE [alerts EXCEPT ![<<w[1], now[1]>>][now[2]].attempts = @ + 1]
    /\ work' = [work EXCEPT ![w] = IF @.left = {} THEN NoWork
                                   ELSE [@ EXCEPT !.stage = "send", !.now = <<>>]]
    /\ UNCHANGED <<room, follows, hook, asks, ghosts, mishaps>>

\* The scheduled call takes on some of the replies with an open alert.  Bound: it
\* does not begin before the last one has ended.
Retry ==
    LET pending == {r \in Replies : \E u \in Users : Audible(r, u) /\ Open(r, u) # {}}
        many == IF Cardinality(pending) < RetryLimit THEN Cardinality(pending) ELSE RetryLimit
    IN /\ pending # {}
       /\ \A r \in Replies : work[<<r, "cron">>].stage = "idle"
       /\ \E some \in {S \in SUBSET pending : Cardinality(S) = many} :
            work' = [w \in Workers |-> IF w[2] = "cron" /\ w[1] \in some
                                       THEN [NoWork EXCEPT !.stage = "select"] ELSE work[w]]
       /\ UNCHANGED <<room, follows, alerts, hook, asks, ghosts, mishaps>>
-----------------------------------------------------------------------------
(***************************************************************************)
(* The users: follow, mute and unmute, as the routes put them together,    *)
(* and leave the room.                                                     *)
(***************************************************************************)

\* followThread writes "on", setThreadMuted the mute.  DELETE only mutes; PATCH
\* follows first, whatever the row says.  Bound: one request of a user at a time.
Statements ==
    {<<"follow">>, <<"follow", "unmute">>, <<"mute">>, <<"follow", "mute">>}

AskThread(u, statements) ==
    /\ u \in members /\ asks[u] = <<>>
    /\ Mishap
    /\ asks' = [asks EXCEPT ![u] = statements]
    /\ IF Last(statements) = "mute"
       THEN owed' = {o \in owed : o[2] # u} /\ UNCHANGED quiet
       ELSE quiet' = {q \in quiet : q[2] # u} /\ UNCHANGED owed
    /\ UNCHANGED <<room, follows, alerts, hook, work, disturbed>>

Written(row, statement) ==
    CASE statement = "follow" -> "on"
      [] statement = "mute" -> IF row = "none" THEN "none" ELSE "muted"
      [] statement = "unmute" -> IF row = "none" THEN "none" ELSE "on"

\* Each is a statement of its own, that waits for the row.
RunStatement(u) ==
    /\ asks[u] # <<>>
    /\ ~Held(u, 0)
    /\ follows' = [follows EXCEPT ![u] = Written(@, Head(asks[u]))]
    /\ asks' = [asks EXCEPT ![u] = Tail(@)]
    /\ UNCHANGED <<room, alerts, hook, work, ghosts, mishaps>>

Leave(u) ==
    /\ ~direct /\ u \in members
    /\ Mishap
    /\ members' = members \ {u}
    /\ owed' = {o \in owed : o[2] # u}
    /\ UNCHANGED <<direct, sent, follows, alerts, hook, work, asks, disturbed, quiet>>
-----------------------------------------------------------------------------
HookStep(r) == UpsertFollow(r) \/ UpdateAll(r) \/ UpdateRow(r) \/ Commit(r)

DeliverStep(w) == SelectJobs(w) \/ Provider(w) \/ Record(w)

Next ==
    \/ \E by \in members : \E mentions \in Mentions(by) : Send(by, mentions)
    \/ \E r \in Replies : HookStep(r) \/ Abort(r) \/ Crash(r)
    \/ \E w \in Workers : DeliverStep(w)
    \/ Retry
    \/ \E u \in Users : \E s \in Statements : AskThread(u, s)
    \/ \E u \in Users : RunStatement(u) \/ Leave(u)

Spec == Init /\ [][Next]_vars

\* A process that lives goes on, the database grants free rows and breaks circles,
\* and the schedule keeps calling.
Fairness ==
    /\ \A r \in Replies : WF_vars(HookStep(r)) /\ WF_vars(Abort(r))
    /\ \A w \in Workers : WF_vars(DeliverStep(w))
    /\ WF_vars(Retry)
    /\ \A u \in Users : WF_vars(RunStatement(u))

FairSpec == Spec /\ Fairness
-----------------------------------------------------------------------------
\* Whoever follows a thread, or is made to by a reply, and neither mutes it nor
\* leaves, is told of the reply or every channel has been tried as often as it may
\* be: no hook is rolled back for good by another, and what failed is tried again.
\* A process that dies before its transaction commits takes the alert with it, and
\* so does a deadlock.  As long as the author is in the room there is none: every
\* transaction begins with the author's row (recordThreadReply,
\* deliverThreadAlerts, retryThreadAlerts).
Settled(r, u) == <<r, u>> \in DOMAIN alerts /\ Open(r, u) = {}

Lost(r) ==
    \/ hook[r].stage = "dead"
    \/ hook[r].stage = "aborted" /\ \E i \in DOMAIN sent : Author \notin sent[i].room

FollowersAreTold ==
    \A r \in Replies, u \in Users :
        <<r, u>> \in owed ~> (<<r, u>> \notin owed \/ Settled(r, u) \/ Lost(r))

\* Whoever had muted the thread when a reply was stored, and has not asked to follow
\* or unmute it since, is not told of it, not even when it mentions them and however
\* often they mute it again ("Muting a thread stops email and browser alerts",
\* apps/app/README.md:74).  One gap is left: a repeated mute by PATCH follows first,
\* and a transaction that commits between its two statements writes the alert.
MutedMeansQuiet == ~disturbed
=============================================================================
