---------------------------- MODULE ThreadsProofs ---------------------------
(***************************************************************************)
(* Proofs about Threads, for every set of users and channels, every number *)
(* of replies and attempts, and however the hooks of the replies, their    *)
(* deliveries and the users' requests overlap.                             *)
(***************************************************************************)
EXTENDS Threads, TLAPS, SequenceTheorems

Rows == {"none", "on", "muted"}

Said == {"follow", "mute", "unmute"}

Reply == [by : Users, mentions : Seq(Users), room : SUBSET Users]

Stages == {"none", "upsert", "all", "done", "aborted", "dead"}

Job == [Configured -> [done : BOOLEAN, attempts : Nat]]

\* A hook, and the rows it has written.
HookShape(h) ==
    /\ DOMAIN h = {"stage", "todo", "own"}
    /\ h.stage \in Stages
    /\ h.stage = "none" => DOMAIN h.own = {}
    /\ \A u \in DOMAIN h.own \cap Users : h.own[u] \in Rows

\* A delivery is about alerts that were written.
WorkShape(r, d) ==
    /\ DOMAIN d = {"stage", "left", "now"}
    /\ d.stage \in {"idle", "select", "send", "record"}
    /\ \A job \in d.left : job[2] \in Configured /\ <<r, job[1]>> \in DOMAIN alerts
    /\ d.stage = "record" =>
        /\ d.now[2] \in Configured /\ d.now[3] \in BOOLEAN
        /\ <<r, d.now[1]>> \in DOMAIN alerts

Shapes ==
    /\ direct \in BOOLEAN /\ members \in SUBSET Users /\ disturbed \in BOOLEAN
    /\ sent \in Seq(Reply)
    /\ follows \in [Users -> Rows]
    /\ DOMAIN alerts \subseteq Replies \X Users
    /\ \A a \in DOMAIN alerts : alerts[a] \in Job
    /\ DOMAIN hook = Replies /\ \A r \in Replies : HookShape(hook[r])
    /\ DOMAIN work = Workers /\ \A w \in Workers : WorkShape(w[1], work[w])
    /\ asks \in [Users -> Seq(Said)]
    /\ owed \subseteq Replies \X Users /\ quiet \subseteq Replies \X Users

\* A row that a transaction wrote is its alone; what was there stays, and so does a mute.
Kept(old, new) == (old = "muted" => new = "muted") /\ (old # "none" => new # "none")

OneHolder ==
    \A r, s \in Replies : r # s => DOMAIN hook[r].own \cap DOMAIN hook[s].own = {}

MutesKept ==
    \A r \in Replies : \A u \in DOMAIN hook[r].own \cap Users :
        Kept(follows[u], hook[r].own[u])

\* Replies that are not stored have no hook and no alert.
InOrder ==
    /\ \A r \in Replies : hook[r].stage # "none" => r <= Len(sent)
    /\ \A a \in DOMAIN alerts : a[1] <= Len(sent)

\* Whoever is to be left in quiet is muted, or is about to be once more.
Hushed(u) ==
    \/ asks[u] = <<>> /\ follows[u] = "muted"
    \/ asks[u] = <<"mute">> /\ follows[u] # "none"
    \/ asks[u] = <<"follow", "mute">>

\* No alert was written for them.
Unheard ==
    \A r \in Replies, u \in Users : <<r, u>> \in quiet =>
        Hushed(u) /\ <<r, u>> \notin DOMAIN alerts

\* The inductive invariant.
ThreadInv ==
    /\ Shapes
    /\ OneHolder /\ MutesKept /\ InOrder /\ Unheard
    /\ MutedMeansQuiet
-----------------------------------------------------------------------------
LEMMA InitHolds == Init => ThreadInv
  <1> SUFFICES ASSUME Init  PROVE ThreadInv
    OBVIOUS
  <1>1. DOMAIN hook = Replies /\ \A r \in Replies : HookShape(hook[r])
    BY DEF Init, HookShape, Stages
  <1>2. DOMAIN work = Workers /\ \A w \in Workers : WorkShape(w[1], work[w])
    BY DEF Init, WorkShape, NoWork
  <1>3. sent \in Seq(Reply) /\ asks \in [Users -> Seq(Said)]
    BY DEF Init
  <1>4. DOMAIN alerts = {}
    BY DEF Init
  <1>5. Shapes
    BY <1>1, <1>2, <1>3, <1>4 DEF Init, Shapes, Rows
  <1>6. OneHolder /\ MutesKept
    BY DEF Init, OneHolder, MutesKept
  <1>7. InOrder /\ Unheard /\ MutedMeansQuiet
    BY <1>4 DEF Init, InOrder, Unheard, Hushed, MutedMeansQuiet
  <1> QED  BY <1>5, <1>6, <1>7 DEF ThreadInv

\* The type invariant is part of it.
LEMMA ShapesAreTypes == Shapes => TypeOK
  <1> SUFFICES ASSUME Shapes  PROVE TypeOK
    OBVIOUS
  <1>1. \A r \in Replies :
            hook[r].stage \in {"none", "upsert", "all", "done", "aborted", "dead"}
    BY DEF Shapes, HookShape, Stages
  <1>2. \A w \in Workers : work[w].stage \in {"idle", "select", "send", "record"}
    BY DEF Shapes, WorkShape
  <1>3. /\ direct \in BOOLEAN /\ members \subseteq Users /\ disturbed \in BOOLEAN
        /\ follows \in [Users -> {"none", "on", "muted"}]
        /\ DOMAIN alerts \subseteq Replies \X Users
        /\ {owed, quiet} \subseteq SUBSET (Replies \X Users)
    BY DEF Shapes, Rows
  <1>4. \A a \in DOMAIN alerts : alerts[a] \in [Configured -> [done : BOOLEAN, attempts : Nat]]
    BY DEF Shapes, Job
  <1> QED  BY <1>1, <1>2, <1>3, <1>4 DEF TypeOK
-----------------------------------------------------------------------------
\* A step of one transaction that commits nothing.
LEMMA HookMoves ==
    ASSUME ThreadInv, NEW r \in Replies, NEW h, hook' = [hook EXCEPT ![r] = h],
           HookShape(h), h.stage # "none" => r <= Len(sent),
           \A s \in Replies : s # r => DOMAIN h.own \cap DOMAIN hook[s].own = {},
           \A u \in DOMAIN h.own \cap Users : Kept(follows[u], h.own[u]),
           UNCHANGED <<room, follows, alerts, work, asks, ghosts>>
    PROVE  ThreadInv'
  <1>1. \A s \in Replies : hook'[s] = IF s = r THEN h ELSE hook[s]
    BY DEF ThreadInv, Shapes
  <1>2. DOMAIN hook' = Replies /\ \A s \in Replies : HookShape(hook[s])'
    BY <1>1 DEF ThreadInv, Shapes, HookShape
  <1>3. \A w \in Workers : WorkShape(w[1], work[w])'
    BY DEF ThreadInv, Shapes, WorkShape
  <1>4. Shapes'
    BY <1>2, <1>3 DEF ThreadInv, Shapes, room, ghosts
  <1>5. OneHolder'
    BY <1>1 DEF ThreadInv, OneHolder
  <1>6. MutesKept'
    BY <1>1 DEF ThreadInv, MutesKept
  <1>7. InOrder' /\ Unheard' /\ MutedMeansQuiet'
    BY <1>1 DEF ThreadInv, InOrder, Unheard, Hushed, MutedMeansQuiet, room, ghosts
  <1> QED  BY <1>4, <1>5, <1>6, <1>7 DEF ThreadInv

\* The row a transaction takes is nobody else's, and a mute stays one.
LEMMA RowTaken ==
    ASSUME ThreadInv, NEW r \in Replies, hook[r].stage # "none", NEW u, NEW row, ~Held(u, r),
           u \in Users => row \in Rows /\ Kept(follows[u], row),
           NEW todo,
           hook' = [hook EXCEPT ![r].todo = todo,
                                ![r].own = [v \in DOMAIN @ \cup {u} |->
                                                IF v = u THEN row ELSE @[v]]],
           UNCHANGED <<room, follows, alerts, work, asks, ghosts>>
    PROVE  ThreadInv'
  <1> DEFINE own == [v \in DOMAIN hook[r].own \cup {u} |->
                        IF v = u THEN row ELSE hook[r].own[v]]
             h == [hook[r] EXCEPT !.todo = todo, !.own = own]
  <1>0. HookShape(hook[r]) /\ DOMAIN hook = Replies
    BY DEF ThreadInv, Shapes
  <1>1. hook' = [hook EXCEPT ![r] = h]
    BY <1>0 DEF HookShape
  <1>2. DOMAIN h = {"stage", "todo", "own"} /\ h.stage = hook[r].stage /\ h.own = own
    BY <1>0 DEF HookShape
  <1>3. /\ DOMAIN own = DOMAIN hook[r].own \cup {u}
        /\ \A v \in DOMAIN own : own[v] = IF v = u THEN row ELSE hook[r].own[v]
    OBVIOUS
  <1> HIDE DEF own, h
  <1>4. HookShape(h)
    BY <1>0, <1>2, <1>3 DEF HookShape
  <1>5. \A s \in Replies : s # r => DOMAIN h.own \cap DOMAIN hook[s].own = {}
    BY <1>2, <1>3 DEF Held, ThreadInv, OneHolder
  <1>6. \A v \in DOMAIN h.own \cap Users : Kept(follows[v], h.own[v])
    BY <1>2, <1>3 DEF ThreadInv, MutesKept
  <1>7. r <= Len(sent)
    BY DEF ThreadInv, InOrder
  <1> QED  BY <1>1, <1>4, <1>5, <1>6, <1>7, HookMoves

\* What a transaction sees of a row.
LEMMA RowSeen ==
    ASSUME ThreadInv, NEW r \in Replies, NEW u
    PROVE  u \in Users => Row(u, r) \in Rows /\ Kept(follows[u], Row(u, r))
  BY DEF Kept, Row, ThreadInv, Shapes, HookShape, MutesKept

LEMMA UpsertKeepsInv ==
    ASSUME ThreadInv, NEW r \in Replies, UpsertFollow(r)
    PROVE  ThreadInv'
  <1> DEFINE u == Head(hook[r].todo)
  <1>1. u \in Users => Upserted(Row(u, r)) \in Rows /\ Kept(follows[u], Upserted(Row(u, r)))
    BY RowSeen DEF Upserted, Rows, Kept
  <1>2. hook[r].stage # "none" /\ ~Held(u, r) /\ UNCHANGED <<room, follows, alerts, work, asks, ghosts>>
    BY DEF UpsertFollow, TakeRow
  <1>3. hook' = [hook EXCEPT ![r].todo = Tail(@),
                             ![r].own = [v \in DOMAIN @ \cup {u} |->
                                            IF v = u THEN Upserted(Row(u, r)) ELSE @[v]]]
    BY DEF UpsertFollow, TakeRow
  <1> QED  BY <1>1, <1>2, <1>3, RowTaken

LEMMA UpdateRowKeepsInv ==
    ASSUME ThreadInv, NEW r \in Replies, UpdateRow(r)
    PROVE  ThreadInv'
  <1> DEFINE u == Head(hook[r].todo)
  <1>1. u \in Users => Row(u, r) \in Rows /\ Kept(follows[u], Row(u, r))
    BY RowSeen
  <1>2. hook[r].stage # "none" /\ ~Held(u, r) /\ UNCHANGED <<room, follows, alerts, work, asks, ghosts>>
    BY DEF UpdateRow, TakeRow
  <1>3. hook' = [hook EXCEPT ![r].todo = Tail(@),
                             ![r].own = [v \in DOMAIN @ \cup {u} |->
                                            IF v = u THEN Row(u, r) ELSE @[v]]]
    BY DEF UpdateRow, TakeRow
  <1> QED  BY <1>1, <1>2, <1>3, RowTaken

\* The update of the whole thread begins: no row is taken yet.
LEMMA UpdateAllKeepsInv ==
    ASSUME ThreadInv, NEW r \in Replies, UpdateAll(r)
    PROVE  ThreadInv'
  <1> PICK rows : hook' = [hook EXCEPT ![r].stage = "all", ![r].todo = rows]
    BY DEF UpdateAll
  <1> DEFINE h == [hook[r] EXCEPT !.stage = "all", !.todo = rows]
  <1>0. HookShape(hook[r]) /\ DOMAIN hook = Replies
    BY DEF ThreadInv, Shapes
  <1>1. hook' = [hook EXCEPT ![r] = h]
    BY <1>0 DEF HookShape
  <1>2. DOMAIN h = {"stage", "todo", "own"} /\ h.stage = "all" /\ h.own = hook[r].own
    BY <1>0 DEF HookShape
  <1> HIDE DEF h
  <1>3. HookShape(h)
    BY <1>0, <1>2 DEF HookShape, Stages
  <1>4. \A s \in Replies : s # r => DOMAIN h.own \cap DOMAIN hook[s].own = {}
    BY <1>2 DEF ThreadInv, OneHolder
  <1>5. \A v \in DOMAIN h.own \cap Users : Kept(follows[v], h.own[v])
    BY <1>2 DEF ThreadInv, MutesKept
  <1>6. r <= Len(sent) /\ UNCHANGED <<room, follows, alerts, work, asks, ghosts>>
    BY DEF ThreadInv, InOrder, UpdateAll
  <1> QED  BY <1>1, <1>3, <1>4, <1>5, <1>6, HookMoves

\* A transaction that is rolled back lets go of its rows.
LEMMA RollbackKeepsInv ==
    ASSUME ThreadInv, NEW r \in Replies, hook[r].stage # "none",
           NEW stage \in Stages, hook' = RolledBack(r, stage),
           UNCHANGED <<room, follows, alerts, work, asks, ghosts>>
    PROVE  ThreadInv'
  <1> DEFINE h == [stage |-> stage, todo |-> <<>>, own |-> <<>>]
  <1>1. hook' = [hook EXCEPT ![r] = h]
    BY DEF RolledBack
  <1>2. HookShape(h) /\ DOMAIN h.own = {}
    BY DEF HookShape
  <1>3. r <= Len(sent)
    BY DEF ThreadInv, InOrder
  <1> HIDE DEF h
  <1> QED  BY <1>1, <1>2, <1>3, HookMoves

\* Deliveries come and go, about alerts that were written.
LEMMA WorkMoves ==
    ASSUME ThreadInv, DOMAIN work' = Workers,
           \A w \in Workers : WorkShape(w[1], work'[w]),
           UNCHANGED <<room, follows, alerts, hook, asks, owed, quiet>>, disturbed' = FALSE
    PROVE  ThreadInv'
  <1>1. \A w \in Workers : WorkShape(w[1], work[w])'
    BY DEF WorkShape
  <1>2. \A r \in Replies : HookShape(hook[r])'
    BY DEF ThreadInv, Shapes, HookShape
  <1>3. Shapes'
    BY <1>1, <1>2 DEF ThreadInv, Shapes, room
  <1>4. OneHolder' /\ MutesKept' /\ InOrder' /\ Unheard' /\ MutedMeansQuiet'
    BY DEF ThreadInv, OneHolder, MutesKept, InOrder, Unheard, Hushed, MutedMeansQuiet, room
  <1> QED  BY <1>3, <1>4 DEF ThreadInv

LEMMA NothingToDeliver == \A r \in Replies : WorkShape(r, NoWork)
  BY DEF WorkShape, NoWork

\* One delivery goes on.
LEMMA OneDelivers ==
    ASSUME ThreadInv, NEW w \in Workers, NEW d, WorkShape(w[1], d),
           work' = [work EXCEPT ![w] = d],
           UNCHANGED <<room, follows, alerts, hook, asks, owed, quiet>>, disturbed' = FALSE
    PROVE  ThreadInv'
  <1>1. DOMAIN work' = Workers /\ \A v \in Workers : work'[v] = IF v = w THEN d ELSE work[v]
    BY DEF ThreadInv, Shapes
  <1>2. \A v \in Workers : WorkShape(v[1], work'[v])
    BY <1>1 DEF ThreadInv, Shapes
  <1> QED  BY <1>1, <1>2, WorkMoves

LEMMA CrashKeepsInv ==
    ASSUME ThreadInv, NEW r \in Replies, Crash(r)
    PROVE  ThreadInv'
  <1>1. CASE hook[r].stage \in {"upsert", "all"} /\ hook' = RolledBack(r, "dead") /\ UNCHANGED work
    BY <1>1, RollbackKeepsInv DEF Crash, Stages
  <1>2. CASE work' = [work EXCEPT ![<<r, "hook">>] = NoWork] /\ UNCHANGED hook
    <2>1. <<r, "hook">> \in Workers /\ <<r, "hook">>[1] = r
      BY DEF Workers
    <2>2. disturbed' = FALSE
      BY DEF Crash, ghosts, ThreadInv, MutedMeansQuiet, Shapes
    <2> QED  BY <1>2, <2>1, <2>2, NothingToDeliver, OneDelivers DEF Crash, ghosts
  <1> QED  BY <1>1, <1>2 DEF Crash

LEMMA AbortKeepsInv ==
    ASSUME ThreadInv, NEW r \in Replies, Abort(r)
    PROVE  ThreadInv'
  <1>1. PICK s \in Replies : s # r /\ s \in WaitsFor(r) /\ r \in WaitsFor(s)
    BY DEF Abort, Deadlocked, WaitsFor
  <1>2. hook[r].stage # "none"
    BY <1>1 DEF WaitsFor, ThreadInv, Shapes, HookShape
  <1> QED  BY <1>2, RollbackKeepsInv DEF Abort, Stages

\* The jobs of a delivery are open channels of alerts that were written.
LEMMA SelectKeepsInv ==
    ASSUME ThreadInv, NEW w \in Workers, SelectJobs(w)
    PROVE  ThreadInv'
  <1> DEFINE r == w[1]
             jobs == UNION {{u} \X Open(r, u) : u \in {v \in Users : Audible(r, v)}}
  <1>1. \A job \in jobs : job[2] \in Configured /\ <<r, job[1]>> \in DOMAIN alerts
    <2> TAKE job \in jobs
    <2>1. PICK u \in Users : Audible(r, u) /\ job \in {u} \X Open(r, u)
      OBVIOUS
    <2>2. job[1] = u /\ job[2] \in Open(r, u)
      BY <2>1
    <2> QED  BY <2>1, <2>2 DEF Open, Audible
  <1>2. r \in Replies
    BY DEF Workers
  <1>3. PICK d : work' = [work EXCEPT ![w] = d]
                 /\ d \in {NoWork, [stage |-> "send", left |-> jobs, now |-> <<>>]}
    BY DEF SelectJobs
  <1>4. WorkShape(r, d)
    <2>1. WorkShape(r, [stage |-> "send", left |-> jobs, now |-> <<>>])
      BY <1>1 DEF WorkShape
    <2> QED  BY <1>2, <1>3, <2>1, NothingToDeliver
  <1>5. UNCHANGED <<room, follows, alerts, hook, asks, owed, quiet>> /\ disturbed' = FALSE
    BY DEF SelectJobs, ghosts, ThreadInv, MutedMeansQuiet, Shapes
  <1> QED  BY <1>3, <1>4, <1>5, OneDelivers

\* A provider takes an alert that was written: for nobody who is left in quiet.
LEMMA ProviderKeepsInv ==
    ASSUME ThreadInv, NEW w \in Workers, Provider(w)
    PROVE  ThreadInv'
  <1>1. PICK job \in work[w].left, ok \in BOOLEAN :
        /\ work' = [work EXCEPT ![w].stage = "record", ![w].left = @ \ {job},
                                ![w].now = <<job[1], job[2], ok>>]
        /\ IF ok THEN disturbed' = (disturbed \/ <<w[1], job[1]>> \in quiet)
           ELSE UNCHANGED disturbed
        /\ UNCHANGED <<room, follows, alerts, hook, asks, owed, quiet>>
    BY DEF Provider
  <1>2. WorkShape(w[1], work[w]) /\ DOMAIN work = Workers
    BY DEF ThreadInv, Shapes
  <1>3. job[2] \in Configured /\ <<w[1], job[1]>> \in DOMAIN alerts
    BY <1>2 DEF WorkShape
  <1>4. <<w[1], job[1]>> \notin quiet
    BY <1>3 DEF ThreadInv, Unheard, Shapes
  <1>5. disturbed' = FALSE
    BY <1>1, <1>4 DEF ThreadInv, MutedMeansQuiet, Shapes
  <1> DEFINE d == [stage |-> "record", left |-> work[w].left \ {job},
                   now |-> <<job[1], job[2], ok>>]
  <1>6. work' = [work EXCEPT ![w] = d]
    BY <1>1, <1>2 DEF WorkShape
  <1>7. WorkShape(w[1], d)
    BY <1>2, <1>3 DEF WorkShape
  <1> HIDE DEF d
  <1> QED  BY <1>1, <1>5, <1>6, <1>7, OneDelivers

\* The scheduled call begins deliveries that have no job yet.
LEMMA RetryKeepsInv ==
    ASSUME ThreadInv, Retry
    PROVE  ThreadInv'
  <1> PICK some : work' = [w \in Workers |-> IF w[2] = "cron" /\ w[1] \in some
                                             THEN [NoWork EXCEPT !.stage = "select"] ELSE work[w]]
    BY DEF Retry
  <1>1. \A r \in Replies : WorkShape(r, [NoWork EXCEPT !.stage = "select"])
    BY DEF WorkShape, NoWork
  <1>2. \A w \in Workers : w[1] \in Replies
    BY DEF Workers
  <1>3. \A w \in Workers : WorkShape(w[1], work'[w])
    BY <1>1, <1>2 DEF ThreadInv, Shapes
  <1>4. UNCHANGED <<room, follows, alerts, hook, asks, owed, quiet>> /\ disturbed' = FALSE
    BY DEF Retry, ghosts, ThreadInv, MutedMeansQuiet, Shapes
  <1> QED  BY <1>3, <1>4, WorkMoves

LEMMA JobsStayJobs ==
    ASSUME NEW job \in Job, NEW p \in Configured
    PROVE  /\ [job EXCEPT ![p].done = TRUE] \in Job
           /\ [job EXCEPT ![p].attempts = @ + 1] \in Job
  <1> DEFINE Entry == [done : BOOLEAN, attempts : Nat]
  <1>1. job[p] \in Entry /\ job \in [Configured -> Entry]
    BY DEF Job
  <1>2. \A e \in Entry : [e EXCEPT !.done = TRUE] \in Entry
    OBVIOUS
  <1>3. \A e \in Entry : [e EXCEPT !.attempts = @ + 1] \in Entry
    <2> SUFFICES ASSUME NEW e \in Entry
                 PROVE  [e EXCEPT !.attempts = @ + 1] \in Entry
      OBVIOUS
    <2>1. e.attempts + 1 \in Nat
      OBVIOUS
    <2> QED  BY <2>1
  <1>4. \A e \in Entry : [job EXCEPT ![p] = e] \in Job
    BY <1>1 DEF Job
  <1> DEFINE done == [job[p] EXCEPT !.done = TRUE]
             tried == [job[p] EXCEPT !.attempts = @ + 1]
  <1> HIDE DEF Entry
  <1>5. done \in Entry /\ tried \in Entry
    BY <1>1, <1>2, <1>3
  <1>6. [job EXCEPT ![p] = done] \in Job /\ [job EXCEPT ![p] = tried] \in Job
    BY <1>4, <1>5
  <1> QED  BY <1>1, <1>6

\* The outcome of a delivery is kept in the job it was for.
LEMMA RecordKeepsInv ==
    ASSUME ThreadInv, NEW w \in Workers, Record(w)
    PROVE  ThreadInv'
  <1> DEFINE now == work[w].now
             a == <<w[1], now[1]>>
  <1>1. WorkShape(w[1], work[w]) /\ DOMAIN work = Workers
    BY DEF ThreadInv, Shapes
  <1>2. now[2] \in Configured /\ a \in DOMAIN alerts /\ alerts[a] \in Job
    BY <1>1 DEF Record, WorkShape, ThreadInv, Shapes
  <1>3. PICK job \in Job : alerts' = [alerts EXCEPT ![a] = job]
    <2>1. CASE now[3]
      <3> DEFINE job == [alerts[a] EXCEPT ![now[2]].done = TRUE]
      <3>1. job \in Job
        BY <1>2, JobsStayJobs
      <3>2. alerts' = [alerts EXCEPT ![a] = job]
        BY <1>2, <2>1 DEF Record
      <3> QED  BY <3>1, <3>2
    <2>2. CASE ~now[3]
      <3> DEFINE job == [alerts[a] EXCEPT ![now[2]].attempts = @ + 1]
      <3>1. job \in Job
        BY <1>2, JobsStayJobs
      <3>2. alerts' = [alerts EXCEPT ![a] = job]
        BY <1>2, <2>2 DEF Record
      <3> QED  BY <3>1, <3>2
    <2> QED  BY <2>1, <2>2
  <1>4. /\ DOMAIN alerts' = DOMAIN alerts
        /\ \A b \in DOMAIN alerts' : alerts'[b] \in Job
    BY <1>3 DEF ThreadInv, Shapes
  <1>5. PICK d : /\ work' = [work EXCEPT ![w] = d]
                 /\ d \in {NoWork, [work[w] EXCEPT !.stage = "send", !.now = <<>>]}
    BY DEF Record
  <1>6. WorkShape(w[1], d)
    <2>1. WorkShape(w[1], [work[w] EXCEPT !.stage = "send", !.now = <<>>])
      BY <1>1 DEF WorkShape
    <2>2. w[1] \in Replies
      BY DEF Workers
    <2> QED  BY <1>5, <2>1, <2>2, NothingToDeliver
  <1>7. DOMAIN work' = Workers /\ \A v \in Workers : WorkShape(v[1], work'[v])
    BY <1>1, <1>5, <1>6 DEF ThreadInv, Shapes
  <1>8. \A v \in Workers : WorkShape(v[1], work[v])'
    BY <1>4, <1>7 DEF WorkShape
  <1>9. UNCHANGED <<room, follows, hook, asks, ghosts>>
    BY DEF Record
  <1>10. \A r \in Replies : HookShape(hook[r])'
    BY <1>9 DEF ThreadInv, Shapes, HookShape
  <1>11. Shapes'
    BY <1>4, <1>7, <1>8, <1>9, <1>10 DEF ThreadInv, Shapes, room, ghosts
  <1>12. OneHolder' /\ MutesKept' /\ InOrder' /\ Unheard' /\ MutedMeansQuiet'
    BY <1>4, <1>9 DEF ThreadInv, OneHolder, MutesKept, InOrder, Unheard, Hushed, MutedMeansQuiet,
                      room, ghosts
  <1> QED  BY <1>11, <1>12 DEF ThreadInv

\* A transaction that commits writes what it holds, and no alert for a mute.
LEMMA CommitKeepsInv ==
    ASSUME ThreadInv, NEW r \in Replies, Commit(r)
    PROVE  ThreadInv'
  <1>0. DOMAIN hook = Replies /\ HookShape(hook[r]) /\ r <= Len(sent) /\ OneHolder /\ MutesKept
    BY DEF ThreadInv, Shapes, InOrder, Commit
  <1>1. UNCHANGED <<room, asks, disturbed, owed>> /\ quiet' = quiet \ Reopened(r)
    BY DEF Commit
  <1>2. \A u \in Users : follows'[u] = Row(u, r)
    BY DEF Commit
  <1>3. follows' \in [Users -> Rows]
    BY <1>2, RowSeen DEF Commit
  <1>4. \A u \in Users : Kept(follows[u], follows'[u])
    BY <1>2, RowSeen
  <1>5. DOMAIN alerts' = DOMAIN alerts \cup ({r} \X Recipients(r))
    BY DEF Commit
  <1>6. \A a \in DOMAIN alerts' : alerts'[a] \in Job
    <2>1. [ch \in Configured |-> [done |-> FALSE, attempts |-> 0]] \in Job
      BY DEF Job
    <2> QED  BY <2>1 DEF Commit, ThreadInv, Shapes
  <1>7. DOMAIN alerts' \subseteq Replies \X Users
    BY <1>5 DEF ThreadInv, Shapes, Recipients
  <1> DEFINE h == [hook[r] EXCEPT !.stage = "done", !.own = <<>>]
  <1>8. hook' = [hook EXCEPT ![r] = h]
    BY <1>0 DEF Commit, HookShape
  <1>9. DOMAIN h = {"stage", "todo", "own"} /\ h.stage = "done" /\ h.own = <<>>
    BY <1>0 DEF HookShape
  <1> HIDE DEF h
  <1>10. DOMAIN h.own = {} /\ HookShape(h)
    BY <1>9 DEF HookShape, Stages
  <1>11. \A s \in Replies : hook'[s] = IF s = r THEN h ELSE hook[s]
    BY <1>0, <1>8
  <1>12. DOMAIN hook' = Replies /\ \A s \in Replies : HookShape(hook[s])'
    BY <1>0, <1>8, <1>10, <1>11 DEF ThreadInv, Shapes, HookShape
  <1>13. DOMAIN work' = Workers /\ \A w \in Workers : WorkShape(w[1], work[w])'
    <2>1. <<r, "hook">> \in Workers /\ DOMAIN work = Workers
      BY DEF Workers, ThreadInv, Shapes
    <2>2. \A w \in Workers : WorkShape(w[1], work[w])
      BY DEF ThreadInv, Shapes
    <2>3. \A w \in Workers : /\ DOMAIN work'[w] = DOMAIN work[w] /\ work'[w].left = work[w].left
                             /\ work'[w].now = work[w].now
                             /\ work'[w].stage \in {work[w].stage, "select"}
      BY <2>1, <2>2 DEF Commit, WorkShape
    <2> QED  BY <1>5, <2>1, <2>2, <2>3 DEF WorkShape, Commit
  <1>14. Shapes'
    BY <1>1, <1>3, <1>6, <1>7, <1>12, <1>13 DEF ThreadInv, Shapes, room
  <1>15. OneHolder'
    BY <1>0, <1>10, <1>11 DEF OneHolder
  <1>16. MutesKept'
    <2> SUFFICES ASSUME NEW s \in Replies, NEW u \in DOMAIN hook'[s].own \cap Users
                 PROVE  Kept(follows'[u], hook'[s].own[u])
      BY DEF MutesKept
    <2>1. s # r /\ u \in DOMAIN hook[s].own /\ hook'[s].own[u] = hook[s].own[u]
      BY <1>10, <1>11
    <2>2. u \notin DOMAIN hook[r].own
      BY <1>0, <2>1 DEF OneHolder
    <2>3. u \in Users => Row(u, r) = follows[u]
      BY <2>2 DEF Row
    <2> QED  BY <1>0, <1>2, <2>1, <2>3 DEF MutesKept
  <1>17. InOrder'
    BY <1>0, <1>1, <1>5, <1>9, <1>11 DEF InOrder, ThreadInv, room
  <1>18. Unheard'
    <2>1. \A u \in Users : follows[u] = "muted" => u \notin Recipients(r)
      BY RowSeen DEF Recipients, Kept
    <2> SUFFICES ASSUME NEW s \in Replies, NEW u \in Users, <<s, u>> \in quiet'
                 PROVE  Hushed(u)' /\ <<s, u>> \notin DOMAIN alerts'
      BY DEF Unheard
    <2>2. /\ <<s, u>> \in quiet /\ <<s, u>> \notin Reopened(r)
          /\ Hushed(u) /\ <<s, u>> \notin DOMAIN alerts
      BY <1>1 DEF ThreadInv, Unheard
    <2>3. Hushed(u)'
      BY <1>1, <1>4, <2>2 DEF Hushed, Kept
    <2>4. <<s, u>> \notin {r} \X Recipients(r)
      BY <2>1, <2>2 DEF Hushed, Reopened
    <2> QED  BY <1>5, <2>2, <2>3, <2>4
  <1> QED  BY <1>1, <1>14, <1>15, <1>16, <1>17, <1>18 DEF ThreadInv, MutedMeansQuiet

\* A reply that is stored has no alert yet: who has muted the thread has none.
LEMMA SendKeepsInv ==
    ASSUME ThreadInv, NEW by \in members, NEW mentions \in Mentions(by), Send(by, mentions)
    PROVE  ThreadInv'
  <1> DEFINE r == Len(sent) + 1
             reply == [by |-> by, mentions |-> mentions, room |-> members]
  <1>1. /\ r \in Replies /\ sent' = Append(sent, reply)
        /\ hook' = [hook EXCEPT ![r].stage = "upsert", ![r].todo = Followers(reply)]
        /\ UNCHANGED <<direct, members, follows, alerts, work, asks, disturbed, mishaps>>
    BY DEF Send
  <1>2. /\ owed' = owed \cup {<<r, u>> : u \in {v \in Users : Counts(v, reply)}}
        /\ quiet' = quiet \cup {<<r, u>> : u \in {v \in Users : Muted(v)}}
    BY DEF Send
  <1>3. reply \in Reply
    <2>1. by \in Users /\ members \in SUBSET Users
      BY DEF ThreadInv, Shapes
    <2>2. mentions \in Seq(Users)
      <3>1. CASE mentions = <<>>
        BY <3>1
      <3>2. CASE mentions # <<>>
        <4>1. PICK u \in members \ {by} : mentions = <<u>>
          BY <3>2 DEF Mentions
        <4> QED  BY <2>1, <4>1
      <3> QED  BY <3>1, <3>2
    <2> QED  BY <2>1, <2>2 DEF Reply
  <1>4. sent \in Seq(Reply) /\ Len(sent) \in Nat
    BY DEF ThreadInv, Shapes
  <1> HIDE DEF reply
  <1>5. sent' \in Seq(Reply) /\ Len(sent') = Len(sent) + 1
    BY <1>1, <1>3, <1>4
  <1> DEFINE todo == Followers(reply)
             h == [hook[r] EXCEPT !.stage = "upsert", !.todo = todo]
  <1>6. HookShape(hook[r]) /\ DOMAIN hook = Replies
    BY <1>1 DEF ThreadInv, Shapes
  <1> HIDE DEF todo
  <1>7. hook' = [hook EXCEPT ![r] = h]
    BY <1>1, <1>6 DEF HookShape, todo
  <1>8. DOMAIN h = {"stage", "todo", "own"} /\ h.stage = "upsert" /\ h.own = hook[r].own
    BY <1>6 DEF HookShape
  <1> HIDE DEF h
  <1>9. \A s \in Replies : hook'[s] = IF s = r THEN h ELSE hook[s]
    BY <1>6, <1>7
  <1>10. \A s \in Replies : hook'[s].own = hook[s].own
    BY <1>8, <1>9
  <1>11. HookShape(h)
    BY <1>6, <1>8 DEF HookShape, Stages
  <1>12. DOMAIN hook' = Replies /\ \A s \in Replies : HookShape(hook[s])'
    BY <1>6, <1>7, <1>9, <1>11 DEF ThreadInv, Shapes, HookShape
  <1>13. \A w \in Workers : WorkShape(w[1], work[w])'
    BY <1>1 DEF ThreadInv, Shapes, WorkShape
  <1>14. owed' \subseteq Replies \X Users /\ quiet' \subseteq Replies \X Users
    BY <1>1, <1>2 DEF ThreadInv, Shapes
  <1>15. Shapes'
    BY <1>1, <1>5, <1>12, <1>13, <1>14 DEF ThreadInv, Shapes
  <1>16. OneHolder' /\ MutesKept'
    <2>1. OneHolder'
      BY <1>10 DEF ThreadInv, OneHolder
    <2>2. follows' = follows
      BY <1>1
    <2>3. MutesKept'
      BY <1>10, <2>2 DEF ThreadInv, MutesKept
    <2> QED  BY <2>1, <2>3
  <1>17. \A a \in DOMAIN alerts : a[1] \in Int /\ a[1] <= Len(sent) /\ a[1] # r
    BY <1>4 DEF ThreadInv, Shapes, InOrder, Replies
  <1>18. InOrder'
    <2>1. ASSUME NEW s \in Replies, hook'[s].stage # "none"  PROVE s <= Len(sent')
      <3>1. CASE s = r
        BY <1>4, <1>5, <3>1
      <3>2. CASE s # r
        <4>1. hook[s].stage # "none" /\ s \in Nat
          BY <1>9, <2>1, <3>2 DEF Replies
        <4>2. s <= Len(sent)
          BY <4>1 DEF ThreadInv, InOrder
        <4> QED  BY <1>4, <1>5, <4>1, <4>2
      <3> QED  BY <3>1, <3>2
    <2>2. alerts' = alerts
      BY <1>1
    <2>3. \A a \in DOMAIN alerts' : a[1] <= Len(sent')
      BY <1>4, <1>5, <1>17, <2>2
    <2> QED  BY <2>1, <2>3 DEF InOrder
  <1>19. Unheard'
    <2> SUFFICES ASSUME NEW s \in Replies, NEW u \in Users, <<s, u>> \in quiet'
                 PROVE  Hushed(u)' /\ <<s, u>> \notin DOMAIN alerts'
      BY DEF Unheard
    <2>1. CASE <<s, u>> \in quiet
      BY <1>1, <2>1 DEF ThreadInv, Unheard, Hushed
    <2>2. CASE s = r /\ Muted(u)
      BY <1>1, <1>17, <2>2 DEF Muted, Hushed
    <2> QED  BY <1>2, <2>1, <2>2
  <1> QED  BY <1>1, <1>15, <1>16, <1>18, <1>19 DEF ThreadInv, MutedMeansQuiet
-----------------------------------------------------------------------------
\* A user's request ends the claims that it contradicts.
LEMMA AskKeepsInv ==
    ASSUME ThreadInv, NEW u \in Users, NEW statements \in Statements,
           AskThread(u, statements)
    PROVE  ThreadInv'
  <1>1. /\ asks' = [asks EXCEPT ![u] = statements]
        /\ UNCHANGED <<room, follows, alerts, hook, work, disturbed>>
        /\ owed' \subseteq owed /\ quiet' \subseteq quiet
    BY DEF AskThread
  <1>2. statements \in Seq(Said)
    <2>1. /\ <<"follow">> \in Seq(Said)
          /\ <<"mute">> \in Seq(Said)
      BY DEF Said
    <2>2. /\ <<"follow", "unmute">> \in Seq(Said)
          /\ <<"follow", "mute">> \in Seq(Said)
      BY DEF Said
    <2>3. statements \in {<<"follow">>, <<"follow", "unmute">>, <<"mute">>, <<"follow", "mute">>}
      BY DEF Statements
    <2> QED  BY <2>1, <2>2, <2>3
  <1>3. ASSUME NEW r \in Replies, <<r, u>> \in quiet'
        PROVE  Hushed(u)'
    <2>1. Last(statements) = "mute"
      BY <1>3 DEF AskThread
    <2>2. statements \in {<<"mute">>, <<"follow", "mute">>}
      BY <2>1 DEF Statements, Last
    <2>3. follows'[u] = follows[u] /\ asks'[u] = statements /\ asks[u] = <<>>
      BY <1>1 DEF ThreadInv, Shapes, AskThread
    <2>4. Hushed(u)
      BY <1>1, <1>3 DEF ThreadInv, Unheard
    <2>5. follows'[u] = "muted"
      BY <2>3, <2>4 DEF Hushed
    <2> QED  BY <2>2, <2>3, <2>5 DEF Hushed
  <1>4. \A r \in Replies : HookShape(hook[r])'
    BY <1>1 DEF ThreadInv, Shapes, HookShape
  <1>5. \A w \in Workers : WorkShape(w[1], work[w])'
    BY <1>1 DEF ThreadInv, Shapes, WorkShape
  <1>6. asks' \in [Users -> Seq(Said)]
    BY <1>1, <1>2 DEF ThreadInv, Shapes
  <1>7. Shapes'
    BY <1>1, <1>4, <1>5, <1>6 DEF ThreadInv, Shapes, room
  <1>8. \A v \in Users : v # u => asks'[v] = asks[v]
    BY <1>1 DEF ThreadInv, Shapes
  <1>9. Unheard'
    BY <1>1, <1>3, <1>8 DEF ThreadInv, Unheard, Hushed
  <1>10. OneHolder' /\ MutesKept' /\ InOrder' /\ MutedMeansQuiet'
    BY <1>1 DEF ThreadInv, OneHolder, MutesKept, InOrder, MutedMeansQuiet, room
  <1> QED  BY <1>7, <1>9, <1>10 DEF ThreadInv

\* A statement waits for whoever holds the row, and nobody is in quiet who has asked.
LEMMA StatementKeepsInv ==
    ASSUME ThreadInv, NEW u \in Users, RunStatement(u)
    PROVE  ThreadInv'
  <1>1. /\ UNCHANGED <<room, alerts, hook, work, ghosts, mishaps>>
        /\ asks[u] # <<>> /\ asks[u] \in Seq(Said)
    BY DEF RunStatement, ThreadInv, Shapes
  <1>2. /\ Head(asks[u]) \in Said
        /\ Tail(asks[u]) \in Seq(Said)
    BY <1>1
  <1>3. follows[u] \in Rows
    BY DEF ThreadInv, Shapes
  <1>4. PICK row \in Rows : follows' = [follows EXCEPT ![u] = row]
    <2>1. Written(follows[u], Head(asks[u])) \in Rows
      BY <1>2, <1>3 DEF Written, Rows, Said
    <2> QED  BY <2>1 DEF RunStatement
  <1>5. asks' = [asks EXCEPT ![u] = Tail(@)]
    BY DEF RunStatement
  <1>6. \A v \in Users : v # u => follows'[v] = follows[v] /\ asks'[v] = asks[v]
    BY <1>4, <1>5 DEF ThreadInv, Shapes
  <1>7. follows' \in [Users -> Rows] /\ asks' \in [Users -> Seq(Said)]
    BY <1>2, <1>4, <1>5 DEF ThreadInv, Shapes
  <1>8. \A r \in Replies : HookShape(hook[r])'
    BY <1>1 DEF ThreadInv, Shapes, HookShape
  <1>9. \A w \in Workers : WorkShape(w[1], work[w])'
    BY <1>1 DEF ThreadInv, Shapes, WorkShape
  <1>10. Shapes'
    BY <1>1, <1>7, <1>8, <1>9 DEF ThreadInv, Shapes, room, ghosts
  <1>11. \A r \in Replies : u \notin DOMAIN hook[r].own
    BY DEF RunStatement, Held, Replies
  <1>12. MutesKept'
    BY <1>1, <1>6, <1>11 DEF ThreadInv, MutesKept
  <1>13. Unheard'
    <2> SUFFICES ASSUME NEW r \in Replies, NEW v \in Users, <<r, v>> \in quiet'
                 PROVE  Hushed(v)'
      BY <1>1 DEF ThreadInv, Unheard, ghosts
    <2>1. Hushed(v)
      BY <1>1 DEF ThreadInv, Unheard, ghosts
    <2>2. CASE v # u
      BY <1>6, <2>1, <2>2 DEF Hushed
    <2>3. CASE v = u /\ asks[u] = <<"mute">>
      <3>1. follows'[u] = "muted" /\ asks'[u] = <<>>
        BY <1>5, <2>1, <2>3 DEF Hushed, RunStatement, Written, ThreadInv, Shapes
      <3> QED  BY <2>3, <3>1 DEF Hushed
    <2>4. CASE v = u /\ asks[u] = <<"follow", "mute">>
      <3>1. follows'[u] = "on" /\ asks'[u] = <<"mute">>
        BY <1>5, <2>4 DEF RunStatement, Written, ThreadInv, Shapes
      <3> QED  BY <2>4, <3>1 DEF Hushed
    <2> QED  BY <1>1, <2>1, <2>2, <2>3, <2>4 DEF Hushed
  <1>14. OneHolder' /\ InOrder' /\ MutedMeansQuiet'
    BY <1>1 DEF ThreadInv, OneHolder, InOrder, MutedMeansQuiet, room, ghosts
  <1> QED  BY <1>10, <1>12, <1>13, <1>14 DEF ThreadInv

LEMMA LeaveKeepsInv ==
    ASSUME ThreadInv, NEW u \in Users, Leave(u)
    PROVE  ThreadInv'
  <1>1. /\ UNCHANGED <<direct, sent, follows, alerts, hook, work, asks, disturbed, quiet>>
        /\ members' \subseteq members /\ owed' \subseteq owed
    BY DEF Leave
  <1>2. \A r \in Replies : HookShape(hook[r])'
    BY <1>1 DEF ThreadInv, Shapes, HookShape
  <1>3. \A w \in Workers : WorkShape(w[1], work[w])'
    BY <1>1 DEF ThreadInv, Shapes, WorkShape
  <1>4. Shapes'
    BY <1>1, <1>2, <1>3 DEF ThreadInv, Shapes
  <1>5. OneHolder' /\ MutesKept' /\ InOrder' /\ Unheard' /\ MutedMeansQuiet'
    BY <1>1 DEF ThreadInv, OneHolder, MutesKept, InOrder, Unheard, Hushed, MutedMeansQuiet
  <1> QED  BY <1>4, <1>5 DEF ThreadInv

\* Every step preserves the inductive invariant.
LEMMA NextKeepsInv ==
    ASSUME ThreadInv, [Next]_vars
    PROVE  ThreadInv'
  <1>1. CASE UNCHANGED vars
    <2>1. /\ UNCHANGED <<room, follows, alerts, hook, asks, owed, quiet>> /\ work' = work
          /\ disturbed' = FALSE
      BY <1>1 DEF vars, ghosts, ThreadInv, MutedMeansQuiet, Shapes
    <2>2. DOMAIN work' = Workers /\ \A w \in Workers : WorkShape(w[1], work'[w])
      BY <2>1 DEF ThreadInv, Shapes
    <2> QED  BY <2>1, <2>2, WorkMoves
  <1>2. ASSUME NEW by \in members, NEW mentions \in Mentions(by), Send(by, mentions)
        PROVE  ThreadInv'
    BY <1>2, SendKeepsInv
  <1>3. ASSUME NEW r \in Replies, HookStep(r) \/ Abort(r) \/ Crash(r)
        PROVE  ThreadInv'
    BY <1>3, UpsertKeepsInv, UpdateAllKeepsInv, UpdateRowKeepsInv, CommitKeepsInv, AbortKeepsInv,
       CrashKeepsInv DEF HookStep
  <1>4. ASSUME NEW w \in Workers, DeliverStep(w)
        PROVE  ThreadInv'
    BY <1>4, SelectKeepsInv, ProviderKeepsInv, RecordKeepsInv DEF DeliverStep
  <1>5. ASSUME NEW u \in Users, (\E s \in Statements : AskThread(u, s)) \/ RunStatement(u) \/ Leave(u)
        PROVE  ThreadInv'
    BY <1>5, AskKeepsInv, StatementKeepsInv, LeaveKeepsInv
  <1> QED  BY <1>1, <1>2, <1>3, <1>4, <1>5, RetryKeepsInv DEF Next
-----------------------------------------------------------------------------
(* The inductive invariant, whichever hooks, deliveries and requests overlap. *)
THEOREM ThreadInvariance == Spec => []ThreadInv
  <1> QED  BY InitHolds, NextKeepsInv, PTL DEF Spec

(* Every reachable state is well typed. *)
THEOREM TypeCorrect == Spec => []TypeOK
  <1>1. ThreadInv => TypeOK
    BY ShapesAreTypes DEF ThreadInv
  <1> QED  BY <1>1, ThreadInvariance, PTL

(* apps/app/README.md:74: no provider ever takes an alert about a reply for somebody
   who had muted the thread when it was stored and has not asked to follow it since,
   whoever mentions them, whatever else commits, however often it is retried and however
   often they mute it again, but for an alert that was written between the two
   statements of such a repeated mute. *)
THEOREM MutedStayQuiet == Spec => []MutedMeansQuiet
  <1>1. ThreadInv => MutedMeansQuiet
    BY DEF ThreadInv
  <1> QED  BY <1>1, ThreadInvariance, PTL
=============================================================================
