----------------------------- MODULE SqlStorage -----------------------------
(***************************************************************************)
(* The six SQL adapters as programs: an operation is a sequence of         *)
(* transactions, each a sequence of statements, run against one database   *)
(* by several calls at once, any of which may die between two statements.  *)
(*                                                                         *)
(* A statement waits for the rows other transactions hold, then sees what  *)
(* is committed and what its own transaction wrote (READ COMMITTED).  The  *)
(* Prisma adapter asks for SERIALIZABLE in places: the transaction reads   *)
(* one snapshot and starts over when others commit meanwhile.  InnoDB's    *)
(* locking scan also keeps others from inserting, and two of them may end  *)
(* in a deadlock, which starts one of them over.  SQLite and libSQL have   *)
(* one writer at a time.                                                   *)
(***************************************************************************)
EXTENDS SqlPrograms, Integers, Sequences, FiniteSets, FiniteSetsExt

CONSTANTS
  Users, Moderators, Bodies, Titles,
  MaxUses,        \* uses the invite allows
  MaxRetries,     \* times a transaction starts over: 7 on mysql, 12 on prisma
  MaxCalls,       \* bound: calls at once; what earlier ones left is in Init
  MaxCrashes      \* bound: calls whose process dies

ASSUME SqlAssumption ==
  /\ {MaxUses, MaxRetries, MaxCrashes} \subseteq Nat
  /\ MaxCalls \in Nat \ {0}
  /\ "none" \notin Moderators   \* the mark of a missing row is no name

VARIABLES
  backend,    \* the adapter in use
  topic,      \* the tables the calls of this behaviour are about
  db,         \* committed rows
  call        \* the calls, numbered in the order they start

sqlVars == <<backend, topic, db, call>>

Backends == {"drizzle", "sqlite", "turso", "mysql", "prisma", "supabase"}
Calls == 1..MaxCalls
Nobody == "nobody"
Empty == "empty"
None == -1
Outside == [role |-> "out", read |-> FALSE]
NoReport == [status |-> "none", by |-> "none"]
NoBan == [by |-> "none", revokedBy |-> "none"]
NoMessage == [body |-> "none", gone |-> FALSE]

\* Rows, by table and key, and the values they have while they are not there.
PairRow == <<"pair", 0>>
PairMembers == <<"pairMembers", 0>>
Title == <<"title", 0>>
LastSeq == <<"lastSeq", 0>>
Block == <<"block", 0>>
Mute == <<"mute", 0>>
Uses == <<"uses", 0>>
Request == <<"request", 0>>
BanLock == <<"banLock", 0>>
Gap(n) == <<"banLock", n>>      \* InnoDB: the places of bans that a call has scanned
Seqs == 1..(MaxCalls + 1)
RowIds == 0..MaxCalls
Ban(i) == <<"ban", i>>
Bans == {Ban(i) : i \in RowIds}
Report(i) == <<"report", i>>
Mentions(U) == {<<"mention", u>> : u \in U}

Rows ==
  ({"pair", "pairMembers", "title", "lastSeq", "block", "mute", "uses", "request"} \X {0})
  \union ({"ban", "report", "banLock"} \X RowIds)
  \union ({"link", "room", "roomMembers"} \X Calls)
  \union ({"message", "tokens"} \X Seqs)
  \union ({"roster", "mention", "reaction"} \X Users)

Absent(table) ==
  CASE table \in {"pair", "block", "mute"} -> None
    [] table \in {"lastSeq", "uses", "banLock"} -> 0
    [] table \in {"pairMembers", "link", "room", "roomMembers", "mention", "reaction"} -> FALSE
    [] table = "title" -> "untitled"
    [] table = "request" -> [status |-> "none", by |-> Nobody]
    [] table = "ban" -> NoBan
    [] table = "report" -> NoReport
    [] table = "message" -> NoMessage
    [] table = "tokens" -> {}
    [] table = "roster" -> Outside

FreshDb == [c \in Rows |-> Absent(c[1])]

\* One row, and what some rows make of others.
Write(c, v) == [x \in {c} |-> v]
Over(new, old) ==
  [c \in DOMAIN new \union DOMAIN old |-> IF c \in DOMAIN new THEN new[c] ELSE old[c]]

NoCall == [phase |-> "idle", op |-> "none", arg |-> 0, tx |-> 1, st |-> 1,
           work |-> <<>>, base |-> <<>>, note |-> 0, wrote |-> FALSE, heard |-> {}, tries |-> 0]

\* What the engine asks of storage, by the tables it is about: operations with
\* their arguments.
Blocking == {"block", "unblock", "mute", "unmute"} \X {0}
Banning ==
  ({"ban"} \X Moderators)
  \union ({"revoke"} \X {[by |-> m, ban |-> i] : m \in Moderators, i \in {0, 1}})
Reporting ==
  {<<"report", 0>>}
  \union ({"review"} \X {[by |-> m, status |-> s] : m \in Moderators, s \in {"triaged", "resolved"}})
Inviting ==
  ({"invite", "uninvite", "consume", "ask"} \X {0})
  \union ({"resolve"} \X {[by |-> m, status |-> s] : m \in Moderators, s \in {"approved", "denied"}})

Requests(t) ==
  CASE t = "pair" -> {<<"direct", 0>>, <<"group", 0>>}
    [] t = "roster" -> ({"add", "remove", "role", "read"} \X Users) \union ({"title"} \X Titles)
    [] t = "message" -> ({"send", "edit"} \X Bodies) \union {<<"delete", Empty>>}
    [] t = "mention" -> {"mention"} \X ({{}} \union {{u} : u \in Users})
    [] t = "reaction" -> {"react", "unreact"} \X Users
    [] t = "block" -> Blocking
    [] t = "ban" -> Banning
    [] t = "report" -> Reporting
    [] t = "invite" -> Inviting

Topics == {"pair", "roster", "message", "mention", "reaction", "block", "ban", "report", "invite"}

\* What calls before these may have left in those tables; their id is 0.
Left(t) ==
  CASE t = "pair" -> {<<>>, Over(Write(PairRow, 0), Write(PairMembers, TRUE))}
    [] t = "roster" -> [{<<"roster", u>> : u \in Users} -> {Outside, [role |-> "member", read |-> FALSE]}]
    [] t = "message" ->
         {<<>>} \union {Over(Write(LastSeq, 1),
                             Over(Write(<<"message", 1>>, [body |-> b, gone |-> FALSE]),
                                  Write(<<"tokens", 1>>, {b}))) : b \in Bodies}
    [] t = "mention" -> [Mentions(Users) -> BOOLEAN]
    [] t = "reaction" -> [{<<"reaction", u>> : u \in Users} -> BOOLEAN]
    [] t = "block" -> [{Block, Mute} -> {None, 0}]
    [] t = "ban" -> {<<>>, Write(Ban(0), [by |-> Nobody, revokedBy |-> Nobody])}
    [] t = "report" -> {<<>>, Write(Report(0), [status |-> "open", by |-> Nobody])}
    [] t = "invite" -> {<<>>, Write(Request, [status |-> "pending", by |-> Nobody])}

-----------------------------------------------------------------------------
(* What a call sees, and what a statement is: the rows it waits for, the   *)
(* rows it writes, what the program keeps of it, and whether it throws.    *)

See(n, c) ==
  IF c \in DOMAIN call[n].work THEN call[n].work[c]
  ELSE IF call[n].base # <<>> THEN call[n].base[c] ELSE db[c]

Arg(n) == call[n].arg
Note(n) == call[n].note

Sql(waits, writes, note) == [waits |-> waits, writes |-> writes, note |-> note, throws |-> FALSE]
Throws == [waits |-> {}, writes |-> <<>>, note |-> 0, throws |-> TRUE]
Select(note) == Sql({}, <<>>, note)
Put(c, v, note) == Sql({c}, Write(c, v), note)
PutIf(p, c, v, note) == Sql({c}, IF p THEN Write(c, v) ELSE <<>>, note)

\* insert ... on conflict (pair_key) do nothing, then the participants of the
\* conversation if it was inserted, then both rows read back.
ClaimPair(n) == PutIf(See(n, PairRow) = None, PairRow, n, See(n, PairRow) = None)
JoinPair(n) == PutIf(Note(n), PairMembers, TRUE, Note(n))
AnswerPair(n) == Select([id |-> See(n, PairRow), whole |-> See(n, PairMembers), created |-> Note(n)])
AnswerPairById(n) == Select([id |-> See(n, PairRow), whole |-> See(n, PairMembers),
                           created |-> See(n, PairRow) = n])
InsertRoom(n) == Put(<<"room", n>>, TRUE, n)
InsertRoomMembers(n) == Put(<<"roomMembers", n>>, TRUE, n)

\* insert into participants ... on conflict do nothing; delete; update.
Seat(n) == <<"roster", Arg(n)>>
Seated(n) == See(n, Seat(n)).role # "out"
Join(n) == PutIf(~Seated(n), Seat(n), [role |-> "member", read |-> FALSE], "ok")
Unseat(n) == PutIf(Seated(n), Seat(n), Outside, "ok")
Promote(n) == PutIf(Seated(n), Seat(n), [See(n, Seat(n)) EXCEPT !.role = "admin"], "ok")
MarkRead(n) == PutIf(Seated(n), Seat(n), [See(n, Seat(n)) EXCEPT !.read = TRUE], "ok")
Strictly(n, statement) == IF Seated(n) THEN statement ELSE Throws
CheckSeat(n) == IF Seated(n) THEN Select("ok") ELSE Throws
Retitle(n) == Put(Title, Arg(n), "ok")

\* update conversations set last_seq = last_seq + 1 holds the row to the commit.
Bump(n) == Put(LastSeq, See(n, LastSeq) + 1, See(n, LastSeq) + 1)
Tokens(m) == IF m.gone THEN {} ELSE {m.body}
InsertMessage(n) == Put(<<"message", Note(n)>>, [body |-> Arg(n), gone |-> FALSE], Note(n))
IndexMessage(n) == Put(<<"tokens", Note(n)>>, {Arg(n)}, Note(n))

\* update messages set body, deleted_at returning *; tokens of the row returned.
FirstMessage == <<"message", 1>>
Patch(n) ==
  IF See(n, FirstMessage) = NoMessage THEN Throws
  ELSE LET m == [body |-> Arg(n), gone |-> See(n, FirstMessage).gone \/ call[n].op = "delete"]
       IN  Put(FirstMessage, m, m)
Reindex(n) == Put(<<"tokens", 1>>, Tokens(Note(n)), "ok")

\* Rows of the mention set are inserted and deleted one by one.  A DELETE sees
\* committed rows only and waits for those somebody else is deleting; under
\* InnoDB it also waits for the ones being inserted, and an INSERT locks the
\* rows it finds.
Mentioned(n, u) == See(n, <<"mention", u>>)
InsertMentions(n) ==
  Sql(Mentions(Arg(n)), [c \in Mentions({u \in Arg(n) : ~Mentioned(n, u)}) |-> TRUE], "ok")
LockMentions(n) == Sql(Mentions(Arg(n)), [c \in Mentions(Arg(n)) |-> TRUE], "ok")
Dropped(n) == Mentions({u \in Users \ Arg(n) : Mentioned(n, u)})
PruneMentions(n) == Sql(Dropped(n), [c \in Dropped(n) |-> FALSE], "ok")
ScanMentions(n) == Sql(Mentions(Users \ Arg(n)), [c \in Dropped(n) |-> FALSE], "ok")

React(n) == Put(<<"reaction", Arg(n)>>, TRUE, "ok")
Unreact(n) == Put(<<"reaction", Arg(n)>>, FALSE, "ok")
ReadReactions(n) == Select({u \in Users : See(n, <<"reaction", u>>)})

\* The value of a block or a mute is the call whose clock is its createdAt.
Impose(n, c) == PutIf(See(n, c) = None, c, n, "ok")
ImposeAgain(n, c) == Put(c, n, n)
Lift(n, c) == Put(c, None, "ok")
ReadBack(n, c) == IF See(n, c) = None THEN Throws ELSE Select(See(n, c))

IsActive(ban) == ban.revokedBy = Nobody
ActiveBans(n) == {i \in RowIds : IsActive(See(n, Ban(i)))}
NewestOf(S) == IF S = {} THEN None ELSE Max(S)
NewBan(n) == Write(Ban(n), [by |-> Arg(n), revokedBy |-> Nobody])
FindBan(n) == Select(NewestOf(ActiveBans(n)))
\* An insert waits for whoever scanned the place it goes to.
OthersGaps(n) == {Gap(m) : m \in Calls \ {n}}
LandBan(n) == IF Note(n) = None THEN Sql({Ban(n)} \union OthersGaps(n), NewBan(n), n)
                                ELSE Sql({Ban(n)}, <<>>, Note(n))
\* insert ... select ... where not exists, with nobody else writing.
GuardedBan(n) == Sql({Ban(n)}, IF ActiveBans(n) = {} THEN NewBan(n) ELSE <<>>, "ok")
AnswerBan(n) == IF ActiveBans(n) = {} THEN Throws ELSE FindBan(n)
\* for update: the rows found are locked, and a gap, which others may scan too.
Scanned(n) == {c \in Bans : See(n, c) # NoBan} \union {Gap(n)}
LockBans(n) == Sql(Bans \union {Gap(n)}, [c \in Scanned(n) |-> See(n, c)], NewestOf(ActiveBans(n)))
TakeBanLock(n) == Put(BanLock, 0, "ok")

Target(n) == Ban(Arg(n).ban)
Revoked(n) == [See(n, Target(n)) EXCEPT !.revokedBy = Arg(n).by]
RevokeActive(n) ==
  IF See(n, Target(n)) = NoBan THEN Throws
  ELSE PutIf(IsActive(See(n, Target(n))), Target(n), Revoked(n), "ok")
RevokeAny(n) == IF See(n, Target(n)) = NoBan THEN Throws ELSE Put(Target(n), Revoked(n), "ok")

\* The engine looks for an open or triaged report before it asks for a new one.
IsOpen(report) == report.status \in {"open", "triaged"}
OpenReports(n) == {i \in RowIds : IsOpen(See(n, Report(i)))}
FindReport(n) == Select(IF OpenReports(n) = {} THEN None ELSE CHOOSE i \in OpenReports(n) : TRUE)
InsertReport(n) ==
  PutIf(Note(n) = None, Report(n), [status |-> "open", by |-> Nobody],
        IF Note(n) = None THEN n ELSE Note(n))
ReadReport(n) == IF See(n, Report(Note(n))) = NoReport THEN Throws ELSE Select(Note(n))

\* Only the report earlier calls left is known to those who review.
FindReviewed(n) == IF See(n, Report(0)) = NoReport THEN Throws ELSE Select("ok")
Review(n) == Put(Report(0), [status |-> Arg(n).status, by |-> Arg(n).by], "ok")

InsertInvite(n) == Put(<<"link", n>>, TRUE, n)
DeleteInvite(n) == Put(Uses, None, "ok")

\* update ... set uses = uses + 1 where uses < max_uses.
\* Bug: the number of rows the update changed is not looked at.
ConsumeUnchecked(n) == PutIf(See(n, Uses) \in 0..MaxUses - 1, Uses, See(n, Uses) + 1, TRUE)
Consume(n) ==
  LET usable == See(n, Uses) \in 0..MaxUses - 1
  IN  PutIf(usable, Uses, See(n, Uses) + 1, usable)
Ask(n) == Put(Request, [status |-> "pending", by |-> Nobody], "ok")
Resolve(n) == IF See(n, Request).status = "none" THEN Throws
              ELSE Put(Request, [status |-> Arg(n).status, by |-> Arg(n).by], "ok")
ResolveIfAny(n) == IF See(n, Request).status = "none" THEN Select("ok") ELSE Resolve(n)
ReadRequest(n) == IF See(n, Request).status = "none" THEN Throws ELSE Select("ok")
FindTarget(n) == IF See(n, Target(n)) = NoBan THEN Throws ELSE Select("ok")
Reload(n) == Select("ok")

Result(n, statement) ==
  CASE statement = "claimPair" -> ClaimPair(n)
    [] statement = "joinPair" -> JoinPair(n)
    [] statement = "answerPair" -> AnswerPair(n)
    [] statement = "answerPairById" -> AnswerPairById(n)
    [] statement = "insertRoom" -> InsertRoom(n)
    [] statement = "insertRoomMembers" -> InsertRoomMembers(n)
    [] statement = "reload" -> Reload(n)
    [] statement = "join" -> Join(n)
    [] statement = "leave" -> Unseat(n)
    [] statement = "promote" -> Promote(n)
    [] statement = "promoteOrThrow" -> Strictly(n, Promote(n))
    [] statement = "markRead" -> MarkRead(n)
    [] statement = "markReadOrThrow" -> Strictly(n, MarkRead(n))
    [] statement = "checkSeat" -> CheckSeat(n)
    [] statement = "retitle" -> Retitle(n)
    [] statement = "bump" -> Bump(n)
    [] statement = "insertMessage" -> InsertMessage(n)
    [] statement = "indexMessage" -> IndexMessage(n)
    [] statement = "patch" -> Patch(n)
    [] statement = "reindex" -> Reindex(n)
    [] statement = "insertMentions" -> InsertMentions(n)
    [] statement = "lockMentions" -> LockMentions(n)
    [] statement = "pruneMentions" -> PruneMentions(n)
    [] statement = "scanMentions" -> ScanMentions(n)
    [] statement = "react" -> React(n)
    [] statement = "unreact" -> Unreact(n)
    [] statement = "readReactions" -> ReadReactions(n)
    [] statement = "block" -> Impose(n, Block)
    [] statement = "blockAgain" -> ImposeAgain(n, Block)
    [] statement = "unblock" -> Lift(n, Block)
    [] statement = "readBlock" -> ReadBack(n, Block)
    [] statement = "mute" -> Impose(n, Mute)
    [] statement = "muteAgain" -> ImposeAgain(n, Mute)
    [] statement = "unmute" -> Lift(n, Mute)
    [] statement = "readMute" -> ReadBack(n, Mute)
    [] statement = "findBan" -> FindBan(n)
    [] statement = "landBan" -> LandBan(n)
    [] statement = "guardedBan" -> GuardedBan(n)
    [] statement = "answerBan" -> AnswerBan(n)
    [] statement = "lockBans" -> LockBans(n)
    [] statement = "takeBanLock" -> TakeBanLock(n)
    [] statement = "findTarget" -> FindTarget(n)
    [] statement = "revokeActive" -> RevokeActive(n)
    [] statement = "revokeAny" -> RevokeAny(n)
    [] statement = "findReport" -> FindReport(n)
    [] statement = "insertReport" -> InsertReport(n)
    [] statement = "readReport" -> ReadReport(n)
    [] statement \in {"findReviewed", "readReviewed"} -> FindReviewed(n)
    [] statement = "review" -> Review(n)
    [] statement = "insertInvite" -> InsertInvite(n)
    [] statement = "readInvite" -> Select("ok")
    [] statement = "deleteInvite" -> DeleteInvite(n)
    [] statement = "consume" -> Consume(n)
    [] statement = "ask" -> Ask(n)
    [] statement = "resolve" -> Resolve(n)
    [] statement = "resolveIfAny" -> ResolveIfAny(n)
    [] statement = "readRequest" -> ReadRequest(n)

-----------------------------------------------------------------------------
(* Running the programs.                                                   *)

Running(n) == call[n].phase = "running"
Ended(n) == call[n].phase \in {"done", "failed", "crashed"}
Program(n) == Programs[backend][call[n].op]
Transaction(n) == Program(n)[call[n].tx]
Statement(n) == Transaction(n)[call[n].st]
AllRun(n) == call[n].st > Len(Transaction(n))
Opens(n) == ~AllRun(n) /\ Statement(n) = Snapshot
Runs(n) == Running(n) /\ ~AllRun(n) /\ ~Opens(n)
AutoCommits(n) == Len(Transaction(n)) = 1
LastTransaction(n) == call[n].tx = Len(Program(n))
Now(n) == Result(n, Statement(n))

Holds(m) == DOMAIN call[m].work

\* SQLite and libSQL let one transaction write at a time; elsewhere a statement
\* waits for the transaction that holds one of its rows.
OneWriter == backend \in {"sqlite", "turso"}

WaitsFor(n, m) ==
  /\ Runs(n) /\ m # n
  /\ LET rows == Now(n).waits
     IN  rows \intersect Holds(m) # {} \/ (OneWriter /\ rows # {} /\ Holds(m) # {})

Free(n) == \A m \in Calls : ~WaitsFor(n, m)

\* Bug: the transaction of a call that ended is not rolled back.
EndsOpen(n, phase, note, wrote) ==
  [call[n] EXCEPT !.phase = phase, !.note = note, !.wrote = wrote, !.tx = 1, !.st = 1]

Ends(n, phase, note, wrote) ==
  [call[n] EXCEPT !.phase = phase, !.note = note, !.wrote = wrote,
                  !.tx = 1, !.st = 1, !.work = <<>>, !.base = <<>>, !.tries = 0]

StartCall(n, r) ==
  /\ call[n].phase = "idle" /\ \A m \in 1..(n - 1) : call[m].phase # "idle"
  /\ call' = [call EXCEPT ![n] = [NoCall EXCEPT !.phase = "running", !.op = r[1], !.arg = r[2],
                                            !.heard = {m \in Calls : Ended(m)}]]
  /\ UNCHANGED <<backend, topic, db>>

\* A serializable transaction reads the snapshot it opens with.
OpenSnapshot(n) ==
  /\ Running(n) /\ Opens(n)
  /\ call' = [call EXCEPT ![n].base = db, ![n].st = @ + 1]
  /\ UNCHANGED <<backend, topic, db>>

Execute(n) ==
  /\ Runs(n) /\ ~AutoCommits(n) /\ Free(n) /\ ~Now(n).throws
  /\ call' = [call EXCEPT ![n].st = @ + 1, ![n].note = Now(n).note, ![n].work = Over(Now(n).writes, @)]
  /\ UNCHANGED <<backend, topic, db>>

Committed(n, rows, note) ==
  LET wrote == call[n].wrote \/ DOMAIN rows # {}
  IN  /\ db' = Over(rows, db)
      /\ call' = [call EXCEPT ![n] =
           IF LastTransaction(n) THEN Ends(n, "done", note, wrote)
           ELSE [call[n] EXCEPT !.tx = @ + 1, !.st = 1, !.work = <<>>, !.base = <<>>,
                                !.note = note, !.wrote = wrote, !.tries = 0]]
      /\ UNCHANGED <<backend, topic>>

\* A statement outside a transaction commits by itself.
ExecuteAlone(n) ==
  /\ Runs(n) /\ AutoCommits(n) /\ Free(n) /\ ~Now(n).throws
  /\ Committed(n, Now(n).writes, Now(n).note)

\* Others committed since the snapshot: serialization failure.
Serializable(n) == call[n].base # <<>>
Overtaken(n) == Serializable(n) /\ call[n].base # db

Commit(n) ==
  /\ Running(n) /\ AllRun(n) /\ ~Overtaken(n)
  /\ Committed(n, call[n].work, Note(n))

\* The database ends a transaction that was overtaken, or waits in a circle.
Deadlocked(n) == \E m \in Calls : WaitsFor(n, m) /\ WaitsFor(m, n)
Broken(n) == (AllRun(n) /\ Overtaken(n)) \/ Deadlocked(n)

\* transactionWithRetry: from the top of the transaction, with nothing written,
\* until the attempts are used up.
MayRetry(n) ==
  /\ Serializable(n) \/ <<backend, call[n].op>> \in Restarted
  /\ call[n].tries < MaxRetries

Retry(n) ==
  /\ Running(n) /\ Broken(n) /\ MayRetry(n)
  /\ call' = [call EXCEPT ![n].st = 1, ![n].work = <<>>, ![n].base = <<>>, ![n].note = 0,
                          ![n].tries = @ + 1]
  /\ UNCHANGED <<backend, topic, db>>

\* A row that is not there, or a transaction that is ended and not retried.
Throw(n) ==
  /\ Running(n)
  /\ (Runs(n) /\ Free(n) /\ Now(n).throws) \/ (Broken(n) /\ ~MayRetry(n))
  /\ call' = [call EXCEPT ![n] = Ends(n, "failed", 0, call[n].wrote)]
  /\ UNCHANGED <<backend, topic, db>>

\* The process dies: what it had not committed is rolled back.
Crash(n) ==
  /\ Running(n) /\ Cardinality({m \in Calls : call[m].phase = "crashed"}) < MaxCrashes
  /\ call' = [call EXCEPT ![n] = Ends(n, "crashed", 0, call[n].wrote)]
  /\ UNCHANGED <<backend, topic, db>>

-----------------------------------------------------------------------------
SqlInit ==
  /\ backend \in Backends
  /\ topic \in Topics
  /\ \E rows \in Left(topic) : db = Over(rows, FreshDb)
  /\ call = [n \in Calls |-> NoCall]

Advance(n) == OpenSnapshot(n) \/ Execute(n) \/ ExecuteAlone(n) \/ Commit(n) \/ Retry(n) \/ Throw(n)

SqlNext ==
  \E n \in Calls :
    \/ \E r \in Requests(topic) : StartCall(n, r)
    \/ OpenSnapshot(n)
    \/ Execute(n)
    \/ ExecuteAlone(n)
    \/ Commit(n)
    \/ Retry(n)
    \/ Throw(n)
    \/ Crash(n)

\* A process that lives awaits its driver, and a database lets no statement
\* wait for ever on a row that is free.
SqlFairness == \A n \in Calls : WF_sqlVars(Advance(n))

SqlSpec == SqlInit /\ [][SqlNext]_sqlVars
FairSqlSpec == SqlSpec /\ SqlFairness

-----------------------------------------------------------------------------
SqlTypeOK ==
  /\ backend \in Backends /\ topic \in Topics
  /\ DOMAIN db = Rows
  /\ \A n \in Calls : /\ call[n].phase \in {"idle", "running", "done", "failed", "crashed"}
                      /\ Holds(n) \subseteq DOMAIN db

\* The objects the rows stand for.
Present(table) == {n \in Calls : db[<<table, n>>]}
Sent == 1..db[LastSeq]
Stored ==
  [pair |-> [id |-> db[PairRow], whole |-> db[PairMembers]],
   rooms |-> [n \in Present("room") |-> db[<<"roomMembers", n>>]],
   roster |-> [u \in Users |-> db[<<"roster", u>>]],
   title |-> db[Title],
   log |-> [q \in Sent |-> db[<<"message", q>>]],
   found |-> [q \in Sent |-> db[<<"tokens", q>>]],
   mentions |-> {u \in Users : db[<<"mention", u>>]},
   reactions |-> {u \in Users : db[<<"reaction", u>>]},
   block |-> db[Block], mute |-> db[Mute],
   bans |-> [i \in {i \in RowIds : db[Ban(i)] # NoBan} |-> db[Ban(i)]],
   reports |-> [i \in {i \in RowIds : db[Report(i)] # NoReport} |-> db[Report(i)]],
   links |-> {n \in Calls : db[<<"link", n>>]},
   uses |-> db[Uses], request |-> db[Request]]

Contract == INSTANCE StorageContract WITH store <- Stored, Ids <- RowIds

\* Where an adapter does not keep the contract: a direct conversation inserted
\* before its participants, two bans under one NOT EXISTS, a revocation that
\* is written over, a block or mute that starts anew, two mention sets mixed.
Exempt == {<<"drizzle", "pair">>, <<"sqlite", "pair">>, <<"drizzle", "ban">>, <<"mysql", "ban">>,
           <<"prisma", "ban">>, <<"prisma", "block">>, <<"drizzle", "mention">>, <<"supabase", "mention">>}

\* Every commit of every adapter is one operation of the contract, whatever ran
\* at the same time, died, waited or was retried: no seq twice or skipped, no
\* text without its search tokens, no invite used once too often, no ban beside
\* an active one, no mentions of two calls.
KeepsTheContract == Contract!Init /\ [][Contract!Next \/ <<backend, topic>> \in Exempt]_Stored

Answered(op) == {n \in Calls : call[n].phase = "done" /\ call[n].op = op}

\* Where an answer says more than was done.
Lax == {<<"drizzle", "direct">>, <<"sqlite", "direct">>, <<"mysql", "read">>,
        <<"drizzle", "role">>, <<"sqlite", "role">>, <<"turso", "role">>, <<"mysql", "role">>}

\* An answer can be acted on: the conversation returned is the pair's one
\* conversation with both people in it and one call at most created it, a seq is
\* handed out once, every use of an invite admitted one caller, a report made
\* again after one was answered opens no other as long as none is reviewed, and
\* a read mark or a role that is acknowledged was written.
AnswersAreTrue ==
  /\ \A n \in Answered("direct") :
       /\ Note(n).id = db[PairRow]
       /\ Note(n).whole \/ <<backend, "direct">> \in Lax
  /\ Cardinality({n \in Answered("direct") : Note(n).created}) \leq 1
  /\ \A m, n \in Answered("send") : Note(m) = Note(n) => m = n
  /\ LET redeemed == Cardinality({n \in Answered("consume") : Note(n)})
     IN  redeemed \leq MaxUses /\ (db[Uses] # None => db[Uses] = redeemed)
  /\ \A n \in Answered("ban") : db[Ban(Note(n))] # NoBan
  /\ \A n \in Answered("report") : db[Report(Note(n))] # NoReport
  /\ (\A k \in Calls : call[k].op # "review") =>
       \A n \in Answered("report") : Answered("report") \intersect call[n].heard # {} => Note(n) # n
  /\ \A op \in {"read", "role"} : \A n \in Answered(op) : call[n].wrote \/ <<backend, op>> \in Lax

\* No call waits for ever: locks end with their transaction, deadlocks are
\* broken, retries stop, and a writer that died does not hold the queue.
EveryCallEnds == \A n \in Calls : Running(n) ~> Ended(n)
=============================================================================
