---------------------------- MODULE StorageProofs ----------------------------
(***************************************************************************)
(* Proofs about storage.                                                   *)
(*                                                                         *)
(* SqlStorage, for any number of calls, users and crashes: the commits of  *)
(* the six SQL adapters are operations of StorageContract, but for the     *)
(* exceptions Exempt names, and what the adapters answer is true.  The     *)
(* steps of a call are first written field by field, then each topic has   *)
(* its invariant: what a transaction holds and has read at each of its     *)
(* statements, by the place of the call in its program.                    *)
(*                                                                         *)
(* Paging, for every finite set of rows, all sizes of a page and of a      *)
(* read, and any number of changes: reading a list to its end misses no    *)
(* row that stayed, and repeats one only for the stated causes.            *)
(***************************************************************************)
EXTENDS SqlStorage, Paging, TLAPS, FiniteSetTheorems, WellFoundedInduction

-----------------------------------------------------------------------------
(* What the steps of a call do, field by field.                            *)

Shaped == DOMAIN call = Calls /\ \A n \in Calls : DOMAIN call[n] = DOMAIN NoCall

OthersStay(n) ==
  /\ UNCHANGED <<backend, topic>> /\ DOMAIN call' = DOMAIN call
  /\ \A m \in Calls \ {n} : call'[m] = call[m]
Identity(n) ==
  /\ DOMAIN call'[n] = DOMAIN NoCall
  /\ call'[n].op = call[n].op /\ call'[n].arg = call[n].arg /\ call'[n].heard = call[n].heard

Started(n, r) ==
  /\ call[n].phase = "idle"
  /\ OthersStay(n) /\ db' = db /\ DOMAIN call'[n] = DOMAIN NoCall
  /\ call'[n].phase = "running" /\ call'[n].op = r[1] /\ call'[n].arg = r[2]
  /\ call'[n].tx = 1 /\ call'[n].st = 1 /\ call'[n].work = <<>> /\ call'[n].base = <<>>
  /\ call'[n].note = 0 /\ call'[n].wrote = FALSE /\ call'[n].heard = {m \in Calls : Ended(m)}

Opened(n) ==
  /\ Running(n) /\ Opens(n)
  /\ OthersStay(n) /\ db' = db /\ Identity(n)
  /\ call'[n].phase = "running" /\ call'[n].tx = call[n].tx /\ call'[n].st = call[n].st + 1
  /\ call'[n].work = call[n].work /\ call'[n].base = db
  /\ call'[n].note = call[n].note /\ call'[n].wrote = call[n].wrote

Executed(n) ==
  /\ Runs(n) /\ ~AutoCommits(n) /\ Free(n) /\ ~Now(n).throws
  /\ OthersStay(n) /\ db' = db /\ Identity(n)
  /\ call'[n].phase = "running" /\ call'[n].tx = call[n].tx /\ call'[n].st = call[n].st + 1
  /\ call'[n].work = Over(Now(n).writes, call[n].work) /\ call'[n].base = call[n].base
  /\ call'[n].note = Now(n).note /\ call'[n].wrote = call[n].wrote

Landed(n, new, note) ==
  /\ OthersStay(n) /\ db' = Over(new, db) /\ Identity(n)
  /\ call'[n].st = 1 /\ call'[n].work = <<>> /\ call'[n].base = <<>>
  /\ call'[n].note = note /\ call'[n].wrote = (call[n].wrote \/ DOMAIN new # {})
  /\ LastTransaction(n) => call'[n].phase = "done" /\ call'[n].tx = 1
  /\ ~LastTransaction(n) => call'[n].phase = "running" /\ call'[n].tx = call[n].tx + 1

LandedAlone(n) ==
  /\ Runs(n) /\ AutoCommits(n) /\ Free(n) /\ ~Now(n).throws
  /\ Landed(n, Now(n).writes, Now(n).note)

LandedWhole(n) ==
  /\ Running(n) /\ AllRun(n) /\ ~Overtaken(n)
  /\ Landed(n, call[n].work, Note(n))

Again(n) ==
  /\ Running(n) /\ (Serializable(n) \/ <<backend, call[n].op>> \in Restarted)
  /\ OthersStay(n) /\ db' = db /\ Identity(n)
  /\ call'[n].phase = "running" /\ call'[n].tx = call[n].tx /\ call'[n].st = 1
  /\ call'[n].work = <<>> /\ call'[n].base = <<>>
  /\ call'[n].note = 0 /\ call'[n].wrote = call[n].wrote

Stopped(n) ==
  /\ Running(n)
  /\ OthersStay(n) /\ db' = db /\ Identity(n)
  /\ call'[n].phase \in {"failed", "crashed"} /\ call'[n].tx = 1 /\ call'[n].st = 1
  /\ call'[n].work = <<>> /\ call'[n].base = <<>>
  /\ call'[n].note = 0 /\ call'[n].wrote = call[n].wrote

Stepped(n) ==
  \/ \E r \in Requests(topic) : Started(n, r)
  \/ Opened(n) \/ Executed(n) \/ LandedAlone(n) \/ LandedWhole(n) \/ Again(n) \/ Stopped(n)

LEMMA NoCallFields ==
  DOMAIN NoCall = {"phase", "op", "arg", "tx", "st", "work", "base", "note", "wrote", "heard", "tries"}
  BY DEF NoCall

LEMMA StartEffect ==
  ASSUME Shaped, NEW n \in Calls, NEW r, StartCall(n, r) PROVE Started(n, r)
  BY NoCallFields DEF Shaped, StartCall, Started, OthersStay, NoCall

LEMMA OpenEffect ==
  ASSUME Shaped, NEW n \in Calls, OpenSnapshot(n) PROVE Opened(n)
  BY NoCallFields DEF Shaped, OpenSnapshot, Opened, OthersStay, Identity, Running

LEMMA ExecuteEffect ==
  ASSUME Shaped, NEW n \in Calls, Execute(n) PROVE Executed(n)
  BY NoCallFields DEF Shaped, Execute, Executed, OthersStay, Identity, Running, Runs

LEMMA LandEffect ==
  ASSUME Shaped, NEW n \in Calls, Running(n), NEW new, NEW note, Committed(n, new, note)
  PROVE  Landed(n, new, note)
<1> DEFINE wrote == call[n].wrote \/ DOMAIN new # {}
           last == [call[n] EXCEPT !.phase = "done", !.note = note, !.wrote = wrote,
                                   !.tx = 1, !.st = 1, !.work = <<>>, !.base = <<>>, !.tries = 0]
           more == [call[n] EXCEPT !.tx = @ + 1, !.st = 1, !.work = <<>>, !.base = <<>>,
                                   !.note = note, !.wrote = wrote, !.tries = 0]
           next == IF LastTransaction(n) THEN last ELSE more
<1>1. call' = [call EXCEPT ![n] = next] /\ db' = Over(new, db) /\ UNCHANGED <<backend, topic>>
  BY DEF Committed, Ends
<1>2. OthersStay(n) /\ call'[n] = next
  BY <1>1 DEF Shaped, OthersStay
<1>3. CASE LastTransaction(n)
  <2>1. call'[n] = last
    BY <1>2, <1>3
  <2> QED  BY <1>1, <1>2, <1>3, <2>1, NoCallFields DEF Shaped, Landed, Identity
<1>4. CASE ~LastTransaction(n)
  <2>1. call'[n] = more
    BY <1>2, <1>4
  <2> QED  BY <1>1, <1>2, <1>4, <2>1, NoCallFields DEF Shaped, Landed, Identity, Running
<1> QED  BY <1>3, <1>4

LEMMA RetryEffect ==
  ASSUME Shaped, NEW n \in Calls, Retry(n) PROVE Again(n)
  BY NoCallFields DEF Shaped, Retry, MayRetry, Again, OthersStay, Identity, Running

LEMMA StopEffect ==
  ASSUME Shaped, NEW n \in Calls, Throw(n) \/ Crash(n) PROVE Stopped(n)
<1>1. PICK phase \in {"failed", "crashed"} : call' = [call EXCEPT ![n] = Ends(n, phase, 0, call[n].wrote)]
  BY DEF Throw, Crash
<1>2. Running(n) /\ UNCHANGED <<backend, topic, db>>
  BY DEF Throw, Crash, Runs
<1>3. OthersStay(n) /\ call'[n] = Ends(n, phase, 0, call[n].wrote)
  BY <1>1, <1>2 DEF Shaped, OthersStay
<1> QED  BY <1>2, <1>3, NoCallFields DEF Shaped, Ends, Stopped, Identity

LEMMA StepEffect ==
  ASSUME Shaped, SqlNext PROVE \E n \in Calls : Stepped(n)
<1>1. PICK n \in Calls : \/ \E r \in Requests(topic) : StartCall(n, r)
                         \/ OpenSnapshot(n) \/ Execute(n) \/ ExecuteAlone(n) \/ Commit(n)
                         \/ Retry(n) \/ Throw(n) \/ Crash(n)
  BY DEF SqlNext
<1>2. ASSUME ExecuteAlone(n) PROVE LandedAlone(n)
  BY <1>2, LandEffect DEF ExecuteAlone, LandedAlone, Runs
<1>3. ASSUME Commit(n) PROVE LandedWhole(n)
  BY <1>3, LandEffect DEF Commit, LandedWhole
<1> QED  BY <1>1, <1>2, <1>3, StartEffect, OpenEffect, ExecuteEffect, RetryEffect, StopEffect DEF Stepped

-----------------------------------------------------------------------------
(* The programs of the six adapters, by topic.                             *)

LEMMA PairPrograms ==
  ASSUME NEW b \in Backends
  PROVE  /\ b \in {"drizzle", "sqlite"} =>
              Programs[b].direct = << <<"claimPair">>, <<"joinPair">>, <<"answerPair">> >>
         /\ b \in {"turso", "supabase"} =>
              Programs[b].direct = << <<"claimPair", "joinPair">>, <<"answerPair">> >>
         /\ b = "mysql" =>
              Programs[b].direct = << <<"claimPair", "joinPair">>, <<"answerPairById">> >>
         /\ b = "prisma" =>
              Programs[b].direct = << <<Snapshot, "claimPair", "joinPair">>, <<"answerPairById">> >>
         /\ Programs[b].group = << <<"insertRoom", "insertRoomMembers">>, <<"reload">> >>
<1>1. CASE b = "drizzle"
  BY <1>1 DEF Programs, Drizzle, DrizzleDirect, DrizzleGroup, Within
<1>2. CASE b = "sqlite"
  BY <1>2 DEF Programs, Sqlite, SqliteDirect, SqliteGroup, Within
<1>3. CASE b = "turso"
  BY <1>3 DEF Programs, Turso, TursoDirect, TursoGroup, Within
<1>4. CASE b = "mysql"
  BY <1>4 DEF Programs, Mysql, MysqlDirect, MysqlGroup, Within
<1>5. CASE b = "prisma"
  BY <1>5 DEF Programs, Prisma, PrismaDirect, PrismaGroup, Within
<1>6. CASE b = "supabase"
  BY <1>6 DEF Programs, Supabase, SupabaseDirect, SupabaseGroup, Within
<1> QED  BY <1>1, <1>2, <1>3, <1>4, <1>5, <1>6 DEF Backends

LEMMA RosterPrograms ==
  ASSUME NEW b \in Backends
  PROVE  /\ Programs[b].add = << <<"join">>, <<"reload">> >>
         /\ Programs[b].remove = << <<"leave">>, <<"reload">> >>
         /\ b \in {"drizzle", "sqlite", "turso", "mysql"} =>
              Programs[b].role = << <<"promote">>, <<"reload">> >>
         /\ b \in {"prisma", "supabase"} =>
              Programs[b].role = << <<"promoteOrThrow">>, <<"reload">> >>
         /\ Programs[b].title = << <<"retitle">>, <<"reload">> >>
         /\ b \in {"drizzle", "sqlite", "turso", "prisma", "supabase"} =>
              Programs[b].read = << <<"markReadOrThrow">> >>
         /\ b = "mysql" => Programs[b].read = << <<"markRead">>, <<"checkSeat">> >>
<1>1. CASE b = "drizzle"
  BY <1>1 DEF Programs, Drizzle, DrizzleRoster, DrizzleRead, Alone, RosterWrites, Then
<1>2. CASE b = "sqlite"
  BY <1>2 DEF Programs, Sqlite, SqliteRoster, SqliteRead, Alone, RosterWrites, Then
<1>3. CASE b = "turso"
  BY <1>3 DEF Programs, Turso, TursoRoster, TursoRead, Alone, RosterWrites, Then
<1>4. CASE b = "mysql"
  BY <1>4 DEF Programs, Mysql, MysqlRoster, MysqlRead, Then, RosterWrites
<1>5. CASE b = "prisma"
  BY <1>5 DEF Programs, Prisma, PrismaRoster, PrismaRead, Alone, RosterWrites, Then
<1>6. CASE b = "supabase"
  BY <1>6 DEF Programs, Supabase, SupabaseRoster, SupabaseRead, Alone, RosterWrites, Then
<1> QED  BY <1>1, <1>2, <1>3, <1>4, <1>5, <1>6 DEF Backends

LEMMA MessagePrograms ==
  ASSUME NEW b \in Backends
  PROVE  /\ Programs[b].send = << <<"bump", "insertMessage", "indexMessage">> >>
         /\ b \in {"drizzle", "sqlite", "turso", "mysql", "supabase"} =>
              Programs[b].edit = << <<"patch", "reindex">> >>
         /\ b = "prisma" => Programs[b].edit = << <<Snapshot, "patch", "reindex">> >>
         /\ b \in {"drizzle", "sqlite", "turso", "mysql", "supabase"} =>
              Programs[b].delete = << <<"patch", "reindex">> >>
         /\ b = "prisma" => Programs[b].delete = << <<Snapshot, "patch", "reindex">> >>
<1>1. CASE b = "drizzle"
  BY <1>1 DEF Programs, Drizzle, DrizzleSend, DrizzleUpdate, SendTransaction,
         UpdateTransaction
<1>2. CASE b = "sqlite"
  BY <1>2 DEF Programs, Sqlite, SqliteSend, SqliteUpdate, SendTransaction,
         UpdateTransaction
<1>3. CASE b = "turso"
  BY <1>3 DEF Programs, Turso, TursoSend, TursoUpdate, SendTransaction, UpdateTransaction
<1>4. CASE b = "mysql"
  BY <1>4 DEF Programs, Mysql, MysqlSend, MysqlUpdate, SendTransaction, UpdateTransaction
<1>5. CASE b = "prisma"
  BY <1>5 DEF Programs, Prisma, PrismaSend, PrismaUpdate, SendTransaction
<1>6. CASE b = "supabase"
  BY <1>6 DEF Programs, Supabase, SupabaseSend, SupabaseUpdate, SendTransaction,
         UpdateTransaction
<1> QED  BY <1>1, <1>2, <1>3, <1>4, <1>5, <1>6 DEF Backends

LEMMA MentionPrograms ==
  ASSUME NEW b \in Backends
  PROVE  /\ b \in {"drizzle", "sqlite", "turso"} =>
              Programs[b].mention = << <<"insertMentions", "pruneMentions">> >>
         /\ b = "mysql" => Programs[b].mention = << <<"lockMentions", "scanMentions">> >>
         /\ b = "prisma" =>
              Programs[b].mention = << <<Snapshot, "insertMentions", "pruneMentions">> >>
         /\ b = "supabase" => Programs[b].mention = << <<"pruneMentions", "insertMentions">> >>
<1>1. CASE b = "drizzle"
  BY <1>1 DEF Programs, Drizzle, DrizzleMention
<1>2. CASE b = "sqlite"
  BY <1>2 DEF Programs, Sqlite, SqliteMention
<1>3. CASE b = "turso"
  BY <1>3 DEF Programs, Turso, TursoMention
<1>4. CASE b = "mysql"
  BY <1>4 DEF Programs, Mysql, MysqlMention
<1>5. CASE b = "prisma"
  BY <1>5 DEF Programs, Prisma, PrismaMention
<1>6. CASE b = "supabase"
  BY <1>6 DEF Programs, Supabase, SupabaseMention
<1> QED  BY <1>1, <1>2, <1>3, <1>4, <1>5, <1>6 DEF Backends

LEMMA ReactionPrograms ==
  ASSUME NEW b \in Backends
  PROVE  /\ Programs[b].react = << <<"react">>, <<"readReactions">> >>
         /\ Programs[b].unreact = << <<"unreact">>, <<"readReactions">> >>
<1>1. CASE b = "drizzle"
  BY <1>1 DEF Programs, Drizzle, DrizzleReact, Then
<1>2. CASE b = "sqlite"
  BY <1>2 DEF Programs, Sqlite, SqliteReact, Then
<1>3. CASE b = "turso"
  BY <1>3 DEF Programs, Turso, TursoReact, Then
<1>4. CASE b = "mysql"
  BY <1>4 DEF Programs, Mysql, MysqlReact, Then
<1>5. CASE b = "prisma"
  BY <1>5 DEF Programs, Prisma, PrismaReact, Then
<1>6. CASE b = "supabase"
  BY <1>6 DEF Programs, Supabase, SupabaseReact, Then
<1> QED  BY <1>1, <1>2, <1>3, <1>4, <1>5, <1>6 DEF Backends

LEMMA BlockPrograms ==
  ASSUME NEW b \in Backends
  PROVE  /\ b \in {"drizzle", "sqlite", "turso", "mysql", "supabase"} =>
              Programs[b].block = << <<"block">>, <<"readBlock">> >>
         /\ b = "prisma" => Programs[b].block = << <<"blockAgain">> >>
         /\ Programs[b].unblock = << <<"unblock">> >>
         /\ b \in {"drizzle", "sqlite", "turso", "mysql", "supabase"} =>
              Programs[b].mute = << <<"mute">>, <<"readMute">> >>
         /\ b = "prisma" => Programs[b].mute = << <<"muteAgain">> >>
         /\ Programs[b].unmute = << <<"unmute">> >>
<1>1. CASE b = "drizzle"
  BY <1>1 DEF Programs, Drizzle, DrizzleBlock, DrizzleMute, Alone, Then
<1>2. CASE b = "sqlite"
  BY <1>2 DEF Programs, Sqlite, SqliteBlock, SqliteMute, Alone, Then
<1>3. CASE b = "turso"
  BY <1>3 DEF Programs, Turso, TursoBlock, TursoMute, Alone, Then
<1>4. CASE b = "mysql"
  BY <1>4 DEF Programs, Mysql, MysqlBlock, MysqlMute, Alone, Then
<1>5. CASE b = "prisma"
  BY <1>5 DEF Programs, Prisma, PrismaBlock, PrismaMute, Alone
<1>6. CASE b = "supabase"
  BY <1>6 DEF Programs, Supabase, SupabaseBlock, SupabaseMute, Alone, Then
<1> QED  BY <1>1, <1>2, <1>3, <1>4, <1>5, <1>6 DEF Backends

LEMMA BanPrograms ==
  ASSUME NEW b \in Backends
  PROVE  /\ b = "drizzle" => Programs[b].ban = << <<"findBan", "landBan">>, <<"answerBan">> >>
         /\ b \in {"sqlite", "turso"} =>
              Programs[b].ban = << <<"guardedBan">>, <<"answerBan">> >>
         /\ b = "mysql" => Programs[b].ban = << <<"lockBans", "landBan">> >>
         /\ b = "prisma" =>
              Programs[b].ban = << <<Snapshot, "takeBanLock", "findBan", "landBan">> >>
         /\ b = "supabase" => Programs[b].ban = << <<"takeBanLock", "findBan", "landBan">> >>
         /\ b \in {"drizzle", "sqlite", "turso"} => Programs[b].revoke = << <<"revokeActive">> >>
         /\ b = "mysql" => Programs[b].revoke = << <<"revokeAny">>, <<"findTarget">> >>
         /\ b = "prisma" => Programs[b].revoke = << <<"revokeAny">> >>
         /\ b = "supabase" => Programs[b].revoke = << <<"findTarget">>, <<"revokeActive">> >>
<1>1. CASE b = "drizzle"
  BY <1>1 DEF Programs, Drizzle, DrizzleBan, DrizzleRevoke, Alone, Within
<1>2. CASE b = "sqlite"
  BY <1>2 DEF Programs, Sqlite, SqliteBan, SqliteRevoke, Alone, Then
<1>3. CASE b = "turso"
  BY <1>3 DEF Programs, Turso, TursoBan, TursoRevoke, Alone, Then
<1>4. CASE b = "mysql"
  BY <1>4 DEF Programs, Mysql, MysqlBan, MysqlRevoke, Then
<1>5. CASE b = "prisma"
  BY <1>5 DEF Programs, Prisma, PrismaBan, PrismaRevoke, Alone
<1>6. CASE b = "supabase"
  BY <1>6 DEF Programs, Supabase, SupabaseBan, SupabaseRevoke, Then
<1> QED  BY <1>1, <1>2, <1>3, <1>4, <1>5, <1>6 DEF Backends

LEMMA ReportPrograms ==
  ASSUME NEW b \in Backends
  PROVE  /\ b \in {"drizzle", "sqlite", "turso", "mysql"} =>
              Programs[b].report = << <<"findReport">>, <<"insertReport">>, <<"readReport">> >>
         /\ b \in {"prisma", "supabase"} =>
              Programs[b].report = << <<"findReport">>, <<"insertReport">> >>
         /\ b \in {"drizzle", "sqlite", "turso", "prisma", "supabase"} =>
              Programs[b].review = << <<"findReviewed">>, <<"review">> >>
         /\ b = "mysql" =>
              Programs[b].review = << <<"findReviewed">>, <<"review">>, <<"readReviewed">> >>
<1>1. CASE b = "drizzle"
  BY <1>1 DEF Programs, Drizzle, DrizzleReport, DrizzleReview, Then
<1>2. CASE b = "sqlite"
  BY <1>2 DEF Programs, Sqlite, SqliteReport, SqliteReview, Then
<1>3. CASE b = "turso"
  BY <1>3 DEF Programs, Turso, TursoReport, TursoReview, Then
<1>4. CASE b = "mysql"
  BY <1>4 DEF Programs, Mysql, MysqlReport, MysqlReview
<1>5. CASE b = "prisma"
  BY <1>5 DEF Programs, Prisma, PrismaReport, PrismaReview, Then
<1>6. CASE b = "supabase"
  BY <1>6 DEF Programs, Supabase, SupabaseReport, SupabaseReview, Then
<1> QED  BY <1>1, <1>2, <1>3, <1>4, <1>5, <1>6 DEF Backends

LEMMA InvitePrograms ==
  ASSUME NEW b \in Backends
  PROVE  /\ b \in {"drizzle", "sqlite", "turso", "prisma", "supabase"} =>
              Programs[b].invite = << <<"insertInvite">> >>
         /\ b = "mysql" => Programs[b].invite = << <<"insertInvite">>, <<"readInvite">> >>
         /\ Programs[b].uninvite = << <<"deleteInvite">> >>
         /\ Programs[b].consume = << <<"consume">> >>
         /\ b \in {"drizzle", "sqlite", "turso", "prisma", "supabase"} =>
              Programs[b].ask = << <<"ask">> >>
         /\ b = "mysql" => Programs[b].ask = << <<"ask">>, <<"readRequest">> >>
         /\ b \in {"drizzle", "sqlite", "turso", "prisma", "supabase"} =>
              Programs[b].resolve = << <<"resolve">> >>
         /\ b = "mysql" => Programs[b].resolve = << <<"resolveIfAny">>, <<"readRequest">> >>
<1>1. CASE b = "drizzle"
  BY <1>1 DEF Programs, Drizzle, DrizzleInvite, DrizzleUninvite, DrizzleAdmit,
         DrizzleResolve, Alone
<1>2. CASE b = "sqlite"
  BY <1>2 DEF Programs, Sqlite, SqliteInvite, SqliteUninvite, SqliteAdmit, SqliteResolve,
         Alone
<1>3. CASE b = "turso"
  BY <1>3 DEF Programs, Turso, TursoInvite, TursoUninvite, TursoAdmit, TursoResolve, Alone
<1>4. CASE b = "mysql"
  BY <1>4 DEF Programs, Mysql, MysqlInvite, MysqlUninvite, MysqlAdmit, MysqlResolve,
         Alone, Then
<1>5. CASE b = "prisma"
  BY <1>5 DEF Programs, Prisma, PrismaInvite, PrismaUninvite, PrismaAdmit, PrismaResolve,
         Alone
<1>6. CASE b = "supabase"
  BY <1>6 DEF Programs, Supabase, SupabaseInvite, SupabaseUninvite, SupabaseAdmit,
         SupabaseResolve, Alone
<1> QED  BY <1>1, <1>2, <1>3, <1>4, <1>5, <1>6 DEF Backends

-----------------------------------------------------------------------------
(* The statements of a topic and the tables they write.                    *)

StatementsOf(t) ==
  CASE t = "pair" -> {"claimPair", "joinPair", "answerPair", "answerPairById", "insertRoom",
                      "insertRoomMembers", "reload"}
    [] t = "roster" -> {"join", "leave", "promote", "promoteOrThrow", "markRead",
                        "markReadOrThrow", "checkSeat", "retitle", "reload"}
    [] t = "message" -> {"bump", "insertMessage", "indexMessage", "patch", "reindex"}
    [] t = "mention" -> {"insertMentions", "lockMentions", "pruneMentions", "scanMentions"}
    [] t = "reaction" -> {"react", "unreact", "readReactions"}
    [] t = "block" -> {"block", "blockAgain", "unblock", "readBlock",
                       "mute", "muteAgain", "unmute", "readMute"}
    [] t = "ban" -> {"findBan", "landBan", "guardedBan", "answerBan", "lockBans", "takeBanLock",
                     "findTarget", "revokeActive", "revokeAny"}
    [] t = "report" -> {"findReport", "insertReport", "readReport", "findReviewed",
                        "readReviewed", "review"}
    [] t = "invite" -> {"insertInvite", "readInvite", "deleteInvite", "consume", "ask",
                        "resolve", "resolveIfAny", "readRequest"}

TablesOf(t) ==
  CASE t = "pair" -> {"pair", "pairMembers", "room", "roomMembers"}
    [] t = "roster" -> {"roster", "title"}
    [] t = "message" -> {"lastSeq", "message", "tokens"}
    [] t = "mention" -> {"mention"}
    [] t = "reaction" -> {"reaction"}
    [] t = "block" -> {"block", "mute"}
    [] t = "ban" -> {"ban", "banLock"}
    [] t = "report" -> {"report"}
    [] t = "invite" -> {"link", "uses", "request"}

\* A snapshot is opened first, and never for a statement alone.
TransactionOK(T, t) ==
  /\ Len(T) \in Nat \ {0}
  /\ \A j \in 1..Len(T) : T[j] \in StatementsOf(t) \/ (T[j] = Snapshot /\ j = 1 /\ Len(T) > 1)

WellFormed(P, t) == Len(P) \in Nat \ {0} /\ \A i \in 1..Len(P) : TransactionOK(P[i], t)

LEMMA ShortTransactions ==
  ASSUME NEW t, NEW a \in StatementsOf(t), NEW b \in StatementsOf(t), NEW c \in StatementsOf(t)
  PROVE  /\ TransactionOK(<<a>>, t) /\ TransactionOK(<<a, b>>, t) /\ TransactionOK(<<a, b, c>>, t)
         /\ TransactionOK(<<Snapshot, a, b>>, t) /\ TransactionOK(<<Snapshot, a, b, c>>, t)
<1>1. TransactionOK(<<a>>, t)
  BY DEF TransactionOK
<1>2. TransactionOK(<<a, b>>, t)
  BY DEF TransactionOK
<1>3. TransactionOK(<<a, b, c>>, t)
  BY DEF TransactionOK
<1>4. TransactionOK(<<Snapshot, a, b>>, t)
  BY DEF TransactionOK
<1>5. TransactionOK(<<Snapshot, a, b, c>>, t)
  BY DEF TransactionOK
<1> QED  BY <1>1, <1>2, <1>3, <1>4, <1>5

LEMMA ShortPrograms ==
  ASSUME NEW t, NEW T, NEW U, NEW V, TransactionOK(T, t)
  PROVE  /\ WellFormed(<<T>>, t)
         /\ TransactionOK(U, t) => WellFormed(<<T, U>>, t)
         /\ TransactionOK(U, t) /\ TransactionOK(V, t) => WellFormed(<<T, U, V>>, t)
<1>1. WellFormed(<<T>>, t)
  BY DEF WellFormed
<1>2. ASSUME TransactionOK(U, t) PROVE WellFormed(<<T, U>>, t)
  BY <1>2 DEF WellFormed
<1>3. ASSUME TransactionOK(U, t), TransactionOK(V, t) PROVE WellFormed(<<T, U, V>>, t)
  BY <1>3 DEF WellFormed
<1> QED  BY <1>1, <1>2, <1>3

LEMMA ShapesWellFormed ==
  ASSUME NEW t, NEW x \in StatementsOf(t), NEW y \in StatementsOf(t), NEW z \in StatementsOf(t)
  PROVE  /\ WellFormed(<< <<x>> >>, t) /\ WellFormed(<< <<x>>, <<y>> >>, t)
         /\ WellFormed(<< <<x>>, <<y>>, <<z>> >>, t)
         /\ WellFormed(<< <<x, y>> >>, t) /\ WellFormed(<< <<x, y>>, <<z>> >>, t)
         /\ WellFormed(<< <<Snapshot, x, y>> >>, t)
         /\ WellFormed(<< <<Snapshot, x, y>>, <<z>> >>, t)
         /\ WellFormed(<< <<x, y, z>> >>, t) /\ WellFormed(<< <<Snapshot, x, y, z>> >>, t)
<1>1. \A s \in StatementsOf(t) : TransactionOK(<<s>>, t)
  BY ShortTransactions
<1>2. TransactionOK(<<x, y>>, t) /\ TransactionOK(<<x, y, z>>, t)
  BY ShortTransactions
<1>3. TransactionOK(<<Snapshot, x, y>>, t) /\ TransactionOK(<<Snapshot, x, y, z>>, t)
  BY ShortTransactions
<1> QED  BY <1>1, <1>2, <1>3, ShortPrograms

LEMMA ProgramsWellFormed ==
  ASSUME NEW b \in Backends, NEW t \in Topics, NEW r \in Requests(t)
  PROVE  WellFormed(Programs[b][r[1]], t)
<1> DEFINE P == Programs[b][r[1]]
<1>1. CASE t = "pair"
  <2>1. r[1] \in {"direct", "group"}
    BY <1>1 DEF Requests
  <2>2. {"claimPair", "joinPair", "answerPair", "answerPairById", "insertRoom",
        "insertRoomMembers", "reload"} \subseteq StatementsOf(t)
    BY <1>1 DEF StatementsOf
  <2>3. WellFormed(<< <<"claimPair">>, <<"joinPair">>, <<"answerPair">> >>, t)
    BY <2>2, ShapesWellFormed
  <2>4. WellFormed(<< <<"claimPair", "joinPair">>, <<"answerPair">> >>, t)
    BY <2>2, ShapesWellFormed
  <2>5. WellFormed(<< <<"claimPair", "joinPair">>, <<"answerPairById">> >>, t)
    BY <2>2, ShapesWellFormed
  <2>6. WellFormed(<< <<Snapshot, "claimPair", "joinPair">>, <<"answerPairById">> >>, t)
    BY <2>2, ShapesWellFormed
  <2>7. WellFormed(<< <<"insertRoom", "insertRoomMembers">>, <<"reload">> >>, t)
    BY <2>2, ShapesWellFormed
  <2> QED
    BY <2>1, <2>3, <2>4, <2>5, <2>6, <2>7, PairPrograms DEF Backends
<1>2. CASE t = "roster"
  <2>1. r[1] \in {"add", "remove", "role", "title", "read"}
    BY <1>2 DEF Requests
  <2>2. {"join", "reload", "leave", "promote", "promoteOrThrow", "retitle", "markReadOrThrow",
        "markRead", "checkSeat"} \subseteq StatementsOf(t)
    BY <1>2 DEF StatementsOf
  <2>3. WellFormed(<< <<"join">>, <<"reload">> >>, t)
    BY <2>2, ShapesWellFormed
  <2>4. WellFormed(<< <<"leave">>, <<"reload">> >>, t)
    BY <2>2, ShapesWellFormed
  <2>5. WellFormed(<< <<"promote">>, <<"reload">> >>, t)
    BY <2>2, ShapesWellFormed
  <2>6. WellFormed(<< <<"promoteOrThrow">>, <<"reload">> >>, t)
    BY <2>2, ShapesWellFormed
  <2>7. WellFormed(<< <<"retitle">>, <<"reload">> >>, t)
    BY <2>2, ShapesWellFormed
  <2>8. WellFormed(<< <<"markReadOrThrow">> >>, t)
    BY <2>2, ShapesWellFormed
  <2>9. WellFormed(<< <<"markRead">>, <<"checkSeat">> >>, t)
    BY <2>2, ShapesWellFormed
  <2> QED
    BY <2>1, <2>3, <2>4, <2>5, <2>6, <2>7, <2>8, <2>9, RosterPrograms DEF Backends
<1>3. CASE t = "message"
  <2>1. r[1] \in {"send", "edit", "delete"}
    BY <1>3 DEF Requests
  <2>2. {"bump", "insertMessage", "indexMessage", "patch", "reindex"} \subseteq StatementsOf(t)
    BY <1>3 DEF StatementsOf
  <2>3. WellFormed(<< <<"bump", "insertMessage", "indexMessage">> >>, t)
    BY <2>2, ShapesWellFormed
  <2>4. WellFormed(<< <<"patch", "reindex">> >>, t)
    BY <2>2, ShapesWellFormed
  <2>5. WellFormed(<< <<Snapshot, "patch", "reindex">> >>, t)
    BY <2>2, ShapesWellFormed
  <2> QED
    BY <2>1, <2>3, <2>4, <2>5, MessagePrograms DEF Backends
<1>4. CASE t = "mention"
  <2>1. r[1] \in {"mention"}
    BY <1>4 DEF Requests
  <2>2. {"insertMentions", "pruneMentions", "lockMentions", "scanMentions"} \subseteq
        StatementsOf(t)
    BY <1>4 DEF StatementsOf
  <2>3. WellFormed(<< <<"insertMentions", "pruneMentions">> >>, t)
    BY <2>2, ShapesWellFormed
  <2>4. WellFormed(<< <<"lockMentions", "scanMentions">> >>, t)
    BY <2>2, ShapesWellFormed
  <2>5. WellFormed(<< <<Snapshot, "insertMentions", "pruneMentions">> >>, t)
    BY <2>2, ShapesWellFormed
  <2>6. WellFormed(<< <<"pruneMentions", "insertMentions">> >>, t)
    BY <2>2, ShapesWellFormed
  <2> QED
    BY <2>1, <2>3, <2>4, <2>5, <2>6, MentionPrograms DEF Backends
<1>5. CASE t = "reaction"
  <2>1. r[1] \in {"react", "unreact"}
    BY <1>5 DEF Requests
  <2>2. {"react", "readReactions", "unreact"} \subseteq StatementsOf(t)
    BY <1>5 DEF StatementsOf
  <2>3. WellFormed(<< <<"react">>, <<"readReactions">> >>, t)
    BY <2>2, ShapesWellFormed
  <2>4. WellFormed(<< <<"unreact">>, <<"readReactions">> >>, t)
    BY <2>2, ShapesWellFormed
  <2> QED
    BY <2>1, <2>3, <2>4, ReactionPrograms DEF Backends
<1>6. CASE t = "block"
  <2>1. r[1] \in {"block", "unblock", "mute", "unmute"}
    BY <1>6 DEF Requests, Blocking
  <2>2. {"block", "readBlock", "blockAgain", "unblock", "mute", "readMute", "muteAgain",
        "unmute"} \subseteq StatementsOf(t)
    BY <1>6 DEF StatementsOf
  <2>3. WellFormed(<< <<"block">>, <<"readBlock">> >>, t)
    BY <2>2, ShapesWellFormed
  <2>4. WellFormed(<< <<"blockAgain">> >>, t)
    BY <2>2, ShapesWellFormed
  <2>5. WellFormed(<< <<"unblock">> >>, t)
    BY <2>2, ShapesWellFormed
  <2>6. WellFormed(<< <<"mute">>, <<"readMute">> >>, t)
    BY <2>2, ShapesWellFormed
  <2>7. WellFormed(<< <<"muteAgain">> >>, t)
    BY <2>2, ShapesWellFormed
  <2>8. WellFormed(<< <<"unmute">> >>, t)
    BY <2>2, ShapesWellFormed
  <2> QED
    BY <2>1, <2>3, <2>4, <2>5, <2>6, <2>7, <2>8, BlockPrograms DEF Backends
<1>7. CASE t = "ban"
  <2>1. r[1] \in {"ban", "revoke"}
    BY <1>7 DEF Requests, Banning
  <2>2. {"findBan", "landBan", "answerBan", "guardedBan", "lockBans", "takeBanLock",
        "revokeActive", "revokeAny", "findTarget"} \subseteq StatementsOf(t)
    BY <1>7 DEF StatementsOf
  <2>3. WellFormed(<< <<"findBan", "landBan">>, <<"answerBan">> >>, t)
    BY <2>2, ShapesWellFormed
  <2>4. WellFormed(<< <<"guardedBan">>, <<"answerBan">> >>, t)
    BY <2>2, ShapesWellFormed
  <2>5. WellFormed(<< <<"lockBans", "landBan">> >>, t)
    BY <2>2, ShapesWellFormed
  <2>6. WellFormed(<< <<Snapshot, "takeBanLock", "findBan", "landBan">> >>, t)
    BY <2>2, ShapesWellFormed
  <2>7. WellFormed(<< <<"takeBanLock", "findBan", "landBan">> >>, t)
    BY <2>2, ShapesWellFormed
  <2>8. WellFormed(<< <<"revokeActive">> >>, t)
    BY <2>2, ShapesWellFormed
  <2>9. WellFormed(<< <<"revokeAny">>, <<"findTarget">> >>, t)
    BY <2>2, ShapesWellFormed
  <2>10. WellFormed(<< <<"revokeAny">> >>, t)
    BY <2>2, ShapesWellFormed
  <2>11. WellFormed(<< <<"findTarget">>, <<"revokeActive">> >>, t)
    BY <2>2, ShapesWellFormed
  <2> QED
    BY <2>1, <2>3, <2>4, <2>5, <2>6, <2>7, <2>8, <2>9, <2>10, <2>11, BanPrograms DEF Backends
<1>8. CASE t = "report"
  <2>1. r[1] \in {"report", "review"}
    BY <1>8 DEF Requests, Reporting
  <2>2. {"findReport", "insertReport", "readReport", "findReviewed", "review", "readReviewed"}
        \subseteq StatementsOf(t)
    BY <1>8 DEF StatementsOf
  <2>3. WellFormed(<< <<"findReport">>, <<"insertReport">>, <<"readReport">> >>, t)
    BY <2>2, ShapesWellFormed
  <2>4. WellFormed(<< <<"findReport">>, <<"insertReport">> >>, t)
    BY <2>2, ShapesWellFormed
  <2>5. WellFormed(<< <<"findReviewed">>, <<"review">> >>, t)
    BY <2>2, ShapesWellFormed
  <2>6. WellFormed(<< <<"findReviewed">>, <<"review">>, <<"readReviewed">> >>, t)
    BY <2>2, ShapesWellFormed
  <2> QED
    BY <2>1, <2>3, <2>4, <2>5, <2>6, ReportPrograms DEF Backends
<1>9. CASE t = "invite"
  <2>1. r[1] \in {"invite", "uninvite", "consume", "ask", "resolve"}
    BY <1>9 DEF Requests, Inviting
  <2>2. {"insertInvite", "readInvite", "deleteInvite", "consume", "ask", "readRequest",
        "resolve", "resolveIfAny"} \subseteq StatementsOf(t)
    BY <1>9 DEF StatementsOf
  <2>3. WellFormed(<< <<"insertInvite">> >>, t)
    BY <2>2, ShapesWellFormed
  <2>4. WellFormed(<< <<"insertInvite">>, <<"readInvite">> >>, t)
    BY <2>2, ShapesWellFormed
  <2>5. WellFormed(<< <<"deleteInvite">> >>, t)
    BY <2>2, ShapesWellFormed
  <2>6. WellFormed(<< <<"consume">> >>, t)
    BY <2>2, ShapesWellFormed
  <2>7. WellFormed(<< <<"ask">> >>, t)
    BY <2>2, ShapesWellFormed
  <2>8. WellFormed(<< <<"ask">>, <<"readRequest">> >>, t)
    BY <2>2, ShapesWellFormed
  <2>9. WellFormed(<< <<"resolve">> >>, t)
    BY <2>2, ShapesWellFormed
  <2>10. WellFormed(<< <<"resolveIfAny">>, <<"readRequest">> >>, t)
    BY <2>2, ShapesWellFormed
  <2> QED
    BY <2>1, <2>3, <2>4, <2>5, <2>6, <2>7, <2>8, <2>9, <2>10, InvitePrograms DEF Backends
<1> QED  BY <1>1, <1>2, <1>3, <1>4, <1>5, <1>6, <1>7, <1>8, <1>9 DEF Topics

\* A statement writes rows it waited for, in the tables of its topic.
WritesWell(r, t) == \A c \in DOMAIN r.writes : c \in r.waits /\ c[1] \in TablesOf(t)

LEMMA SqlForms ==
  ASSUME NEW c, NEW v, NEW note, NEW p, NEW t
  PROVE  /\ WritesWell(Select(note), t) /\ WritesWell(Throws, t)
         /\ c[1] \in TablesOf(t) => WritesWell(Put(c, v, note), t) /\ WritesWell(PutIf(p, c, v, note), t)
<1>1. WritesWell(Select(note), t) /\ WritesWell(Throws, t)
  BY DEF WritesWell, Select, Sql, Throws
<1>2. ASSUME c[1] \in TablesOf(t) PROVE WritesWell(Put(c, v, note), t)
  BY <1>2 DEF WritesWell, Put, Sql, Write
<1>3. ASSUME c[1] \in TablesOf(t) PROVE WritesWell(PutIf(p, c, v, note), t)
  BY <1>3 DEF WritesWell, PutIf, Sql, Write
<1> QED  BY <1>1, <1>2, <1>3

LEMMA StatementsWriteWell ==
  ASSUME NEW t \in Topics, NEW n, NEW s \in StatementsOf(t)
  PROVE  WritesWell(Result(n, s), t)
<1>1. CASE t = "pair"
  <2> USE <1>1 DEF Result, TablesOf, PairRow, PairMembers
  <2>1. WritesWell(Result(n, "claimPair"), t)
    BY SqlForms DEF ClaimPair
  <2>2. WritesWell(Result(n, "joinPair"), t)
    BY SqlForms DEF JoinPair
  <2>3. WritesWell(Result(n, "answerPair"), t)
    BY SqlForms DEF AnswerPair
  <2>4. WritesWell(Result(n, "answerPairById"), t)
    BY SqlForms DEF AnswerPairById
  <2>5. WritesWell(Result(n, "insertRoom"), t)
    BY SqlForms DEF InsertRoom
  <2>6. WritesWell(Result(n, "insertRoomMembers"), t)
    BY SqlForms DEF InsertRoomMembers
  <2>7. WritesWell(Result(n, "reload"), t)
    BY SqlForms DEF Reload
  <2> QED  BY <2>1, <2>2, <2>3, <2>4, <2>5, <2>6, <2>7 DEF StatementsOf
<1>2. CASE t = "roster"
  <2> USE <1>2 DEF Result, TablesOf, Seat, Title
  <2>1. WritesWell(Result(n, "join"), t)
    BY SqlForms DEF Join
  <2>2. WritesWell(Result(n, "reload"), t)
    BY SqlForms DEF Reload
  <2>3. WritesWell(Result(n, "leave"), t)
    BY SqlForms DEF Unseat
  <2>4. WritesWell(Result(n, "promote"), t)
    BY SqlForms DEF Promote
  <2>5. WritesWell(Result(n, "promoteOrThrow"), t)
    BY SqlForms DEF Strictly, Promote
  <2>6. WritesWell(Result(n, "retitle"), t)
    BY SqlForms DEF Retitle
  <2>7. WritesWell(Result(n, "markReadOrThrow"), t)
    BY SqlForms DEF Strictly, MarkRead
  <2>8. WritesWell(Result(n, "markRead"), t)
    BY SqlForms DEF MarkRead
  <2>9. WritesWell(Result(n, "checkSeat"), t)
    BY SqlForms DEF CheckSeat
  <2> QED  BY <2>1, <2>2, <2>3, <2>4, <2>5, <2>6, <2>7, <2>8, <2>9 DEF StatementsOf
<1>3. CASE t = "message"
  <2> USE <1>3 DEF Result, TablesOf, LastSeq, FirstMessage
  <2>1. WritesWell(Result(n, "bump"), t)
    BY SqlForms DEF Bump
  <2>2. WritesWell(Result(n, "insertMessage"), t)
    BY SqlForms DEF InsertMessage
  <2>3. WritesWell(Result(n, "indexMessage"), t)
    BY SqlForms DEF IndexMessage
  <2>4. WritesWell(Result(n, "patch"), t)
    BY SqlForms DEF Patch
  <2>5. WritesWell(Result(n, "reindex"), t)
    BY SqlForms DEF Reindex
  <2> QED  BY <2>1, <2>2, <2>3, <2>4, <2>5 DEF StatementsOf
<1>4. CASE t = "mention"
  <2> USE <1>4 DEF Result, TablesOf
  <2>1. WritesWell(Result(n, "insertMentions"), t)
    BY SqlForms DEF InsertMentions, WritesWell, Sql, Mentions
  <2>2. WritesWell(Result(n, "pruneMentions"), t)
    BY SqlForms DEF PruneMentions, WritesWell, Sql, Mentions, Dropped
  <2>3. WritesWell(Result(n, "lockMentions"), t)
    BY SqlForms DEF LockMentions, WritesWell, Sql, Mentions
  <2>4. WritesWell(Result(n, "scanMentions"), t)
    BY SqlForms DEF ScanMentions, WritesWell, Sql, Mentions, Dropped
  <2> QED  BY <2>1, <2>2, <2>3, <2>4 DEF StatementsOf
<1>5. CASE t = "reaction"
  <2> USE <1>5 DEF Result, TablesOf
  <2>1. WritesWell(Result(n, "react"), t)
    BY SqlForms DEF React
  <2>2. WritesWell(Result(n, "readReactions"), t)
    BY SqlForms DEF ReadReactions
  <2>3. WritesWell(Result(n, "unreact"), t)
    BY SqlForms DEF Unreact
  <2> QED  BY <2>1, <2>2, <2>3 DEF StatementsOf
<1>6. CASE t = "block"
  <2> USE <1>6 DEF Result, TablesOf, Block, Mute
  <2>1. WritesWell(Result(n, "block"), t)
    BY SqlForms DEF Impose
  <2>2. WritesWell(Result(n, "readBlock"), t)
    BY SqlForms DEF ReadBack
  <2>3. WritesWell(Result(n, "blockAgain"), t)
    BY SqlForms DEF ImposeAgain
  <2>4. WritesWell(Result(n, "unblock"), t)
    BY SqlForms DEF Lift
  <2>5. WritesWell(Result(n, "mute"), t)
    BY SqlForms DEF Impose
  <2>6. WritesWell(Result(n, "readMute"), t)
    BY SqlForms DEF ReadBack
  <2>7. WritesWell(Result(n, "muteAgain"), t)
    BY SqlForms DEF ImposeAgain
  <2>8. WritesWell(Result(n, "unmute"), t)
    BY SqlForms DEF Lift
  <2> QED  BY <2>1, <2>2, <2>3, <2>4, <2>5, <2>6, <2>7, <2>8 DEF StatementsOf
<1>7. CASE t = "ban"
  <2> USE <1>7 DEF Result, TablesOf, Ban, BanLock, Target
  <2>1. WritesWell(Result(n, "findBan"), t)
    BY SqlForms DEF FindBan
  <2>2. WritesWell(Result(n, "landBan"), t)
    BY SqlForms DEF LandBan, NewBan, Write, WritesWell, Sql
  <2>3. WritesWell(Result(n, "answerBan"), t)
    BY SqlForms DEF AnswerBan, FindBan
  <2>4. WritesWell(Result(n, "guardedBan"), t)
    BY SqlForms DEF GuardedBan, NewBan, Write, WritesWell, Sql
  <2>5. WritesWell(Result(n, "lockBans"), t)
    <3>1. DOMAIN LockBans(n).writes = Scanned(n) /\ Scanned(n) \subseteq LockBans(n).waits
      BY DEF LockBans, Scanned, Sql
    <3>2. \A c \in Scanned(n) : c[1] \in {"ban", "banLock"}
      BY DEF Scanned, Bans, Gap
    <3> QED  BY <3>1, <3>2 DEF WritesWell
  <2>6. WritesWell(Result(n, "takeBanLock"), t)
    BY SqlForms DEF TakeBanLock
  <2>7. WritesWell(Result(n, "revokeActive"), t)
    BY SqlForms DEF RevokeActive
  <2>8. WritesWell(Result(n, "revokeAny"), t)
    BY SqlForms DEF RevokeAny
  <2>9. WritesWell(Result(n, "findTarget"), t)
    BY SqlForms DEF FindTarget
  <2> QED  BY <2>1, <2>2, <2>3, <2>4, <2>5, <2>6, <2>7, <2>8, <2>9 DEF StatementsOf
<1>8. CASE t = "report"
  <2> USE <1>8 DEF Result, TablesOf, Report
  <2>1. WritesWell(Result(n, "findReport"), t)
    BY SqlForms DEF FindReport
  <2>2. WritesWell(Result(n, "insertReport"), t)
    BY SqlForms DEF InsertReport
  <2>3. WritesWell(Result(n, "readReport"), t)
    BY SqlForms DEF ReadReport
  <2>4. WritesWell(Result(n, "findReviewed"), t)
    BY SqlForms DEF FindReviewed
  <2>5. WritesWell(Result(n, "review"), t)
    BY SqlForms DEF Review
  <2>6. WritesWell(Result(n, "readReviewed"), t)
    BY SqlForms DEF FindReviewed
  <2> QED  BY <2>1, <2>2, <2>3, <2>4, <2>5, <2>6 DEF StatementsOf
<1>9. CASE t = "invite"
  <2> USE <1>9 DEF Result, TablesOf, Uses, Request
  <2>1. WritesWell(Result(n, "insertInvite"), t)
    BY SqlForms DEF InsertInvite
  <2>2. WritesWell(Result(n, "readInvite"), t)
    BY SqlForms
  <2>3. WritesWell(Result(n, "deleteInvite"), t)
    BY SqlForms DEF DeleteInvite
  <2>4. WritesWell(Result(n, "consume"), t)
    BY SqlForms DEF Consume
  <2>5. WritesWell(Result(n, "ask"), t)
    BY SqlForms DEF Ask
  <2>6. WritesWell(Result(n, "readRequest"), t)
    BY SqlForms DEF ReadRequest
  <2>7. WritesWell(Result(n, "resolve"), t)
    BY SqlForms DEF Resolve
  <2>8. WritesWell(Result(n, "resolveIfAny"), t)
    BY SqlForms DEF ResolveIfAny, Resolve
  <2> QED  BY <2>1, <2>2, <2>3, <2>4, <2>5, <2>6, <2>7, <2>8 DEF StatementsOf
<1> QED  BY <1>1, <1>2, <1>3, <1>4, <1>5, <1>6, <1>7, <1>8, <1>9 DEF Topics

-----------------------------------------------------------------------------
(* What holds of every call: where it is in its program, that what it has  *)
(* written and read is of the transaction it is in, and that no two hold a *)
(* row.                                                                    *)

Asked(n) == \E r \in Requests(topic) : call[n].op = r[1] /\ call[n].arg = r[2]

CallOK(n) ==
  /\ DOMAIN call[n] = DOMAIN NoCall
  /\ call[n].phase \in {"idle", "running", "done", "failed", "crashed"}
  /\ call[n].phase = "idle" => call[n] = NoCall
  /\ call[n].phase # "idle" => Asked(n)
  /\ call[n].tx \in Nat \ {0} /\ call[n].st \in Nat \ {0}
  /\ Running(n) => call[n].tx \leq Len(Program(n)) /\ call[n].st \leq Len(Transaction(n)) + 1
  /\ Running(n) /\ AutoCommits(n) => call[n].st = 1
  /\ ~Running(n) \/ call[n].st = 1 => call[n].work = <<>> /\ call[n].base = <<>>
  /\ Running(n) /\ call[n].st > 1 => (call[n].base # <<>> <=> Transaction(n)[1] = Snapshot)
  /\ \A c \in Holds(n) : c[1] \in TablesOf(topic)

HeldByOne == \A m, n \in Calls : m # n => Holds(m) \intersect Holds(n) = {}
OneHolds == OneWriter => \A m, n \in Calls : m # n => Holds(m) = {} \/ Holds(n) = {}

BaseInv ==
  /\ backend \in Backends /\ topic \in Topics
  /\ Rows \subseteq DOMAIN db
  /\ DOMAIN call = Calls /\ \A n \in Calls : CallOK(n)
  /\ HeldByOne /\ OneHolds

LEMMA BaseShaped == BaseInv => Shaped
  BY DEF BaseInv, CallOK, Shaped

LEMMA SnapshotApart == \A t \in Topics : Snapshot \notin StatementsOf(t)
  BY DEF Snapshot, Topics, StatementsOf

LEMMA EmptyWork == DOMAIN <<>> = {}
  OBVIOUS

LEMMA DbIsNotEmpty == BaseInv => db # <<>>
<1>1. PairRow \in Rows
  BY DEF PairRow, Rows
<1> QED  BY <1>1, EmptyWork DEF BaseInv

\* Where a running call is.
LEMMA RunsWell ==
  ASSUME BaseInv, NEW n \in Calls, Running(n)
  PROVE  /\ WellFormed(Program(n), topic)
         /\ call[n].tx \in 1..Len(Program(n)) /\ TransactionOK(Transaction(n), topic)
         /\ call[n].st \in 1..(Len(Transaction(n)) + 1) /\ Len(Transaction(n)) \in Nat \ {0}
         /\ ~AllRun(n) => call[n].st \in 1..Len(Transaction(n))
         /\ Opens(n) => call[n].st = 1 /\ ~AutoCommits(n)
         /\ Runs(n) => Statement(n) \in StatementsOf(topic)
<1>1. CallOK(n) /\ Asked(n) /\ topic \in Topics /\ backend \in Backends
  BY DEF BaseInv, CallOK, Running
<1>2. WellFormed(Program(n), topic)
  BY <1>1, ProgramsWellFormed DEF Asked, Program
<1>3. call[n].tx \in 1..Len(Program(n)) /\ TransactionOK(Transaction(n), topic)
  BY <1>1, <1>2 DEF CallOK, WellFormed, Transaction
<1>4. Len(Transaction(n)) \in Nat \ {0} /\ call[n].st \in 1..(Len(Transaction(n)) + 1)
  BY <1>1, <1>3 DEF CallOK, TransactionOK
<1>5. ~AllRun(n) => call[n].st \in 1..Len(Transaction(n))
  BY <1>4 DEF AllRun
<1>6. Snapshot \notin StatementsOf(topic)
  BY <1>1, SnapshotApart
<1>7. Opens(n) => call[n].st = 1 /\ ~AutoCommits(n)
  BY <1>3, <1>4, <1>5, <1>6 DEF Opens, Statement, TransactionOK, AutoCommits
<1>8. Runs(n) => Statement(n) \in StatementsOf(topic)
  BY <1>3, <1>5 DEF Runs, Opens, Statement, TransactionOK
<1> QED  BY <1>2, <1>3, <1>4, <1>5, <1>7, <1>8

LEMMA BaseInit == ASSUME SqlInit PROVE BaseInv
<1>1. DOMAIN db = Rows \union DOMAIN db
  BY DEF SqlInit, Over, FreshDb
<1>2. \A n \in Calls : call[n] = NoCall
  BY DEF SqlInit
<1>3. \A n \in Calls : CallOK(n) /\ Holds(n) = {}
  BY <1>2, NoCallFields, EmptyWork DEF CallOK, NoCall, Running, Holds
<1> QED  BY <1>1, <1>3 DEF SqlInit, BaseInv, HeldByOne, OneHolds

\* A call that another one's step leaves alone.
LEMMA CallStays ==
  ASSUME NEW n \in Calls, CallOK(n), call'[n] = call[n], UNCHANGED <<backend, topic>>
  PROVE  CallOK(n)'
  BY DEF CallOK, Asked, Running, Program, Transaction, AutoCommits, Holds

LEMMA CallMoves ==
  ASSUME BaseInv, NEW n \in Calls, Stepped(n) PROVE CallOK(n)'
<1>0. CallOK(n) /\ topic \in Topics /\ backend \in Backends /\ Shaped
  BY BaseShaped DEF BaseInv
<1> USE NoCallFields DEF OthersStay, Identity
<1>1. ASSUME NEW r \in Requests(topic), Started(n, r) PROVE CallOK(n)'
  <2>1. WellFormed(Programs[backend][r[1]], topic)
    BY <1>0, ProgramsWellFormed
  <2>2. UNCHANGED <<backend, topic>> /\ Program(n)' = Programs[backend][r[1]]
    BY <1>1 DEF Started, Program
  <2>3. Len(Program(n)') \in Nat \ {0} /\ Len(Transaction(n)') \in Nat \ {0}
    BY <1>1, <2>1, <2>2 DEF Started, Transaction, WellFormed, TransactionOK
  <2> QED  BY <1>1, <2>2, <2>3, EmptyWork DEF Started, CallOK, Asked, Running, AutoCommits, Holds
<1>2. ASSUME Opened(n) PROVE CallOK(n)'
  <2>1. /\ call[n].st = 1 /\ ~AutoCommits(n) /\ Len(Transaction(n)) \in Nat \ {0}
        /\ call[n].tx \leq Len(Program(n)) /\ Transaction(n)[1] = Snapshot
    BY <1>2, RunsWell DEF Opened, Opens, Statement
  <2>2. Program(n)' = Program(n) /\ Transaction(n)' = Transaction(n)
    BY <1>2 DEF Opened, Program, Transaction
  <2> QED  BY <1>0, <1>2, <2>1, <2>2, DbIsNotEmpty
           DEF Opened, CallOK, Asked, Running, AutoCommits, Holds
<1>3. ASSUME Executed(n) PROVE CallOK(n)'
  <2>1. /\ Running(n) /\ call[n].st \in 1..Len(Transaction(n)) /\ ~AutoCommits(n)
        /\ Len(Transaction(n)) \in Nat \ {0} /\ Statement(n) \in StatementsOf(topic)
        /\ call[n].tx \leq Len(Program(n)) /\ Statement(n) # Snapshot
    BY <1>0, <1>3, RunsWell, SnapshotApart DEF Executed, Runs
  <2>2. Program(n)' = Program(n) /\ Transaction(n)' = Transaction(n)
    BY <1>3 DEF Executed, Program, Transaction
  <2>3. WritesWell(Now(n), topic)
    BY <1>0, <2>1, StatementsWriteWell DEF Now
  <2>4. \A c \in Holds(n)' : c[1] \in TablesOf(topic)
    BY <1>0, <1>3, <2>3 DEF Executed, Holds, Over, WritesWell, CallOK
  <2>5. call[n].base # <<>> <=> Transaction(n)[1] = Snapshot
    BY <1>0, <2>1 DEF CallOK, Statement
  <2> QED  BY <1>0, <1>3, <2>1, <2>2, <2>4, <2>5 DEF Executed, CallOK, Asked, Running, AutoCommits
<1>4. ASSUME NEW new, NEW note, Landed(n, new, note), Running(n) PROVE CallOK(n)'
  <2>1. /\ WellFormed(Program(n), topic) /\ call[n].tx \in 1..Len(Program(n))
    BY <1>4, RunsWell
  <2>2. Program(n)' = Program(n) /\ UNCHANGED <<backend, topic>>
    BY <1>4 DEF Landed, Program
  <2>3. CASE LastTransaction(n)
    BY <1>0, <1>4, <2>2, <2>3, EmptyWork DEF Landed, CallOK, Asked, Running, Holds
  <2>4. CASE ~LastTransaction(n)
    <3>1. call[n].tx + 1 \in 1..Len(Program(n))
      BY <2>1, <2>4 DEF LastTransaction, WellFormed
    <3>2. Len(Transaction(n)') \in Nat \ {0}
      BY <1>4, <2>1, <2>2, <2>4, <3>1 DEF Landed, Transaction, WellFormed, TransactionOK
    <3> QED  BY <1>0, <1>4, <2>2, <2>4, <3>1, <3>2, EmptyWork
             DEF Landed, CallOK, Asked, Running, Holds, AutoCommits
  <2> QED  BY <2>3, <2>4
<1>5. ASSUME Again(n) PROVE CallOK(n)'
  <2>1. Len(Transaction(n)) \in Nat \ {0} /\ call[n].tx \leq Len(Program(n))
    BY <1>5, RunsWell DEF Again
  <2>2. Program(n)' = Program(n) /\ Transaction(n)' = Transaction(n)
    BY <1>5 DEF Again, Program, Transaction
  <2> QED  BY <1>0, <1>5, <2>1, <2>2, EmptyWork DEF Again, CallOK, Asked, Running, AutoCommits, Holds
<1>6. ASSUME Stopped(n) PROVE CallOK(n)'
  BY <1>0, <1>6, EmptyWork DEF Stopped, CallOK, Asked, Running, Holds
<1> QED  BY <1>1, <1>2, <1>3, <1>4, <1>5, <1>6 DEF Stepped, LandedAlone, LandedWhole, Runs

\* A commit, of a statement alone or of a transaction.
Lands(n, new, note) ==
  /\ Running(n) /\ Landed(n, new, note)
  /\ \/ /\ Runs(n) /\ AutoCommits(n) /\ Free(n) /\ ~Now(n).throws
        /\ new = Now(n).writes /\ note = Now(n).note
     \/ /\ AllRun(n) /\ ~AutoCommits(n) /\ ~Overtaken(n)
        /\ new = call[n].work /\ note = Note(n)

LEMMA LandingLands ==
  ASSUME BaseInv, NEW n \in Calls, LandedAlone(n) \/ LandedWhole(n)
  PROVE  \E new, note : Lands(n, new, note)
<1>1. CASE LandedAlone(n)
  BY <1>1 DEF LandedAlone, Lands, Runs
<1>2. CASE LandedWhole(n)
  <2>1. ~AutoCommits(n)
    BY <1>2, RunsWell DEF LandedWhole, AllRun, AutoCommits, BaseInv, CallOK
  <2> QED  BY <1>2, <2>1 DEF LandedWhole, Lands
<1> QED  BY <1>1, <1>2

\* A statement that need not wait writes rows nobody holds.
LEMMA FreeRows ==
  ASSUME BaseInv, NEW n \in Calls, Runs(n), Free(n), NEW m \in Calls \ {n}
  PROVE  /\ \A c \in DOMAIN Now(n).writes : c \notin Holds(m) /\ c[1] \in TablesOf(topic)
         /\ OneWriter /\ Holds(m) # {} => DOMAIN Now(n).writes = {} /\ Now(n).waits = {}
<1>1. WritesWell(Now(n), topic)
  BY RunsWell, StatementsWriteWell DEF Runs, Now, BaseInv
<1>2. ~WaitsFor(n, m)
  BY DEF Free
<1> QED  BY <1>1, <1>2 DEF WritesWell, WaitsFor

LEMMA Undisturbed ==
  ASSUME BaseInv, NEW n \in Calls, NEW new, NEW note, Lands(n, new, note)
  PROVE  /\ DOMAIN db' = DOMAIN new \union DOMAIN db
         /\ \A c \in DOMAIN new : db'[c] = new[c] /\ c[1] \in TablesOf(topic)
         /\ \A c \in DOMAIN db : c \notin DOMAIN new => db'[c] = db[c]
         /\ \A m \in Calls \ {n} :
              /\ \A c \in Holds(m) : c \notin DOMAIN new /\ (c \in DOMAIN db => db'[c] = db[c])
              /\ OneWriter /\ Holds(m) # {} => DOMAIN new = {}
<1>1. db' = Over(new, db)
  BY DEF Lands, Landed
<1>2. \A m \in Calls \ {n} : /\ \A c \in DOMAIN new : c \notin Holds(m)
                             /\ OneWriter /\ Holds(m) # {} => DOMAIN new = {}
  <2>1. CASE Runs(n) /\ Free(n) /\ new = Now(n).writes
    BY <2>1, FreeRows
  <2>2. CASE new = call[n].work
    BY <2>2 DEF BaseInv, HeldByOne, OneHolds, Holds
  <2> QED  BY <2>1, <2>2 DEF Lands
<1>3. \A c \in DOMAIN new : c[1] \in TablesOf(topic)
  <2>1. CASE Runs(n) /\ new = Now(n).writes
    BY <2>1, RunsWell, StatementsWriteWell DEF Runs, Now, BaseInv, WritesWell
  <2>2. CASE new = call[n].work
    BY <2>2 DEF BaseInv, CallOK, Holds
  <2> QED  BY <2>1, <2>2 DEF Lands
<1> QED  BY <1>1, <1>2, <1>3 DEF Over

LEMMA HeldMoves ==
  ASSUME BaseInv, NEW n \in Calls, Stepped(n) PROVE HeldByOne' /\ OneHolds'
<1>1. UNCHANGED <<backend, topic>> /\ \A m \in Calls \ {n} : Holds(m)' = Holds(m)
  BY DEF Stepped, Started, Opened, Executed, LandedAlone, LandedWhole, Landed, Again, Stopped, OthersStay, Holds
<1>2. Holds(n)' \subseteq Holds(n) \/ (Executed(n) /\ Holds(n)' = DOMAIN Now(n).writes \union Holds(n))
  BY EmptyWork DEF Stepped, Started, Opened, Executed, LandedAlone, LandedWhole, Landed, Again, Stopped, Holds, Over
<1>3. OneWriter' = OneWriter
  BY <1>1 DEF OneWriter
<1>4. \A m \in Calls \ {n} : Holds(n)' \intersect Holds(m) = {} /\ (OneWriter => Holds(n)' = {} \/ Holds(m) = {})
  <2> TAKE m \in Calls \ {n}
  <2>1. CASE Holds(n)' \subseteq Holds(n)
    BY <2>1 DEF BaseInv, HeldByOne, OneHolds
  <2>2. CASE Executed(n) /\ Holds(n)' = DOMAIN Now(n).writes \union Holds(n)
    <3>1. Runs(n) /\ Free(n)
      BY <2>2 DEF Executed
    <3>2. /\ \A c \in DOMAIN Now(n).writes : c \notin Holds(m)
          /\ OneWriter /\ Holds(m) # {} => DOMAIN Now(n).writes = {}
      BY <3>1, FreeRows
    <3> QED  BY <2>2, <3>2 DEF BaseInv, HeldByOne, OneHolds
  <2> QED  BY <1>2, <2>1, <2>2
<1>5. HeldByOne'
  BY <1>1, <1>4 DEF BaseInv, HeldByOne
<1>6. OneHolds'
  BY <1>1, <1>3, <1>4 DEF BaseInv, OneHolds
<1> QED  BY <1>5, <1>6

LEMMA BaseStep ==
  ASSUME BaseInv, NEW n \in Calls, Stepped(n) PROVE BaseInv'
<1>1. CallOK(n)' /\ HeldByOne' /\ OneHolds'
  BY CallMoves, HeldMoves
<1>2. OthersStay(n)
  BY DEF Stepped, Started, Opened, Executed, LandedAlone, LandedWhole, Landed, Again, Stopped
<1>3. \A m \in Calls : CallOK(m)'
  BY <1>1, <1>2, CallStays DEF OthersStay, BaseInv
<1>4. DOMAIN call' = Calls
  BY <1>2 DEF OthersStay, BaseInv
<1>5. Rows \subseteq DOMAIN db'
  BY DEF BaseInv, Stepped, Started, Opened, Executed, LandedAlone, LandedWhole, Landed, Again, Stopped, Over
<1> QED  BY <1>1, <1>2, <1>3, <1>4, <1>5 DEF BaseInv, OthersStay

-----------------------------------------------------------------------------
(* What a step of one call leaves of the others, and what a call sees.     *)

Operations(t) ==
  CASE t = "pair" -> {"direct", "group"}
    [] t = "roster" -> {"add", "remove", "role", "read", "title"}
    [] t = "message" -> {"send", "edit", "delete"}
    [] t = "mention" -> {"mention"}
    [] t = "reaction" -> {"react", "unreact"}
    [] t = "block" -> {"block", "unblock", "mute", "unmute"}
    [] t = "ban" -> {"ban", "revoke"}
    [] t = "report" -> {"report", "review"}
    [] t = "invite" -> {"invite", "uninvite", "consume", "ask", "resolve"}

LEMMA OperationsAsked ==
  ASSUME NEW t \in Topics, NEW r \in Requests(t) PROVE r[1] \in Operations(t)
<1>1. CASE t \in {"pair", "roster", "message", "mention", "reaction"}
  BY <1>1 DEF Requests, Operations
<1>2. CASE t \in {"block", "ban"}
  BY <1>2 DEF Requests, Operations, Blocking, Banning
<1>3. CASE t \in {"report", "invite"}
  BY <1>3 DEF Requests, Operations, Reporting, Inviting
<1> QED  BY <1>1, <1>2, <1>3 DEF Topics

\* The rows a transaction reads beneath what it has written itself.
Ground(n) == IF call[n].base # <<>> THEN call[n].base ELSE db

LEMMA SeeGround ==
  ASSUME NEW n, NEW c
  PROVE  /\ c \in Holds(n) => See(n, c) = call[n].work[c]
         /\ c \notin Holds(n) => See(n, c) = Ground(n)[c]
  BY DEF See, Holds, Ground

LEMMA SeeFresh ==
  ASSUME BaseInv, NEW n \in Calls, call[n].st = 1 \/ ~Running(n)
  PROVE  Holds(n) = {} /\ Ground(n) = db /\ \A c : See(n, c) = db[c]
<1>1. call[n].work = <<>> /\ call[n].base = <<>>
  BY DEF BaseInv, CallOK
<1> QED  BY <1>1, EmptyWork DEF Holds, Ground, See

\* A step either lands rows or leaves the database as it was.
LEMMA StepLands ==
  ASSUME BaseInv, NEW n \in Calls, Stepped(n)
  PROVE  db' = db \/ \E new, note : Lands(n, new, note)
  BY LandingLands DEF Stepped, Started, Opened, Executed, Again, Stopped

LEMMA OthersKeep ==
  ASSUME BaseInv, NEW n \in Calls, Stepped(n), NEW m \in Calls \ {n}
  PROVE  /\ UNCHANGED <<backend, topic>> /\ call'[m] = call[m]
         /\ \A c \in Holds(m) \intersect DOMAIN db :
              db'[c] = db[c] /\ (Ground(m)')[c] = Ground(m)[c]
         /\ OneWriter /\ Holds(m) # {} => \A c \in DOMAIN db : db'[c] = db[c]
<1>1. OthersStay(n)
  BY DEF Stepped, Started, Opened, Executed, LandedAlone, LandedWhole, Landed, Again, Stopped
<1>2. CASE db' = db
  BY <1>1, <1>2 DEF OthersStay, Ground
<1>3. ASSUME NEW new, NEW note, Lands(n, new, note)
      PROVE  /\ \A c \in Holds(m) \intersect DOMAIN db : db'[c] = db[c]
             /\ OneWriter /\ Holds(m) # {} => \A c \in DOMAIN db : db'[c] = db[c]
  BY <1>3, Undisturbed
<1>4. /\ \A c \in Holds(m) \intersect DOMAIN db : db'[c] = db[c]
      /\ OneWriter /\ Holds(m) # {} => \A c \in DOMAIN db : db'[c] = db[c]
  BY <1>2, <1>3, StepLands
<1> QED  BY <1>1, <1>4 DEF OthersStay, Ground

\* At a commit the snapshot is the database.
LEMMA LandGround ==
  ASSUME BaseInv, NEW n \in Calls, NEW new, NEW note, Lands(n, new, note)
  PROVE  Ground(n) = db
<1>1. CASE AutoCommits(n)
  BY <1>1, SeeFresh DEF BaseInv, CallOK, Lands
<1>2. CASE ~AutoCommits(n)
  BY <1>2 DEF Lands, Overtaken, Serializable, Ground
<1> QED  BY <1>1, <1>2

-----------------------------------------------------------------------------
(* Messages: the sequence number, the message and its tokens land together,*)
(* and so do an edited text and its tokens.                                *)

MessageRow(q) == <<"message", q>>
TokensRow(q) == <<"tokens", q>>

SendOK(n) ==
  call[n].op = "send" /\ Running(n) =>
    /\ Holds(n) \subseteq {LastSeq, MessageRow(Note(n)), TokensRow(Note(n))}
    /\ call[n].st \geq 2 => /\ Note(n) = db[LastSeq] + 1
                            /\ LastSeq \in Holds(n) /\ call[n].work[LastSeq] = Note(n)
    /\ call[n].st \geq 3 => /\ MessageRow(Note(n)) \in Holds(n)
                            /\ call[n].work[MessageRow(Note(n))] = [body |-> Arg(n), gone |-> FALSE]
    /\ call[n].st \geq 4 => /\ TokensRow(Note(n)) \in Holds(n)
                            /\ call[n].work[TokensRow(Note(n))] = {Arg(n)}

Updating(n) == call[n].op \in {"edit", "delete"}
\* Under Prisma the snapshot comes first.
FirstAt == IF backend = "prisma" THEN 2 ELSE 1

Patched(n) ==
  [body |-> Arg(n), gone |-> Ground(n)[FirstMessage].gone \/ call[n].op = "delete"]

UpdateOK(n) ==
  Updating(n) /\ Running(n) =>
    /\ Holds(n) \subseteq {FirstMessage, TokensRow(1)}
    /\ call[n].st \leq FirstAt => Holds(n) = {}
    /\ call[n].st > FirstAt =>
         /\ Ground(n)[FirstMessage] # NoMessage
         /\ FirstMessage \in Holds(n) /\ call[n].work[FirstMessage] = Patched(n)
    /\ call[n].st = FirstAt + 1 => Note(n) = Patched(n)
    /\ call[n].st > FirstAt + 1 =>
         TokensRow(1) \in Holds(n) /\ call[n].work[TokensRow(1)] = Tokens(Patched(n))

SentOK ==
  /\ \A n \in Answered("send") : Note(n) \in Nat /\ Note(n) \leq db[LastSeq]
  /\ \A m, n \in Answered("send") : Note(m) = Note(n) => m = n

MessageInv ==
  /\ db[LastSeq] \in Nat
  /\ \A q \in 1..db[LastSeq] : MessageRow(q) \in DOMAIN db /\ TokensRow(q) \in DOMAIN db
  /\ db[FirstMessage] # NoMessage => db[LastSeq] \geq 1
  /\ \A n \in Calls : SendOK(n) /\ UpdateOK(n)
  /\ SentOK

LEMMA MessageRows ==
  {LastSeq, FirstMessage, TokensRow(1)} \subseteq Rows /\ FirstMessage = MessageRow(1)
<1>1. 1 \in Seqs
  BY SqlAssumption DEF Seqs
<1> QED  BY <1>1 DEF Rows, LastSeq, FirstMessage, TokensRow, MessageRow

LEMMA SendRuns ==
  ASSUME BaseInv, NEW n \in Calls, Running(n), call[n].op = "send"
  PROVE  /\ call[n].tx = 1 /\ Transaction(n) = <<"bump", "insertMessage", "indexMessage">>
         /\ LastTransaction(n) /\ ~AutoCommits(n) /\ ~Opens(n) /\ call[n].base = <<>>
         /\ call[n].st \in 1..4 /\ (AllRun(n) => call[n].st = 4)
<1>1. Program(n) = << <<"bump", "insertMessage", "indexMessage">> >>
  BY MessagePrograms DEF Program, BaseInv
<1>2. call[n].tx \in 1..Len(Program(n)) /\ call[n].st \in 1..(Len(Transaction(n)) + 1)
  BY RunsWell
<1>3. call[n].tx = 1 /\ Transaction(n) = <<"bump", "insertMessage", "indexMessage">> /\ call[n].st \in 1..4
  <2>1. call[n].tx = 1
    BY <1>1, <1>2
  <2>2. Transaction(n) = <<"bump", "insertMessage", "indexMessage">>
    BY <1>1, <2>1 DEF Transaction
  <2> QED  BY <1>2, <2>1, <2>2
<1>4. CallOK(n)
  BY DEF BaseInv
<1> QED  BY <1>1, <1>3, <1>4 DEF LastTransaction, AutoCommits, Opens, AllRun, Statement, CallOK, Snapshot

LEMMA UpdateRuns ==
  ASSUME BaseInv, NEW n \in Calls, Running(n), Updating(n)
  PROVE  /\ call[n].tx = 1 /\ LastTransaction(n) /\ ~AutoCommits(n)
         /\ call[n].st \in 1..(FirstAt + 2) /\ FirstAt \in {1, 2}
         /\ AllRun(n) <=> call[n].st = FirstAt + 2
         /\ Opens(n) => FirstAt = 2 /\ call[n].st = 1
         /\ ~Opens(n) => call[n].st \geq FirstAt
         /\ call[n].st = FirstAt => Statement(n) = "patch"
         /\ call[n].st = FirstAt + 1 => Statement(n) = "reindex"
<1>1. /\ backend # "prisma" => Program(n) = << <<"patch", "reindex">> >>
      /\ backend = "prisma" => Program(n) = << <<Snapshot, "patch", "reindex">> >>
  BY MessagePrograms DEF Program, BaseInv, Backends, Updating
<1>2. call[n].tx \in 1..Len(Program(n)) /\ call[n].st \in 1..(Len(Transaction(n)) + 1)
  BY RunsWell
<1>3. call[n].tx = 1 /\ LastTransaction(n)
  <2>1. Len(Program(n)) = 1
    BY <1>1
  <2> QED  BY <1>2, <2>1 DEF LastTransaction
<1>4. CASE backend = "prisma"
  <2>1. Transaction(n) = <<Snapshot, "patch", "reindex">>
    BY <1>1, <1>3, <1>4 DEF Transaction
  <2>2. Len(Transaction(n)) = 3 /\ FirstAt = 2 /\ call[n].st \in 1..4
    BY <1>2, <1>4, <2>1 DEF FirstAt
  <2> QED  BY <1>3, <2>1, <2>2 DEF AutoCommits, Opens, AllRun, Statement, Snapshot
<1>5. CASE backend # "prisma"
  <2>1. Transaction(n) = <<"patch", "reindex">>
    BY <1>1, <1>3, <1>5 DEF Transaction
  <2>2. Len(Transaction(n)) = 2 /\ FirstAt = 1 /\ call[n].st \in 1..3
    BY <1>2, <1>5, <2>1 DEF FirstAt
  <2> QED  BY <1>3, <2>1, <2>2 DEF AutoCommits, Opens, AllRun, Statement, Snapshot
<1> QED  BY <1>4, <1>5

LEMMA OperationOf ==
  ASSUME BaseInv, NEW n \in Calls, call[n].phase # "idle"
  PROVE  call[n].op \in Operations(topic)
  BY OperationsAsked DEF BaseInv, CallOK, Asked

LEMMA IdleIsNone ==
  ASSUME BaseInv, NEW n \in Calls, call[n].phase = "idle" PROVE call[n].op = "none"
  BY DEF BaseInv, CallOK, NoCall

LEMMA TopicIs ==
  ASSUME BaseInv, NEW n \in Calls, NEW t \in Topics, call[n].op \in Operations(t)
  PROVE  topic = t
<1>1. call[n].phase # "idle"
  BY IdleIsNone DEF Topics, Operations
<1>2. call[n].op \in Operations(topic) /\ topic \in Topics
  BY <1>1, OperationOf DEF BaseInv
<1> QED  BY <1>2 DEF Topics, Operations

LEMMA SendStays ==
  ASSUME BaseInv, MessageInv, NEW n \in Calls, Stepped(n), NEW m \in Calls \ {n}
  PROVE  SendOK(m)'
<1>1. call'[m] = call[m] /\ (LastSeq \in Holds(m) => db'[LastSeq] = db[LastSeq])
  BY OthersKeep, MessageRows DEF BaseInv
<1>2. SendOK(m)
  BY DEF MessageInv
<1> QED  BY <1>1, <1>2 DEF SendOK, Running, Holds, Note, Arg

LEMMA UpdateStays ==
  ASSUME BaseInv, MessageInv, NEW n \in Calls, Stepped(n), NEW m \in Calls \ {n}
  PROVE  UpdateOK(m)'
<1>1. /\ call'[m] = call[m] /\ UNCHANGED <<backend, topic>>
      /\ FirstMessage \in Holds(m) => (Ground(m)')[FirstMessage] = Ground(m)[FirstMessage]
  BY OthersKeep, MessageRows DEF BaseInv
<1>2. UpdateOK(m)
  BY DEF MessageInv
<1>3. /\ Holds(m)' = Holds(m) /\ Note(m)' = Note(m) /\ FirstAt' = FirstAt
      /\ FirstMessage \in Holds(m) => Patched(m)' = Patched(m)
  BY <1>1 DEF Holds, Note, FirstAt, Patched, Arg
<1>4. ASSUME Updating(m), Running(m), call[m].st > FirstAt
      PROVE  Patched(m)' = Patched(m) /\ (Ground(m)')[FirstMessage] = Ground(m)[FirstMessage]
  BY <1>1, <1>2, <1>3, <1>4 DEF UpdateOK
<1>5. call[m].st \in Nat /\ FirstAt \in {1, 2}
  BY DEF BaseInv, CallOK, FirstAt
<1> QED  BY <1>1, <1>2, <1>3, <1>4, <1>5 DEF UpdateOK, Updating, Running

LEMMA SendMoves ==
  ASSUME BaseInv, MessageInv, NEW n \in Calls, Stepped(n) PROVE SendOK(n)'
<1> SUFFICES ASSUME call'[n].op = "send", call'[n].phase = "running", call'[n].st # 1
             PROVE  SendOK(n)'
  <2>1. call'[n].phase = "running" /\ call'[n].st = 1 => call'[n].work = <<>>
    BY CallMoves DEF CallOK, Running
  <2> QED  BY <2>1, EmptyWork DEF SendOK, Running, Holds
<1>1. CASE Opened(n)
  BY <1>1, SendRuns DEF Opened, Identity
<1>2. CASE Executed(n)
  <2>1. Running(n) /\ call[n].op = "send" /\ ~AllRun(n) /\ SendOK(n) /\ CallOK(n)
    BY <1>2 DEF Executed, Runs, Identity, MessageInv, BaseInv
  <2>2. /\ call[n].st \in 1..3 /\ Statement(n) = <<"bump", "insertMessage", "indexMessage">>[call[n].st]
    <3>1. Transaction(n) = <<"bump", "insertMessage", "indexMessage">> /\ call[n].st \in 1..4
      BY <2>1, SendRuns
    <3>2. Len(Transaction(n)) = 3
      BY <3>1
    <3> QED  BY <2>1, <3>1, <3>2 DEF AllRun, Statement
  <2>3. /\ Holds(n)' = DOMAIN Now(n).writes \union Holds(n) /\ Note(n)' = Now(n).note /\ Arg(n)' = Arg(n)
        /\ call'[n].work = Over(Now(n).writes, call[n].work) /\ call'[n].st = call[n].st + 1 /\ db' = db
    BY <1>2 DEF Executed, Holds, Note, Arg, Over, Identity
  <2>4. CASE call[n].st = 1
    <3>1. Now(n) = Put(LastSeq, db[LastSeq] + 1, db[LastSeq] + 1) /\ Holds(n) = {}
      BY <2>1, <2>2, <2>4, SeeFresh DEF Now, Result, Bump
    <3> QED  BY <2>3, <2>4, <3>1 DEF SendOK, Put, Sql, Write, Over
  <2>5. CASE call[n].st = 2
    <3>1. Now(n) = Put(MessageRow(Note(n)), [body |-> Arg(n), gone |-> FALSE], Note(n))
      BY <2>2, <2>5 DEF Now, Result, InsertMessage, MessageRow
    <3> QED  BY <2>1, <2>3, <2>5, <3>1 DEF SendOK, Put, Sql, Write, Over, MessageRow, LastSeq, TokensRow, Holds
  <2>6. CASE call[n].st = 3
    <3>1. Now(n) = Put(TokensRow(Note(n)), {Arg(n)}, Note(n))
      BY <2>2, <2>6 DEF Now, Result, IndexMessage, TokensRow
    <3> QED  BY <2>1, <2>3, <2>6, <3>1 DEF SendOK, Put, Sql, Write, Over, MessageRow, LastSeq, TokensRow, Holds
  <2> QED  BY <2>2, <2>4, <2>5, <2>6
<1> QED  BY <1>1, <1>2 DEF Stepped, Started, LandedAlone, LandedWhole, Landed, Again, Stopped

LEMMA UpdateMoves ==
  ASSUME BaseInv, MessageInv, NEW n \in Calls, Stepped(n) PROVE UpdateOK(n)'
<1> SUFFICES ASSUME Updating(n)', call'[n].phase = "running", call'[n].st # 1
             PROVE  UpdateOK(n)'
  <2>1. call'[n].phase = "running" /\ call'[n].st = 1 => call'[n].work = <<>>
    BY CallMoves DEF CallOK, Running
  <2>2. backend' \in Backends /\ FirstAt' \in {1, 2}
    BY BaseStep DEF BaseInv, FirstAt
  <2> QED  BY <2>1, <2>2, EmptyWork DEF UpdateOK, Running, Holds
<1>1. CASE Opened(n)
  <2>1. Running(n) /\ Updating(n) /\ Opens(n)
    BY <1>1 DEF Opened, Identity, Updating
  <2>2. FirstAt = 2 /\ call[n].st = 1
    BY <2>1, UpdateRuns
  <2>3. Holds(n)' = {} /\ FirstAt' = 2 /\ call'[n].st = 2
    BY <1>1, <2>1, <2>2, SeeFresh DEF Opened, Holds, FirstAt, OthersStay
  <2> QED  BY <2>3 DEF UpdateOK
<1>2. CASE Executed(n)
  <2>1. Running(n) /\ Updating(n) /\ ~AllRun(n) /\ ~Opens(n) /\ UpdateOK(n) /\ ~Now(n).throws
    BY <1>2 DEF Executed, Runs, Identity, MessageInv, Updating
  <2>2. call[n].st \in {FirstAt, FirstAt + 1} /\ FirstAt \in {1, 2}
    <3>1. call[n].st \in FirstAt..(FirstAt + 2) /\ FirstAt \in {1, 2}
      BY <2>1, UpdateRuns
    <3>2. call[n].st < FirstAt + 2
      BY <2>1, <3>1, UpdateRuns
    <3> QED  BY <3>1, <3>2
  <2>3. /\ Holds(n)' = DOMAIN Now(n).writes \union Holds(n) /\ Note(n)' = Now(n).note /\ Arg(n)' = Arg(n)
        /\ call'[n].work = Over(Now(n).writes, call[n].work) /\ call'[n].st = call[n].st + 1
        /\ Ground(n)' = Ground(n) /\ FirstAt' = FirstAt /\ Patched(n)' = Patched(n)
    BY <1>2 DEF Executed, Holds, Note, Arg, Over, Identity, Ground, FirstAt, OthersStay, Patched
  <2>4. CASE call[n].st = FirstAt
    <3>1. Now(n) = Patch(n) /\ Holds(n) = {}
      BY <2>1, <2>2, <2>4, UpdateRuns DEF Now, Result, UpdateOK
    <3>2. See(n, FirstMessage) = Ground(n)[FirstMessage]
      BY <3>1, SeeGround
    <3>3. Ground(n)[FirstMessage] # NoMessage /\ Now(n) = Put(FirstMessage, Patched(n), Patched(n))
      BY <2>1, <3>1, <3>2 DEF Patch, Throws, Patched
    <3>4. Holds(n)' = {FirstMessage} /\ (call[n].work)'[FirstMessage] = Patched(n) /\ Note(n)' = Patched(n)
      BY <2>3, <3>1, <3>3 DEF Put, Sql, Write, Over
    <3> QED  BY <2>2, <2>3, <2>4, <3>3, <3>4 DEF UpdateOK
  <2>5. CASE call[n].st = FirstAt + 1
    <3>1. Now(n) = Put(TokensRow(1), Tokens(Patched(n)), "ok")
      BY <2>1, <2>5, UpdateRuns DEF Now, Result, Reindex, TokensRow, UpdateOK
    <3>2. TokensRow(1) # FirstMessage
      BY DEF TokensRow, FirstMessage
    <3>3. /\ Holds(n)' = {TokensRow(1)} \union Holds(n)
          /\ (call[n].work)'[TokensRow(1)] = Tokens(Patched(n))
          /\ \A c \in Holds(n) : c # TokensRow(1) => (call[n].work)'[c] = call[n].work[c]
      BY <2>3, <3>1 DEF Put, Sql, Write, Over, Holds
    <3> QED  BY <2>1, <2>2, <2>3, <2>5, <3>2, <3>3 DEF UpdateOK
  <2> QED  BY <2>2, <2>4, <2>5
<1> QED  BY <1>1, <1>2 DEF Stepped, Started, LandedAlone, LandedWhole, Landed, Again, Stopped

\* Only a send moves the last sequence number, to the one it took.
LEMMA MessagesLand ==
  ASSUME BaseInv, MessageInv, NEW n \in Calls, NEW new, NEW note, Lands(n, new, note)
  PROVE  \/ /\ call[n].op = "send" /\ LastTransaction(n)
            /\ note = db[LastSeq] + 1 /\ db'[LastSeq] = note
            /\ DOMAIN new = {LastSeq, MessageRow(note), TokensRow(note)}
            /\ new[MessageRow(note)] = [body |-> Arg(n), gone |-> FALSE]
            /\ new[TokensRow(note)] = {Arg(n)}
         \/ /\ Updating(n) /\ LastTransaction(n)
            /\ db[FirstMessage] # NoMessage /\ db'[LastSeq] = db[LastSeq]
            /\ DOMAIN new = {FirstMessage, TokensRow(1)}
            /\ \E gone \in {FALSE, TRUE} :
                 new[FirstMessage] = [body |-> Arg(n), gone |-> db[FirstMessage].gone \/ gone]
                   /\ (call[n].op = "delete" <=> gone)
            /\ new[TokensRow(1)] = Tokens(new[FirstMessage])
         \/ /\ topic # "message" /\ call[n].op \notin {"send", "edit", "delete"}
            /\ \A q : db'[LastSeq] = db[LastSeq] /\ LastSeq \notin DOMAIN new
                      /\ MessageRow(q) \notin DOMAIN new /\ TokensRow(q) \notin DOMAIN new
<1>1. Running(n) /\ call[n].op \in Operations(topic) /\ topic \in Topics
  BY OperationOf DEF Lands, Running, BaseInv
<1>2. /\ LastSeq \in DOMAIN db /\ Ground(n) = db
      /\ \A c \in DOMAIN new : db'[c] = new[c] /\ c[1] \in TablesOf(topic)
      /\ \A c \in DOMAIN db : c \notin DOMAIN new => db'[c] = db[c]
  BY Undisturbed, LandGround, MessageRows DEF BaseInv
<1>3. CASE call[n].op = "send"
  <2>1. AllRun(n) /\ new = call[n].work /\ note = Note(n) /\ call[n].st = 4 /\ SendOK(n) /\ LastTransaction(n)
    BY <1>1, <1>3, SendRuns DEF Lands, MessageInv
  <2> QED  BY <1>1, <1>2, <1>3, <2>1 DEF SendOK, Holds
<1>4. CASE Updating(n)
  <2>1. AllRun(n) /\ new = call[n].work /\ UpdateOK(n) /\ LastTransaction(n)
    BY <1>1, <1>4, UpdateRuns DEF Lands, MessageInv
  <2>2. call[n].st > FirstAt + 1 /\ call[n].st > FirstAt
    BY <1>1, <1>4, <2>1, UpdateRuns
  <2>3. DOMAIN new = {FirstMessage, TokensRow(1)} /\ new[FirstMessage] = Patched(n)
        /\ new[TokensRow(1)] = Tokens(Patched(n)) /\ db[FirstMessage] # NoMessage
    BY <1>1, <1>2, <1>4, <2>1, <2>2 DEF UpdateOK, Holds
  <2>4. LastSeq \notin DOMAIN new
    BY <2>3 DEF LastSeq, FirstMessage, TokensRow
  <2>5. Patched(n) = [body |-> Arg(n), gone |-> db[FirstMessage].gone \/ call[n].op = "delete"]
    BY <1>2 DEF Patched
  <2> QED  BY <1>2, <1>4, <2>1, <2>3, <2>4, <2>5
<1>5. CASE call[n].op \notin {"send", "edit", "delete"}
  <2>1. topic # "message"
    BY <1>1, <1>5 DEF Operations
  <2>2. {"lastSeq", "message", "tokens"} \intersect TablesOf(topic) = {}
    BY <1>1, <2>1 DEF TablesOf, Topics
  <2> QED  BY <1>2, <1>5, <2>1, <2>2 DEF LastSeq, MessageRow, TokensRow
<1> QED  BY <1>3, <1>4, <1>5 DEF Updating

LEMMA AnsweredMoves ==
  ASSUME BaseInv, NEW n \in Calls, Stepped(n), NEW op
  PROVE  /\ \A m \in Answered(op) \ {n} : m \in Answered(op)' /\ Note(m)' = Note(m)
                                          /\ (call[m].wrote)' = call[m].wrote
         /\ \A m \in Answered(op)' : m # n => m \in Answered(op)
         /\ n \notin Answered(op)
         /\ n \in Answered(op)' =>
              \E new, note : Lands(n, new, note) /\ LastTransaction(n) /\ call[n].op = op /\ Note(n)' = note
<1>1. \A m \in Calls \ {n} : call'[m] = call[m]
  BY OthersKeep
<1>2. call[n].phase # "done"
  BY DEF Stepped, Started, Opened, Executed, LandedAlone, LandedWhole, Again, Stopped, Running, Runs
<1>3. ASSUME call'[n].phase = "done", call'[n].op = op
      PROVE  \E new, note : Lands(n, new, note) /\ LastTransaction(n) /\ call[n].op = op /\ Note(n)' = note
  <2>1. LandedAlone(n) \/ LandedWhole(n)
    BY <1>3 DEF Stepped, Started, Opened, Executed, Again, Stopped
  <2>2. PICK new, note : Lands(n, new, note)
    BY <2>1, LandingLands
  <2> QED  BY <1>3, <2>2 DEF Lands, Landed, Identity, Note
<1> QED  BY <1>1, <1>2, <1>3 DEF Answered, Note

LEMMA SentMoves ==
  ASSUME BaseInv, MessageInv, NEW n \in Calls, Stepped(n) PROVE SentOK'
<1>1. /\ \A m \in Answered("send")' : m # n => m \in Answered("send") /\ Note(m)' = Note(m)
      /\ n \in Answered("send")' =>
           \E new, note : Lands(n, new, note) /\ call[n].op = "send" /\ Note(n)' = note
  BY AnsweredMoves
<1>2. db'[LastSeq] \in Nat /\ db'[LastSeq] \geq db[LastSeq]
  <2>1. ASSUME NEW new, NEW note, Lands(n, new, note)
        PROVE  db'[LastSeq] \in {db[LastSeq], db[LastSeq] + 1}
    BY <2>1, MessagesLand
  <2>2. db'[LastSeq] \in {db[LastSeq], db[LastSeq] + 1}
    BY <2>1, StepLands
  <2> QED  BY <2>2 DEF MessageInv
<1>3. n \in Answered("send")' => Note(n)' = db[LastSeq] + 1 /\ db'[LastSeq] = db[LastSeq] + 1
  BY <1>1, MessagesLand DEF Updating
<1>4. db[LastSeq] \in Nat /\ \A m \in Answered("send") : Note(m) \in Nat /\ Note(m) \leq db[LastSeq]
  BY DEF MessageInv, SentOK
<1>5. \A m \in Answered("send")' : Note(m)' \in Nat /\ Note(m)' \leq db'[LastSeq]
  BY <1>1, <1>2, <1>3, <1>4
<1>6. ASSUME NEW k \in Answered("send")', NEW m \in Answered("send")', Note(k)' = Note(m)'
      PROVE  k = m
  BY <1>1, <1>3, <1>4, <1>6 DEF MessageInv, SentOK
<1> QED  BY <1>5, <1>6 DEF SentOK

LEMMA MessageStep ==
  ASSUME BaseInv, MessageInv, NEW n \in Calls, Stepped(n) PROVE MessageInv'
<1>1. \A m \in Calls : SendOK(m)' /\ UpdateOK(m)'
  <2> TAKE m \in Calls
  <2> QED  BY SendStays, UpdateStays, SendMoves, UpdateMoves
<1>2. SentOK'
  BY SentMoves
<1>3. /\ db[LastSeq] \in Nat
      /\ \A q \in 1..db[LastSeq] : MessageRow(q) \in DOMAIN db /\ TokensRow(q) \in DOMAIN db
      /\ db[FirstMessage] # NoMessage => db[LastSeq] \geq 1
  BY DEF MessageInv
<1>4. CASE db' = db
  BY <1>1, <1>2, <1>3, <1>4 DEF MessageInv
<1>5. ASSUME NEW new, NEW note, Lands(n, new, note) PROVE MessageInv'
  <2>1. /\ DOMAIN db' = DOMAIN new \union DOMAIN db
        /\ \A c \in DOMAIN db : c \notin DOMAIN new => db'[c] = db[c]
        /\ FirstMessage \in DOMAIN db
    BY <1>5, Undisturbed, MessageRows DEF BaseInv
  <2>2. \/ /\ db'[LastSeq] = db[LastSeq] + 1
           /\ DOMAIN new = {LastSeq, MessageRow(db[LastSeq] + 1), TokensRow(db[LastSeq] + 1)}
        \/ /\ db'[LastSeq] = db[LastSeq]
           /\ FirstMessage \in DOMAIN new => db[FirstMessage] # NoMessage
    BY <1>5, MessagesLand, MessageRows
  <2>3. db'[LastSeq] \in Nat
    BY <1>3, <2>2
  <2>4. \A q \in 1..db'[LastSeq] : MessageRow(q) \in DOMAIN db' /\ TokensRow(q) \in DOMAIN db'
    BY <1>3, <2>1, <2>2
  <2>5. db'[FirstMessage] # NoMessage => db'[LastSeq] \geq 1
    BY <1>3, <2>1, <2>2
  <2> QED  BY <1>1, <1>2, <2>3, <2>4, <2>5 DEF MessageInv
<1> QED  BY <1>4, <1>5, StepLands

LEMMA LeftRows ==
  ASSUME SqlInit
  PROVE  \E left \in Left(topic) :
           /\ \A c \in Rows : c \notin DOMAIN left => db[c] = Absent(c[1])
           /\ \A c \in DOMAIN left : db[c] = left[c]
           /\ DOMAIN db = DOMAIN left \union Rows
  BY DEF SqlInit, Over, FreshDb

LEMMA WriteRows == \A c, v : DOMAIN Write(c, v) = {c} /\ Write(c, v)[c] = v
  BY DEF Write

LEMMA OverRows ==
  \A f, g : /\ DOMAIN Over(f, g) = DOMAIN f \union DOMAIN g
            /\ \A c \in DOMAIN f : Over(f, g)[c] = f[c]
            /\ \A c \in DOMAIN g : c \notin DOMAIN f => Over(f, g)[c] = g[c]
  BY DEF Over

LEMMA LeftTables ==
  ASSUME NEW t \in Topics, NEW left \in Left(t)
  PROVE  \A c \in DOMAIN left : c[1] \in TablesOf(t)
<1>1. CASE t = "pair"
  <2>1. left = <<>> \/ left = Over(Write(PairRow, 0), Write(PairMembers, TRUE))
    BY <1>1 DEF Left
  <2>2. DOMAIN left \subseteq {PairRow, PairMembers}
    BY <2>1, EmptyWork DEF Write, Over
  <2> QED  BY <1>1, <2>2 DEF TablesOf, PairRow, PairMembers
<1>2. CASE t = "roster"
  BY <1>2, EmptyWork DEF Left, TablesOf
<1>3. CASE t = "message"
  <2>1. ASSUME left # <<>> PROVE DOMAIN left = {LastSeq, <<"message", 1>>, <<"tokens", 1>>}
    <3>1. PICK b \in Bodies : left = Over(Write(LastSeq, 1),
                             Over(Write(<<"message", 1>>, [body |-> b, gone |-> FALSE]),
                                  Write(<<"tokens", 1>>, {b})))
      BY <1>3, <2>1 DEF Left
    <3> QED  BY <3>1 DEF Write, Over
  <2> QED  BY <1>3, <2>1, EmptyWork DEF TablesOf, LastSeq
<1>4. CASE t = "mention"
  BY <1>4, EmptyWork DEF Left, TablesOf, Mentions
<1>5. CASE t = "reaction"
  BY <1>5, EmptyWork DEF Left, TablesOf
<1>6. CASE t = "block"
  BY <1>6, EmptyWork DEF Left, TablesOf, Block, Mute
<1>7. CASE t = "ban"
  BY <1>7, EmptyWork DEF Left, TablesOf, Ban, Write
<1>8. CASE t = "report"
  BY <1>8, EmptyWork DEF Left, TablesOf, Report, Write
<1>9. CASE t = "invite"
  BY <1>9, EmptyWork DEF Left, TablesOf, Request, Write
<1> QED  BY <1>1, <1>2, <1>3, <1>4, <1>5, <1>6, <1>7, <1>8, <1>9 DEF Topics

LEMMA MessageInit == ASSUME SqlInit PROVE MessageInv
<1>1. PICK left \in Left(topic) :
           /\ \A c \in Rows : c \notin DOMAIN left => db[c] = Absent(c[1])
           /\ \A c \in DOMAIN left : db[c] = left[c]
           /\ DOMAIN db = DOMAIN left \union Rows
  BY LeftRows
<1>2. \A n \in Calls : call[n] = NoCall
  BY DEF SqlInit
<1>3. SentOK /\ \A n \in Calls : SendOK(n) /\ UpdateOK(n)
  BY <1>2 DEF SentOK, Answered, SendOK, UpdateOK, Running, NoCall
<1>4. CASE topic = "message" /\ left # <<>>
  <2>1. PICK b \in Bodies : left = Over(Write(LastSeq, 1),
                             Over(Write(<<"message", 1>>, [body |-> b, gone |-> FALSE]),
                                  Write(<<"tokens", 1>>, {b})))
    BY <1>4 DEF Left
  <2>2. DOMAIN left = {LastSeq, MessageRow(1), TokensRow(1)} /\ left[LastSeq] = 1
    BY <2>1 DEF Over, Write, MessageRow, TokensRow
  <2> QED  BY <1>1, <1>3, <2>2 DEF MessageInv
<1>5. CASE topic # "message" \/ left = <<>>
  <2>1. LastSeq \notin DOMAIN left /\ FirstMessage \notin DOMAIN left
    <3>1. CASE left = <<>>
      BY <3>1, EmptyWork
    <3>2. CASE topic # "message"
      <4>1. topic \in Topics /\ {"lastSeq", "message"} \intersect TablesOf(topic) = {}
        BY <3>2 DEF SqlInit, Topics, TablesOf
      <4> QED  BY <4>1, LeftTables DEF LastSeq, FirstMessage
    <3> QED  BY <1>5, <3>1, <3>2
  <2>2. db[LastSeq] = 0 /\ db[FirstMessage] = NoMessage
    BY <1>1, <2>1, MessageRows DEF Absent, LastSeq, FirstMessage
  <2> QED  BY <1>3, <2>2 DEF MessageInv
<1> QED  BY <1>4, <1>5

-----------------------------------------------------------------------------
(* What a commit makes of the objects the rows stand for.                  *)

Parts == {"pair", "rooms", "roster", "title", "log", "found", "mentions", "reactions", "block",
          "mute", "bans", "reports", "links", "uses", "request"}

\* The tables a part is read from.
PartTables(f) ==
  CASE f = "pair" -> {"pair", "pairMembers"}
    [] f = "rooms" -> {"room", "roomMembers"}
    [] f = "roster" -> {"roster"}
    [] f = "title" -> {"title"}
    [] f = "log" -> {"lastSeq", "message"}
    [] f = "found" -> {"lastSeq", "tokens"}
    [] f = "mentions" -> {"mention"}
    [] f = "reactions" -> {"reaction"}
    [] f = "block" -> {"block"}
    [] f = "mute" -> {"mute"}
    [] f = "bans" -> {"ban"}
    [] f = "reports" -> {"report"}
    [] f = "links" -> {"link"}
    [] f = "uses" -> {"uses"}
    [] f = "request" -> {"request"}

Kept(f) == Stored'[f] = Stored[f]

LEMMA StoredParts == DOMAIN Stored = Parts /\ DOMAIN Stored' = Parts
  BY DEF Stored, Parts

\* A part none of whose tables is written stays as it is.
LEMMA PartStands ==
  ASSUME BaseInv, MessageInv, NEW n \in Calls, NEW new, NEW note, Lands(n, new, note), NEW f \in Parts,
         \A c \in DOMAIN new : c[1] \notin PartTables(f)
  PROVE  Kept(f)
<1>1. \A c \in DOMAIN db : c[1] \in PartTables(f) => db'[c] = db[c]
  BY Undisturbed
<1>2. Rows \subseteq DOMAIN db
  BY DEF BaseInv
<1>3. CASE f = "pair"
  <2>1. \A c \in {PairRow, PairMembers} : db'[c] = db[c]
    BY <1>1, <1>2, <1>3 DEF PartTables, Rows, PairRow, PairMembers
  <2> QED  BY <1>3, <2>1 DEF Kept, Stored
<1>4. CASE f = "rooms"
  <2>1. \A k \in Calls : db'[<<"room", k>>] = db[<<"room", k>>] /\ db'[<<"roomMembers", k>>] = db[<<"roomMembers", k>>]
    BY <1>1, <1>2, <1>4 DEF PartTables, Rows
  <2> QED  BY <1>4, <2>1 DEF Kept, Stored, Present
<1>5. CASE f = "roster"
  <2>1. \A u \in Users : db'[<<"roster", u>>] = db[<<"roster", u>>]
    BY <1>1, <1>2, <1>5 DEF PartTables, Rows
  <2> QED  BY <1>5, <2>1 DEF Kept, Stored
<1>6. CASE f = "title"
  <2>1. db'[Title] = db[Title]
    BY <1>1, <1>2, <1>6 DEF PartTables, Rows, Title
  <2> QED  BY <1>6, <2>1 DEF Kept, Stored
<1>7. CASE f = "log"
  <2>1. db'[LastSeq] = db[LastSeq]
    BY <1>1, <1>2, <1>7, MessageRows DEF PartTables, LastSeq
  <2>2. \A q \in 1..db[LastSeq] : db'[MessageRow(q)] = db[MessageRow(q)]
    BY <1>1, <1>7 DEF MessageInv, PartTables, MessageRow
  <2> QED  BY <1>7, <2>1, <2>2 DEF Kept, Stored, Sent, MessageRow
<1>8. CASE f = "found"
  <2>1. db'[LastSeq] = db[LastSeq]
    BY <1>1, <1>2, <1>8, MessageRows DEF PartTables, LastSeq
  <2>2. \A q \in 1..db[LastSeq] : db'[TokensRow(q)] = db[TokensRow(q)]
    BY <1>1, <1>8 DEF MessageInv, PartTables, TokensRow
  <2> QED  BY <1>8, <2>1, <2>2 DEF Kept, Stored, Sent, TokensRow
<1>9. CASE f = "mentions"
  <2>1. \A u \in Users : db'[<<"mention", u>>] = db[<<"mention", u>>]
    BY <1>1, <1>2, <1>9 DEF PartTables, Rows
  <2> QED  BY <1>9, <2>1 DEF Kept, Stored
<1>10. CASE f = "reactions"
  <2>1. \A u \in Users : db'[<<"reaction", u>>] = db[<<"reaction", u>>]
    BY <1>1, <1>2, <1>10 DEF PartTables, Rows
  <2> QED  BY <1>10, <2>1 DEF Kept, Stored
<1>11. CASE f = "block"
  <2>1. db'[Block] = db[Block]
    BY <1>1, <1>2, <1>11 DEF PartTables, Rows, Block
  <2> QED  BY <1>11, <2>1 DEF Kept, Stored
<1>12. CASE f = "mute"
  <2>1. db'[Mute] = db[Mute]
    BY <1>1, <1>2, <1>12 DEF PartTables, Rows, Mute
  <2> QED  BY <1>12, <2>1 DEF Kept, Stored
<1>13. CASE f = "bans"
  <2>1. \A i \in RowIds : db'[Ban(i)] = db[Ban(i)]
    BY <1>1, <1>2, <1>13 DEF PartTables, Rows, Ban
  <2> QED  BY <1>13, <2>1 DEF Kept, Stored
<1>14. CASE f = "reports"
  <2>1. \A i \in RowIds : db'[Report(i)] = db[Report(i)]
    BY <1>1, <1>2, <1>14 DEF PartTables, Rows, Report
  <2> QED  BY <1>14, <2>1 DEF Kept, Stored
<1>15. CASE f = "links"
  <2>1. \A k \in Calls : db'[<<"link", k>>] = db[<<"link", k>>]
    BY <1>1, <1>2, <1>15 DEF PartTables, Rows
  <2> QED  BY <1>15, <2>1 DEF Kept, Stored
<1>16. CASE f = "uses"
  <2>1. db'[Uses] = db[Uses]
    BY <1>1, <1>2, <1>16 DEF PartTables, Rows, Uses
  <2> QED  BY <1>16, <2>1 DEF Kept, Stored
<1>17. CASE f = "request"
  <2>1. db'[Request] = db[Request]
    BY <1>1, <1>2, <1>17 DEF PartTables, Rows, Request
  <2> QED  BY <1>17, <2>1 DEF Kept, Stored
<1> QED
  BY <1>3, <1>4, <1>5, <1>6, <1>7, <1>8, <1>9, <1>10, <1>11, <1>12, <1>13, <1>14, <1>15, <1>16, <1>17 DEF Parts

LEMMA OnePart ==
  ASSUME NEW f \in Parts, \A g \in Parts \ {f} : Kept(g), NEW v, Stored'[f] = v
  PROVE  Stored' = [Stored EXCEPT ![f] = v]
<1>1. Stored' = [g \in Parts |-> Stored'[g]] /\ Stored = [g \in Parts |-> Stored[g]]
  BY DEF Stored, Parts
<1> QED  BY <1>1 DEF Kept

LEMMA TwoParts ==
  ASSUME NEW f \in Parts, NEW g \in Parts, f # g, \A h \in Parts \ {f, g} : Kept(h),
         NEW v, Stored'[f] = v, NEW w, Stored'[g] = w
  PROVE  Stored' = [Stored EXCEPT ![f] = v, ![g] = w]
<1>1. Stored' = [h \in Parts |-> Stored'[h]] /\ Stored = [h \in Parts |-> Stored[h]]
  BY DEF Stored, Parts
<1> QED  BY <1>1 DEF Kept

LEMMA AllKept ==
  ASSUME \A f \in Parts : Kept(f) PROVE Stored' = Stored
<1>1. Stored' = [h \in Parts |-> Stored'[h]] /\ Stored = [h \in Parts |-> Stored[h]]
  BY DEF Stored, Parts
<1> QED  BY <1>1 DEF Kept

-----------------------------------------------------------------------------
(* Messages keep the contract.                                             *)

MeetsContract == Contract!Next \/ <<backend, topic>> \in Exempt \/ Stored' = Stored

LEMMA SendKeeps ==
  ASSUME BaseInv, MessageInv, NEW n \in Calls, NEW new, NEW note, Lands(n, new, note),
         call[n].op = "send", topic = "message", Arg(n) \in Bodies
  PROVE  Contract!AddMessage(Arg(n))
<1> DEFINE m == [body |-> Arg(n), gone |-> FALSE]
<1>1. /\ note = db[LastSeq] + 1 /\ db'[LastSeq] = note
      /\ DOMAIN new = {LastSeq, MessageRow(note), TokensRow(note)}
      /\ new[MessageRow(note)] = m /\ new[TokensRow(note)] = {Arg(n)}
  BY MessagesLand DEF Updating
<1>2. /\ \A c \in DOMAIN new : db'[c] = new[c]
      /\ \A c \in DOMAIN db : c \notin DOMAIN new => db'[c] = db[c]
  BY Undisturbed
<1>3. /\ db[LastSeq] \in Nat
      /\ \A q \in 1..db[LastSeq] : MessageRow(q) \in DOMAIN db /\ TokensRow(q) \in DOMAIN db
  BY DEF MessageInv
<1>4. \A q \in 1..db[LastSeq] : db'[MessageRow(q)] = db[MessageRow(q)] /\ db'[TokensRow(q)] = db[TokensRow(q)]
  <2> TAKE q \in 1..db[LastSeq]
  <2>1. q # note /\ MessageRow(q) \in DOMAIN db /\ TokensRow(q) \in DOMAIN db
    BY <1>1, <1>3
  <2>2. MessageRow(q) \notin DOMAIN new /\ TokensRow(q) \notin DOMAIN new
    BY <1>1, <2>1 DEF MessageRow, TokensRow, LastSeq
  <2> QED  BY <1>2, <2>1, <2>2
<1>5. db'[MessageRow(note)] = m /\ db'[TokensRow(note)] = {Arg(n)}
  BY <1>1, <1>2
<1>6. Stored.log = [q \in 1..db[LastSeq] |-> db[MessageRow(q)]]
      /\ Stored.found = [q \in 1..db[LastSeq] |-> db[TokensRow(q)]]
  BY DEF Stored, Sent, MessageRow, TokensRow
<1>7. Stored'["log"] = [q \in 1..(db[LastSeq] + 1) |-> db'[MessageRow(q)]]
      /\ Stored'["found"] = [q \in 1..(db[LastSeq] + 1) |-> db'[TokensRow(q)]]
  BY <1>1 DEF Stored, Sent, MessageRow, TokensRow
<1>8. Stored'["log"] = Append(Stored.log, m)
  BY <1>1, <1>3, <1>4, <1>5, <1>6, <1>7
<1>9. Stored'["found"] = Append(Stored.found, {Arg(n)})
  BY <1>1, <1>3, <1>4, <1>5, <1>6, <1>7
<1>10. \A f \in Parts \ {"log", "found"} : Kept(f)
  <2>1. \A f \in Parts \ {"log", "found"} : {"lastSeq", "message", "tokens"} \intersect PartTables(f) = {}
    BY DEF Parts, PartTables
  <2> QED  BY <1>1, <2>1, PartStands DEF LastSeq, MessageRow, TokensRow
<1>11. Stored' = [Stored EXCEPT !["log"] = Append(Stored.log, m), !["found"] = Append(Stored.found, {Arg(n)})]
  BY <1>8, <1>9, <1>10, TwoParts DEF Parts
<1> QED  BY <1>11, StoredParts DEF Contract!AddMessage, Contract!Searchable, Parts

LEMMA UpdateKeeps ==
  ASSUME BaseInv, MessageInv, NEW n \in Calls, NEW new, NEW note, Lands(n, new, note), Updating(n)
  PROVE  /\ 1 \in DOMAIN Stored.log
         /\ call[n].op = "edit" => Contract!UpdateMessage(1, Arg(n), FALSE)
         /\ call[n].op = "delete" => Contract!UpdateMessage(1, Arg(n), TRUE)
<1>1. /\ db[FirstMessage] # NoMessage /\ db'[LastSeq] = db[LastSeq] /\ topic = "message"
      /\ DOMAIN new = {FirstMessage, TokensRow(1)}
      /\ new[TokensRow(1)] = Tokens(new[FirstMessage])
  BY MessagesLand, TopicIs DEF Updating, Operations, Topics
<1>2. PICK gone \in {FALSE, TRUE} :
        /\ new[FirstMessage] = [body |-> Arg(n), gone |-> db[FirstMessage].gone \/ gone]
        /\ call[n].op = "delete" <=> gone
  BY MessagesLand DEF Updating
<1> DEFINE m == [body |-> Arg(n), gone |-> db[FirstMessage].gone \/ gone]
<1>3. /\ \A c \in DOMAIN new : db'[c] = new[c]
      /\ \A c \in DOMAIN db : c \notin DOMAIN new => db'[c] = db[c]
  BY Undisturbed
<1>4. /\ db[LastSeq] \in Nat /\ 1 \in 1..db[LastSeq]
      /\ \A q \in 1..db[LastSeq] : MessageRow(q) \in DOMAIN db /\ TokensRow(q) \in DOMAIN db
  BY <1>1 DEF MessageInv
<1>5. \A q \in 1..db[LastSeq] :
        /\ db'[MessageRow(q)] = IF q = 1 THEN m ELSE db[MessageRow(q)]
        /\ db'[TokensRow(q)] = IF q = 1 THEN Tokens(m) ELSE db[TokensRow(q)]
  <2> SUFFICES ASSUME NEW q \in 1..db[LastSeq]
               PROVE  /\ db'[MessageRow(q)] = IF q = 1 THEN m ELSE db[MessageRow(q)]
                      /\ db'[TokensRow(q)] = IF q = 1 THEN Tokens(m) ELSE db[TokensRow(q)]
    OBVIOUS
  <2>1. CASE q = 1
    <3>1. /\ MessageRow(1) \in DOMAIN new /\ new[MessageRow(1)] = m
          /\ TokensRow(1) \in DOMAIN new /\ new[TokensRow(1)] = Tokens(m)
      BY <1>1, <1>2 DEF MessageRow, TokensRow, FirstMessage
    <3> QED  BY <1>3, <2>1, <3>1
  <2>2. CASE q # 1
    <3>1. MessageRow(q) \notin DOMAIN new /\ TokensRow(q) \notin DOMAIN new
      BY <1>1, <2>2 DEF MessageRow, TokensRow, FirstMessage
    <3>2. MessageRow(q) \in DOMAIN db /\ TokensRow(q) \in DOMAIN db
      BY <1>4
    <3> QED  BY <1>3, <2>2, <3>1, <3>2
  <2> QED  BY <2>1, <2>2
<1>6. /\ Stored.log = [q \in 1..db[LastSeq] |-> db[MessageRow(q)]]
      /\ Stored.found = [q \in 1..db[LastSeq] |-> db[TokensRow(q)]]
      /\ Stored'["log"] = [q \in 1..db[LastSeq] |-> db'[MessageRow(q)]]
      /\ Stored'["found"] = [q \in 1..db[LastSeq] |-> db'[TokensRow(q)]]
  BY <1>1 DEF Stored, Sent, MessageRow, TokensRow
<1> HIDE DEF m
<1>7. Stored'["log"] = [Stored.log EXCEPT ![1] = m] /\ Stored'["found"] = [Stored.found EXCEPT ![1] = Tokens(m)]
  <2>1. Stored'["log"] = [q \in 1..db[LastSeq] |-> IF q = 1 THEN m ELSE db[MessageRow(q)]]
    BY <1>5, <1>6
  <2>2. Stored'["found"] = [q \in 1..db[LastSeq] |-> IF q = 1 THEN Tokens(m) ELSE db[TokensRow(q)]]
    BY <1>5, <1>6
  <2>3. [Stored.log EXCEPT ![1] = m] = [q \in 1..db[LastSeq] |-> IF q = 1 THEN m ELSE db[MessageRow(q)]]
    BY <1>6
  <2>4. [Stored.found EXCEPT ![1] = Tokens(m)] = [q \in 1..db[LastSeq] |-> IF q = 1 THEN Tokens(m) ELSE db[TokensRow(q)]]
    BY <1>6
  <2> QED  BY <2>1, <2>2, <2>3, <2>4
<1>8. \A f \in Parts \ {"log", "found"} : Kept(f)
  <2>1. \A f \in Parts \ {"log", "found"} : {"message", "tokens"} \intersect PartTables(f) = {}
    BY DEF Parts, PartTables
  <2> QED  BY <1>1, <2>1, PartStands DEF FirstMessage, TokensRow
<1>9. Stored' = [Stored EXCEPT !["log"] = [Stored.log EXCEPT ![1] = m],
                               !["found"] = [Stored.found EXCEPT ![1] = Tokens(m)]]
  BY <1>7, <1>8, TwoParts DEF Parts
<1>10. m = [body |-> Arg(n), gone |-> Stored.log[1].gone \/ gone] /\ 1 \in DOMAIN Stored.log
  BY <1>4, <1>6 DEF m, MessageRow, FirstMessage
<1>11. Contract!UpdateMessage(1, Arg(n), gone)
  BY <1>9, <1>10 DEF Contract!UpdateMessage, Contract!Searchable, Tokens
<1>12. call[n].op = "edit" => ~gone
  BY <1>2
<1> QED  BY <1>2, <1>10, <1>11, <1>12

LEMMA MessageKeeps ==
  ASSUME BaseInv, MessageInv, NEW n \in Calls, NEW new, NEW note, Lands(n, new, note), topic = "message"
  PROVE  MeetsContract
<1>1. PICK r \in Requests("message") : call[n].op = r[1] /\ call[n].arg = r[2]
  BY DEF Lands, Running, BaseInv, CallOK, Asked
<1>2. \/ call[n].op \in {"send", "edit"} /\ Arg(n) \in Bodies
      \/ call[n].op = "delete" /\ Arg(n) = Empty
  BY <1>1 DEF Requests, Arg
<1>3. CASE call[n].op = "send"
  BY <1>2, <1>3, SendKeeps DEF Contract!Next, MeetsContract
<1>4. CASE call[n].op = "edit"
  <2>1. Arg(n) \in Bodies
    BY <1>2, <1>4
  <2>2. 1 \in DOMAIN Stored.log /\ Contract!UpdateMessage(1, Arg(n), FALSE)
    BY <1>4, UpdateKeeps DEF Updating
  <2> QED  BY <2>1, <2>2 DEF Contract!Next, MeetsContract
<1>5. CASE call[n].op = "delete"
  <2>1. 1 \in DOMAIN Stored.log /\ Contract!UpdateMessage(1, Empty, TRUE)
    BY <1>2, <1>5, UpdateKeeps DEF Updating
  <2> QED  BY <2>1 DEF Contract!Next, MeetsContract, Empty, Contract!Empty
<1> QED  BY <1>2, <1>3, <1>4, <1>5

-----------------------------------------------------------------------------
(* The roster: every statement commits by itself.                          *)

\* What a statement alone lands is what it makes of the database as it is.
LEMMA AloneLands ==
  ASSUME BaseInv, NEW n \in Calls, NEW new, NEW note, Lands(n, new, note), AutoCommits(n)
  PROVE  /\ call[n].st = 1 /\ Statement(n) = Transaction(n)[1]
         /\ new = Result(n, Statement(n)).writes /\ note = Result(n, Statement(n)).note
         /\ ~Result(n, Statement(n)).throws
         /\ \A c : See(n, c) = db[c]
  BY SeeFresh DEF Lands, Now, Statement, BaseInv, CallOK

LEMMA NothingLands ==
  ASSUME BaseInv, MessageInv, NEW n \in Calls, NEW new, NEW note, Lands(n, new, note), DOMAIN new = {}
  PROVE  MeetsContract
  BY PartStands, AllKept DEF MeetsContract

LEMMA SelectLands ==
  ASSUME BaseInv, MessageInv, NEW n \in Calls, NEW new, NEW note, Lands(n, new, note),
         NEW v, new = Select(v).writes
  PROVE  MeetsContract
  BY NothingLands, EmptyWork DEF Select, Sql

LEMMA RosterRuns ==
  ASSUME BaseInv, NEW n \in Calls, Running(n), topic = "roster"
  PROVE  /\ AutoCommits(n)
         /\ \/ /\ Transaction(n)[1] \in {"join", "leave", "promote", "promoteOrThrow", "markRead",
                                         "markReadOrThrow", "checkSeat"}
               /\ Arg(n) \in Users
            \/ Transaction(n)[1] = "retitle" /\ Arg(n) \in Titles
            \/ Transaction(n)[1] = "reload"
         /\ call[n].op = "role" /\ <<backend, "role">> \notin Lax =>
              call[n].tx \in {1, 2} /\ Len(Program(n)) = 2
                /\ (call[n].tx = 1 => Transaction(n)[1] = "promoteOrThrow")
         /\ call[n].op = "read" /\ <<backend, "read">> \notin Lax =>
              call[n].tx = 1 /\ Transaction(n)[1] = "markReadOrThrow"
<1>1. PICK r \in Requests("roster") : call[n].op = r[1] /\ call[n].arg = r[2]
  BY DEF Running, BaseInv, CallOK, Asked
<1>2. \/ call[n].op \in {"add", "remove", "role", "read"} /\ Arg(n) \in Users
      \/ call[n].op = "title" /\ Arg(n) \in Titles
  BY <1>1 DEF Requests, Arg
<1>3. call[n].tx \in 1..Len(Program(n)) /\ backend \in Backends
  BY RunsWell DEF BaseInv
<1>4. CASE call[n].op = "add"
  <2>1. Program(n) = << <<"join">>, <<"reload">> >>
    BY <1>3, <1>4, RosterPrograms DEF Program
  <2> QED  BY <1>2, <1>3, <1>4, <2>1 DEF Transaction, AutoCommits
<1>5. CASE call[n].op = "remove"
  <2>1. Program(n) = << <<"leave">>, <<"reload">> >>
    BY <1>3, <1>5, RosterPrograms DEF Program
  <2> QED  BY <1>2, <1>3, <1>5, <2>1 DEF Transaction, AutoCommits
<1>6. CASE call[n].op = "title"
  <2>1. Program(n) = << <<"retitle">>, <<"reload">> >>
    BY <1>3, <1>6, RosterPrograms DEF Program
  <2> QED  BY <1>2, <1>3, <1>6, <2>1 DEF Transaction, AutoCommits
<1>7. CASE call[n].op = "role"
  <2>1. PICK s \in {"promote", "promoteOrThrow"} :
          /\ Program(n) = << <<s>>, <<"reload">> >>
          /\ <<backend, "role">> \notin Lax => s = "promoteOrThrow"
    BY <1>3, <1>7, RosterPrograms DEF Program, Backends, Lax
  <2> QED  BY <1>2, <1>3, <1>7, <2>1 DEF Transaction, AutoCommits
<1>8. CASE call[n].op = "read" /\ backend # "mysql"
  <2>1. Program(n) = << <<"markReadOrThrow">> >>
    BY <1>3, <1>8, RosterPrograms DEF Program, Backends
  <2> QED  BY <1>2, <1>3, <1>8, <2>1 DEF Transaction, AutoCommits
<1>9. CASE call[n].op = "read" /\ backend = "mysql"
  <2>1. Program(n) = << <<"markRead">>, <<"checkSeat">> >>
    BY <1>3, <1>9, RosterPrograms DEF Program, Backends
  <2> QED  BY <1>2, <1>3, <1>9, <2>1 DEF Transaction, AutoCommits, Lax
<1> QED  BY <1>2, <1>4, <1>5, <1>6, <1>7, <1>8, <1>9

\* One row of the roster, or the title, written anew.
LEMMA SeatLands ==
  ASSUME BaseInv, MessageInv, NEW n \in Calls, NEW new, NEW note, Lands(n, new, note),
         NEW u \in Users, NEW v, new = Write(<<"roster", u>>, v)
  PROVE  Stored' = [Stored EXCEPT !["roster"] = [Stored.roster EXCEPT ![u] = v]]
<1>1. DOMAIN new = {<<"roster", u>>} /\ new[<<"roster", u>>] = v
  BY DEF Write
<1>2. \A w \in Users : <<"roster", w>> \in DOMAIN db
  BY DEF BaseInv, Rows
<1>3. \A w \in Users : db'[<<"roster", w>>] = IF w = u THEN v ELSE db[<<"roster", w>>]
  BY <1>1, <1>2, Undisturbed
<1>4. /\ Stored.roster = [w \in Users |-> db[<<"roster", w>>]]
      /\ Stored'["roster"] = [w \in Users |-> db'[<<"roster", w>>]]
  BY DEF Stored
<1>5. [Stored.roster EXCEPT ![u] = v] = [w \in Users |-> IF w = u THEN v ELSE db[<<"roster", w>>]]
  BY <1>4
<1>6. Stored'["roster"] = [Stored.roster EXCEPT ![u] = v]
  BY <1>3, <1>4, <1>5
<1>7. \A f \in Parts \ {"roster"} : "roster" \notin PartTables(f)
  BY DEF Parts, PartTables
<1>8. \A f \in Parts \ {"roster"} : Kept(f)
  BY <1>1, <1>7, PartStands
<1> QED  BY <1>6, <1>8, OnePart DEF Parts

LEMMA RosterKeeps ==
  ASSUME BaseInv, MessageInv, NEW n \in Calls, NEW new, NEW note, Lands(n, new, note), topic = "roster"
  PROVE  MeetsContract
<1>1. Running(n) /\ AutoCommits(n)
  BY RosterRuns DEF Lands
<1> DEFINE s == Statement(n)
           at == <<"roster", Arg(n)>>
<1>2. /\ new = Result(n, s).writes /\ ~Result(n, s).throws /\ \A c : See(n, c) = db[c]
      /\ s = Transaction(n)[1]
  BY <1>1, AloneLands
<1>3. \/ /\ s \in {"join", "leave", "promote", "promoteOrThrow", "markRead", "markReadOrThrow", "checkSeat"}
         /\ Arg(n) \in Users
      \/ s = "retitle" /\ Arg(n) \in Titles
      \/ s = "reload"
  BY <1>1, <1>2, RosterRuns
<1> HIDE DEF s
<1>4. CASE s \in {"reload", "checkSeat"}
  <2>1. Result(n, s) = Select("ok")
    BY <1>2, <1>4 DEF Result, Reload, CheckSeat, Throws
  <2> QED  BY <1>2, <2>1, SelectLands
<1>5. CASE s = "retitle"
  <2>1. new = Write(Title, Arg(n)) /\ Arg(n) \in Titles
    BY <1>2, <1>3, <1>5 DEF Result, Retitle, Put, Sql
  <2>2. DOMAIN new = {Title} /\ new[Title] = Arg(n) /\ Title[1] = "title"
    BY <2>1 DEF Write, Title
  <2>3. Stored'["title"] = Arg(n)
    BY <2>2, Undisturbed DEF Stored
  <2>4. \A f \in Parts \ {"title"} : "title" \notin PartTables(f)
    BY DEF Parts, PartTables
  <2>5. \A f \in Parts \ {"title"} : Kept(f)
    BY <2>2, <2>4, PartStands
  <2>6. Contract!UpdateConversation(Arg(n))
    BY <2>3, <2>5, OnePart DEF Parts, Contract!UpdateConversation
  <2> QED  BY <2>1, <2>6 DEF MeetsContract, Contract!Next
<1> DEFINE u == Arg(n)
<1>6. ASSUME u \in Users PROVE Stored.roster[u] = db[at] /\ u \in DOMAIN Stored.roster /\ Seat(n) = at
  BY <1>6 DEF Stored, Seat
<1>7. CASE DOMAIN new = {}
  BY <1>7, NothingLands
<1>8. CASE s = "join" /\ DOMAIN new # {}
  <2>1. u \in Users
    BY <1>3, <1>8
  <2>2. Result(n, s) = Join(n)
    BY <1>8 DEF Result
  <2>3. new = Write(at, [role |-> "member", read |-> FALSE]) /\ db[at].role = "out"
    BY <1>2, <1>6, <1>8, <2>1, <2>2, EmptyWork DEF Join, PutIf, Sql, Seated
  <2>4. Contract!AddParticipant(u)
    BY <1>6, <2>1, <2>3, SeatLands DEF Contract!AddParticipant
  <2> QED  BY <2>1, <2>4 DEF MeetsContract, Contract!Next
<1>9. CASE s = "leave" /\ DOMAIN new # {}
  <2>1. u \in Users
    BY <1>3, <1>9
  <2>2. Result(n, s) = Unseat(n)
    BY <1>9 DEF Result
  <2>3. new = Write(at, Outside)
    BY <1>2, <1>6, <1>9, <2>1, <2>2, EmptyWork DEF Unseat, PutIf, Sql
  <2>4. Contract!RemoveParticipant(u)
    BY <1>6, <2>1, <2>3, SeatLands DEF Contract!RemoveParticipant, Outside, Contract!Outside
  <2> QED  BY <2>1, <2>4 DEF MeetsContract, Contract!Next
<1>10. CASE s \in {"promote", "promoteOrThrow"} /\ DOMAIN new # {}
  <2>1. u \in Users
    BY <1>3, <1>10
  <2>2. Result(n, s) = Promote(n)
    BY <1>2, <1>10 DEF Result, Strictly, Throws
  <2>3. new = Write(at, [db[at] EXCEPT !.role = "admin"]) /\ db[at].role # "out"
    BY <1>2, <1>6, <1>10, <2>1, <2>2, EmptyWork DEF Promote, PutIf, Sql, Seated
  <2>4. Contract!SetParticipantRole(u, "admin")
    BY <1>6, <2>1, <2>3, SeatLands DEF Contract!SetParticipantRole
  <2> QED  BY <2>1, <2>4 DEF MeetsContract, Contract!Next
<1>11. CASE s \in {"markRead", "markReadOrThrow"} /\ DOMAIN new # {}
  <2>1. u \in Users
    BY <1>3, <1>11
  <2>2. Result(n, s) = MarkRead(n)
    BY <1>2, <1>11 DEF Result, Strictly, Throws
  <2>5. Seat(n) = at /\ See(n, at) = db[at] /\ new = MarkRead(n).writes
    BY <1>2, <1>6, <2>1, <2>2
  <2>6. Seated(n)
    BY <1>11, <2>5, EmptyWork DEF MarkRead, PutIf, Sql
  <2>3. new = Write(at, [db[at] EXCEPT !.read = TRUE]) /\ db[at].role # "out"
    BY <2>5, <2>6 DEF MarkRead, PutIf, Sql, Seated
  <2>4. Contract!UpdateLastRead(u)
    BY <1>6, <2>1, <2>3, SeatLands DEF Contract!UpdateLastRead
  <2> QED  BY <2>1, <2>4 DEF MeetsContract, Contract!Next
<1> QED  BY <1>3, <1>4, <1>5, <1>7, <1>8, <1>9, <1>10, <1>11

\* An acknowledged read mark or role was written.
WroteInv ==
  \A n \in Calls :
    /\ call[n].op = "role" /\ <<backend, "role">> \notin Lax =>
         ((Running(n) /\ call[n].tx = 2) \/ call[n].phase = "done" => call[n].wrote = TRUE)
    /\ call[n].op = "read" /\ <<backend, "read">> \notin Lax =>
         (call[n].phase = "done" => call[n].wrote = TRUE)

LEMMA SeatedWrites ==
  ASSUME BaseInv, NEW n \in Calls, NEW new, NEW note, Lands(n, new, note), AutoCommits(n),
         Statement(n) \in {"promoteOrThrow", "markReadOrThrow"}
  PROVE  DOMAIN new # {}
<1>1. /\ new = Result(n, Statement(n)).writes /\ ~Result(n, Statement(n)).throws
  BY AloneLands
<1>2. CASE Statement(n) = "promoteOrThrow"
  <2>1. Seated(n) /\ new = Promote(n).writes
    BY <1>1, <1>2 DEF Result, Strictly, Throws
  <2> QED  BY <2>1 DEF Promote, PutIf, Sql, Write
<1>3. CASE Statement(n) = "markReadOrThrow"
  <2>1. Seated(n) /\ new = MarkRead(n).writes
    BY <1>1, <1>3 DEF Result, Strictly, Throws
  <2> QED  BY <2>1 DEF MarkRead, PutIf, Sql, Write
<1> QED  BY <1>2, <1>3

LEMMA WroteInit == ASSUME SqlInit PROVE WroteInv
  BY DEF SqlInit, WroteInv, NoCall, Running

LEMMA WroteLands ==
  ASSUME BaseInv, WroteInv, NEW n \in Calls, NEW new, NEW note, Lands(n, new, note),
         \/ call[n].op = "role" /\ <<backend, "role">> \notin Lax
         \/ call[n].op = "read" /\ <<backend, "read">> \notin Lax
  PROVE  call'[n].wrote = TRUE
<1>1. topic = "roster" /\ Running(n)
  BY TopicIs DEF Operations, Topics, Lands
<1>2. AutoCommits(n) /\ Statement(n) = Transaction(n)[1]
  BY <1>1, RosterRuns, AloneLands
<1>3. call'[n].wrote = (call[n].wrote \/ DOMAIN new # {})
  BY DEF Lands, Landed
<1>4. CASE Statement(n) \in {"promoteOrThrow", "markReadOrThrow"}
  <2>1. DOMAIN new # {}
    BY <1>2, <1>4, SeatedWrites
  <2>2. (call[n].wrote \/ DOMAIN new # {}) = TRUE
    BY <2>1
  <2> QED  BY <1>3, <2>2
<1>5. CASE Statement(n) \notin {"promoteOrThrow", "markReadOrThrow"}
  <2>1. call[n].op = "role" /\ <<backend, "role">> \notin Lax /\ call[n].tx = 2
    BY <1>1, <1>2, <1>5, RosterRuns
  <2>2. call[n].wrote = TRUE
    BY <1>1, <2>1 DEF WroteInv
  <2>3. (call[n].wrote \/ DOMAIN new # {}) = TRUE
    BY <2>2
  <2> QED  BY <1>3, <2>3
<1> QED  BY <1>4, <1>5

LEMMA WroteStep ==
  ASSUME BaseInv, WroteInv, NEW n \in Calls, Stepped(n) PROVE WroteInv'
<1>1. /\ UNCHANGED <<backend, topic>> /\ \A m \in Calls \ {n} : call'[m] = call[m]
  BY OthersKeep DEF Stepped, Started, Opened, Executed, LandedAlone, LandedWhole, Landed, Again, Stopped, OthersStay
<1> DEFINE Good(c) ==
      /\ c.op = "role" /\ <<backend, "role">> \notin Lax =>
           ((c.phase = "running" /\ c.tx = 2) \/ c.phase = "done" => c.wrote = TRUE)
      /\ c.op = "read" /\ <<backend, "read">> \notin Lax => (c.phase = "done" => c.wrote = TRUE)
<1>2. \A m \in Calls : Good(call[m])
  BY DEF WroteInv, Running
<1>3. Good(call'[n])
  <2>1. CASE \E r \in Requests(topic) : Started(n, r)
    BY <2>1 DEF Started
  <2>2. CASE Opened(n) \/ Executed(n) \/ Again(n)
    BY <1>2, <2>2 DEF Opened, Executed, Again, Identity, Running, Runs
  <2>3. CASE Stopped(n)
    BY <2>3 DEF Stopped
  <2>4. ASSUME NEW new, NEW note, Lands(n, new, note) PROVE Good(call'[n])
    <3>1. call'[n].op = call[n].op
      BY <2>4 DEF Lands, Landed, Identity
    <3> QED  BY <2>4, <3>1, WroteLands
  <2> QED  BY <2>1, <2>2, <2>3, <2>4, LandingLands DEF Stepped
<1>4. \A m \in Calls : Good(call'[m])
  BY <1>1, <1>2, <1>3
<1> QED  BY <1>1, <1>4 DEF WroteInv, Running

-----------------------------------------------------------------------------
(* Reactions, blocks and mutes: every statement commits by itself.         *)

LEMMA ReactionRuns ==
  ASSUME BaseInv, NEW n \in Calls, Running(n), topic = "reaction"
  PROVE  /\ AutoCommits(n)
         /\ \/ Transaction(n)[1] \in {"react", "unreact"} /\ Arg(n) \in Users
            \/ Transaction(n)[1] = "readReactions"
<1>1. PICK r \in Requests("reaction") : call[n].op = r[1] /\ call[n].arg = r[2]
  BY DEF Running, BaseInv, CallOK, Asked
<1>2. call[n].op \in {"react", "unreact"} /\ Arg(n) \in Users
  BY <1>1 DEF Requests, Arg
<1>3. call[n].tx \in 1..Len(Program(n)) /\ backend \in Backends
  BY RunsWell DEF BaseInv
<1>4. CASE call[n].op = "react"
  <2>1. Program(n) = << <<"react">>, <<"readReactions">> >>
    BY <1>3, <1>4, ReactionPrograms DEF Program
  <2> QED  BY <1>2, <1>3, <2>1 DEF Transaction, AutoCommits
<1>5. CASE call[n].op = "unreact"
  <2>1. Program(n) = << <<"unreact">>, <<"readReactions">> >>
    BY <1>3, <1>5, ReactionPrograms DEF Program
  <2> QED  BY <1>2, <1>3, <2>1 DEF Transaction, AutoCommits
<1> QED  BY <1>2, <1>4, <1>5

\* One row written of a table that one part is read from.
LEMMA RowLands ==
  ASSUME BaseInv, MessageInv, NEW n \in Calls, NEW new, NEW note, Lands(n, new, note),
         NEW c, NEW v, new = Write(c, v), NEW f \in Parts,
         \A g \in Parts \ {f} : c[1] \notin PartTables(g)
  PROVE  /\ Stored' = [Stored EXCEPT ![f] = Stored'[f]]
         /\ db'[c] = v /\ \A x \in DOMAIN db : x # c => db'[x] = db[x]
<1>1. DOMAIN new = {c} /\ new[c] = v
  BY DEF Write
<1>2. \A g \in Parts \ {f} : Kept(g)
  BY <1>1, PartStands
<1>3. db'[c] = v /\ \A x \in DOMAIN db : x # c => db'[x] = db[x]
  BY <1>1, Undisturbed
<1>4. Stored' = [Stored EXCEPT ![f] = Stored'[f]]
  BY <1>2, OnePart
<1> QED  BY <1>3, <1>4

LEMMA ReactionLands ==
  ASSUME BaseInv, MessageInv, NEW n \in Calls, NEW new, NEW note, Lands(n, new, note),
         NEW u \in Users, NEW v \in BOOLEAN, new = Write(<<"reaction", u>>, v)
  PROVE  Stored' = [Stored EXCEPT !["reactions"] =
                      IF v THEN Stored.reactions \union {u} ELSE Stored.reactions \ {u}]
<1>1. /\ "reactions" \in Parts
      /\ \A g \in Parts \ {"reactions"} : <<"reaction", u>>[1] \notin PartTables(g)
  BY DEF Parts, PartTables
<1>2. /\ Stored' = [Stored EXCEPT !["reactions"] = Stored'["reactions"]]
      /\ db'[<<"reaction", u>>] = v /\ \A x \in DOMAIN db : x # <<"reaction", u>> => db'[x] = db[x]
  BY <1>1, RowLands
<1>3. \A w \in Users : <<"reaction", w>> \in DOMAIN db
  BY DEF BaseInv, Rows
<1>4. \A w \in Users \ {u} : db'[<<"reaction", w>>] = db[<<"reaction", w>>]
  BY <1>2, <1>3
<1>5. Stored.reactions = {w \in Users : db[<<"reaction", w>>]}
      /\ Stored'["reactions"] = {w \in Users : db'[<<"reaction", w>>]}
  BY DEF Stored
<1>6. CASE v = TRUE
  <2>1. Stored'["reactions"] = Stored.reactions \union {u}
    BY <1>2, <1>4, <1>5, <1>6
  <2> QED  BY <1>2, <1>6, <2>1
<1>7. CASE v = FALSE
  <2>1. Stored'["reactions"] = Stored.reactions \ {u}
    BY <1>2, <1>4, <1>5, <1>7
  <2> QED  BY <1>2, <1>7, <2>1
<1> QED  BY <1>6, <1>7

LEMMA ReactionKeeps ==
  ASSUME BaseInv, MessageInv, NEW n \in Calls, NEW new, NEW note, Lands(n, new, note), topic = "reaction"
  PROVE  MeetsContract
<1>1. Running(n) /\ AutoCommits(n)
  BY ReactionRuns DEF Lands
<1> DEFINE s == Statement(n)
           u == Arg(n)
<1>2. new = Result(n, s).writes /\ s = Transaction(n)[1]
  BY <1>1, AloneLands
<1>3. (s \in {"react", "unreact"} /\ u \in Users) \/ s = "readReactions"
  BY <1>1, <1>2, ReactionRuns
<1> HIDE DEF s
<1>4. CASE s = "readReactions"
  <2>1. Result(n, s) = ReadReactions(n)
    BY <1>4 DEF Result
  <2> QED  BY <1>2, <2>1, SelectLands DEF ReadReactions
<1>5. CASE s = "react"
  <2>1. u \in Users /\ new = Write(<<"reaction", u>>, TRUE)
    BY <1>2, <1>3, <1>5 DEF Result, React, Put, Sql
  <2>2. Contract!AddReaction(u)
    BY <2>1, ReactionLands DEF Contract!AddReaction
  <2> QED  BY <2>1, <2>2 DEF MeetsContract, Contract!Next
<1>6. CASE s = "unreact"
  <2>1. u \in Users /\ new = Write(<<"reaction", u>>, FALSE)
    BY <1>2, <1>3, <1>6 DEF Result, Unreact, Put, Sql
  <2>2. Contract!RemoveReaction(u)
    BY <2>1, ReactionLands DEF Contract!RemoveReaction
  <2> QED  BY <2>1, <2>2 DEF MeetsContract, Contract!Next
<1> QED  BY <1>3, <1>4, <1>5, <1>6

LEMMA BlockRuns ==
  ASSUME BaseInv, NEW n \in Calls, Running(n), topic = "block"
  PROVE  /\ AutoCommits(n)
         /\ \/ Transaction(n)[1] \in {"block", "unblock", "mute", "unmute", "readBlock", "readMute"}
            \/ <<backend, topic>> \in Exempt
<1>1. call[n].op \in {"block", "unblock", "mute", "unmute"}
  BY OperationOf DEF Running, Operations
<1>2. call[n].tx \in 1..Len(Program(n)) /\ backend \in Backends
  BY RunsWell DEF BaseInv
<1>3. CASE call[n].op \in {"unblock", "unmute"}
  <2>1. PICK s \in {"unblock", "unmute"} : Program(n) = << <<s>> >>
    BY <1>2, <1>3, BlockPrograms DEF Program
  <2> QED  BY <1>2, <2>1 DEF Transaction, AutoCommits
<1>4. CASE call[n].op \in {"block", "mute"} /\ backend = "prisma"
  <2>1. PICK s \in {"blockAgain", "muteAgain"} : Program(n) = << <<s>> >>
    BY <1>2, <1>4, BlockPrograms DEF Program
  <2> QED  BY <1>2, <1>4, <2>1 DEF Transaction, AutoCommits, Exempt
<1>5. CASE call[n].op \in {"block", "mute"} /\ backend # "prisma"
  <2>1. PICK s \in {"block", "mute"}, r \in {"readBlock", "readMute"} : Program(n) = << <<s>>, <<r>> >>
    BY <1>2, <1>5, BlockPrograms DEF Program, Backends
  <2> QED  BY <1>2, <2>1 DEF Transaction, AutoCommits
<1> QED  BY <1>1, <1>3, <1>4, <1>5

LEMMA BlockKeeps ==
  ASSUME BaseInv, MessageInv, NEW n \in Calls, NEW new, NEW note, Lands(n, new, note), topic = "block"
  PROVE  MeetsContract
<1>1. Running(n) /\ AutoCommits(n) /\ n \in RowIds
  BY BlockRuns, SqlAssumption DEF Lands, Calls, RowIds
<1> DEFINE s == Statement(n)
<1>2. new = Result(n, s).writes /\ s = Transaction(n)[1] /\ ~Result(n, s).throws /\ \A c : See(n, c) = db[c]
  BY <1>1, AloneLands
<1>3. s \in {"block", "unblock", "mute", "unmute", "readBlock", "readMute"} \/ <<backend, topic>> \in Exempt
  BY <1>1, <1>2, BlockRuns
<1> HIDE DEF s
<1>4. CASE s \in {"readBlock", "readMute"}
  <2>1. PICK c \in {Block, Mute} : Result(n, s) = ReadBack(n, c)
    BY <1>4 DEF Result
  <2>2. Result(n, s) = Select(See(n, c))
    BY <1>2, <2>1 DEF ReadBack, Throws
  <2> QED  BY <1>2, <2>2, SelectLands
<1>5. /\ \A g \in Parts \ {"block"} : Block[1] \notin PartTables(g)
      /\ \A g \in Parts \ {"mute"} : Mute[1] \notin PartTables(g)
      /\ {"block", "mute"} \subseteq Parts
  BY DEF Parts, PartTables, Block, Mute
<1>6. ASSUME NEW v, new = Write(Block, v) PROVE Stored' = [Stored EXCEPT !.block = v]
  <2>1. Stored' = [Stored EXCEPT !["block"] = Stored'["block"]] /\ db'[Block] = v
    BY <1>5, <1>6, RowLands
  <2> QED  BY <2>1 DEF Stored
<1>7. ASSUME NEW v, new = Write(Mute, v) PROVE Stored' = [Stored EXCEPT !.mute = v]
  <2>1. Stored' = [Stored EXCEPT !["mute"] = Stored'["mute"]] /\ db'[Mute] = v
    BY <1>5, <1>7, RowLands
  <2> QED  BY <2>1 DEF Stored
<1>8. Stored.block = db[Block] /\ Stored.mute = db[Mute] /\ None = Contract!None
  BY DEF Stored, None, Contract!None
<1>9. CASE s = "block" /\ DOMAIN new # {}
  <2>1. new = Impose(n, Block).writes
    BY <1>2, <1>9 DEF Result
  <2>2. new = Write(Block, n) /\ db[Block] = None
    BY <1>2, <1>9, <2>1, EmptyWork DEF Impose, PutIf, Sql
  <2>3. Contract!CreateBlock(n)
    BY <1>6, <1>8, <2>2 DEF Contract!CreateBlock
  <2> QED  BY <1>1, <2>3 DEF MeetsContract, Contract!Next
<1>10. CASE s = "mute" /\ DOMAIN new # {}
  <2>1. new = Impose(n, Mute).writes
    BY <1>2, <1>10 DEF Result
  <2>2. new = Write(Mute, n) /\ db[Mute] = None
    BY <1>2, <1>10, <2>1, EmptyWork DEF Impose, PutIf, Sql
  <2>3. Contract!CreateMute(n)
    BY <1>7, <1>8, <2>2 DEF Contract!CreateMute
  <2> QED  BY <1>1, <2>3 DEF MeetsContract, Contract!Next
<1>11. CASE s = "unblock"
  <2>1. new = Write(Block, None)
    BY <1>2, <1>11 DEF Result, Lift, Put, Sql
  <2>2. Contract!RemoveBlock
    BY <1>6, <1>8, <2>1 DEF Contract!RemoveBlock
  <2> QED  BY <2>2 DEF MeetsContract, Contract!Next
<1>12. CASE s = "unmute"
  <2>1. new = Write(Mute, None)
    BY <1>2, <1>12 DEF Result, Lift, Put, Sql
  <2>2. Contract!RemoveMute
    BY <1>7, <1>8, <2>1 DEF Contract!RemoveMute
  <2> QED  BY <2>2 DEF MeetsContract, Contract!Next
<1> QED  BY <1>3, <1>4, <1>9, <1>10, <1>11, <1>12, NothingLands DEF MeetsContract

-----------------------------------------------------------------------------
(* Ids are fresh: the rows that carry the number of a call are there only  *)
(* once that call has written, and only that call puts them there.         *)

OwnWork(w, n) ==
  \A c \in DOMAIN w :
    /\ c[1] \in {"room", "roomMembers", "link"} => c[2] = n
    /\ c[1] = "report" => c[2] \in {0, n}
    /\ c = PairRow => w[c] = n

Owned(k) ==
  \/ db[PairRow] = k \/ db[<<"room", k>>] # FALSE \/ db[<<"link", k>>] # FALSE
  \/ db[Report(k)] # NoReport

OwnInv ==
  /\ \A n \in Calls : Running(n) /\ call[n].tx = 1 => call[n].wrote = FALSE
  /\ \A n \in Calls : OwnWork(call[n].work, n)
  /\ \A k \in Calls : Owned(k) => call[k].wrote = TRUE

LEMMA OwnForms ==
  ASSUME NEW c, NEW v, NEW note, NEW p, NEW n
  PROVE  /\ OwnWork(Select(note).writes, n) /\ OwnWork(Throws.writes, n)
         /\ OwnWork(Write(c, v), n) =>
              OwnWork(Put(c, v, note).writes, n) /\ OwnWork(PutIf(p, c, v, note).writes, n)
<1>1. OwnWork(<<>>, n)
  BY EmptyWork DEF OwnWork
<1> QED  BY <1>1 DEF Select, Sql, Throws, Put, PutIf

LEMMA StatementsOwn ==
  ASSUME NEW t \in Topics, NEW n, NEW s \in StatementsOf(t)
  PROVE  OwnWork(Result(n, s).writes, n)
<1>1. CASE t = "pair"
  <2> USE <1>1 DEF Result
  <2>1. \A v : OwnWork(Write(PairMembers, v), n) /\ OwnWork(Write(PairRow, n), n)
               /\ OwnWork(Write(<<"room", n>>, v), n) /\ OwnWork(Write(<<"roomMembers", n>>, v), n)
    BY DEF OwnWork, Write, PairRow, PairMembers
  <2>2. OwnWork(Result(n, "claimPair").writes, n)
    BY <2>1, OwnForms DEF ClaimPair
  <2>3. OwnWork(Result(n, "joinPair").writes, n)
    BY <2>1, OwnForms DEF JoinPair
  <2>4. OwnWork(Result(n, "answerPair").writes, n)
    BY OwnForms DEF AnswerPair
  <2>5. OwnWork(Result(n, "answerPairById").writes, n)
    BY OwnForms DEF AnswerPairById
  <2>6. OwnWork(Result(n, "insertRoom").writes, n)
    BY <2>1, OwnForms DEF InsertRoom
  <2>7. OwnWork(Result(n, "insertRoomMembers").writes, n)
    BY <2>1, OwnForms DEF InsertRoomMembers
  <2>8. OwnWork(Result(n, "reload").writes, n)
    BY OwnForms DEF Reload
  <2> QED  BY <1>1, <2>2, <2>3, <2>4, <2>5, <2>6, <2>7, <2>8 DEF StatementsOf
<1>2. CASE t = "report"
  <2> USE <1>2 DEF Result
  <2>1. \A v : OwnWork(Write(Report(0), v), n) /\ OwnWork(Write(Report(n), v), n)
    BY DEF OwnWork, Write, Report, PairRow
  <2>2. OwnWork(Result(n, "findReport").writes, n)
    BY OwnForms DEF FindReport
  <2>3. OwnWork(Result(n, "insertReport").writes, n)
    BY <2>1, OwnForms DEF InsertReport
  <2>4. OwnWork(Result(n, "readReport").writes, n)
    BY OwnForms DEF ReadReport
  <2>5. OwnWork(Result(n, "findReviewed").writes, n) /\ OwnWork(Result(n, "readReviewed").writes, n)
    BY OwnForms DEF FindReviewed
  <2>6. OwnWork(Result(n, "review").writes, n)
    BY <2>1, OwnForms DEF Review
  <2> QED  BY <1>2, <2>2, <2>3, <2>4, <2>5, <2>6 DEF StatementsOf
<1>3. CASE t = "invite"
  <2> USE <1>3 DEF Result
  <2>1. \A v : OwnWork(Write(<<"link", n>>, v), n) /\ OwnWork(Write(Uses, v), n) /\ OwnWork(Write(Request, v), n)
    BY DEF OwnWork, Write, Uses, Request, PairRow
  <2>2. OwnWork(Result(n, "insertInvite").writes, n)
    BY <2>1, OwnForms DEF InsertInvite
  <2>3. OwnWork(Result(n, "readInvite").writes, n)
    BY OwnForms
  <2>4. OwnWork(Result(n, "deleteInvite").writes, n)
    BY <2>1, OwnForms DEF DeleteInvite
  <2>5. OwnWork(Result(n, "consume").writes, n)
    BY <2>1, OwnForms DEF Consume
  <2>6. OwnWork(Result(n, "ask").writes, n)
    BY <2>1, OwnForms DEF Ask
  <2>7. OwnWork(Resolve(n).writes, n)
    BY <2>1, OwnForms DEF Resolve
  <2>8. OwnWork(Result(n, "resolve").writes, n) /\ OwnWork(Result(n, "resolveIfAny").writes, n)
    BY <2>7, OwnForms DEF ResolveIfAny
  <2>9. OwnWork(Result(n, "readRequest").writes, n)
    BY OwnForms DEF ReadRequest
  <2> QED  BY <1>3, <2>2, <2>3, <2>4, <2>5, <2>6, <2>8, <2>9 DEF StatementsOf
<1>4. CASE t \notin {"pair", "report", "invite"}
  <2>1. {"pair", "room", "roomMembers", "link", "report"} \intersect TablesOf(t) = {}
    BY <1>4 DEF Topics, TablesOf
  <2> QED  BY <2>1, StatementsWriteWell DEF WritesWell, OwnWork, PairRow
<1> QED  BY <1>1, <1>2, <1>3, <1>4

LEMMA OwnInit == ASSUME SqlInit PROVE OwnInv
<1>1. PICK left \in Left(topic) :
           /\ \A c \in Rows : c \notin DOMAIN left => db[c] = Absent(c[1])
           /\ \A c \in DOMAIN left : db[c] = left[c]
  BY LeftRows
<1>2. \A n \in Calls : ~Running(n) /\ call[n].work = <<>>
  BY DEF SqlInit, NoCall, Running
<1>3. \A c \in DOMAIN left : c[1] \in TablesOf(topic)
  BY LeftTables DEF SqlInit
<1>4. ASSUME NEW k \in Calls PROVE ~Owned(k)
  <2>1. {PairRow, <<"room", k>>, <<"link", k>>, Report(k)} \subseteq Rows /\ k # 0 /\ k # None
    BY SqlAssumption DEF Rows, PairRow, Report, Calls, RowIds, None
  <2>2. db[PairRow] \in {None, 0}
    <3>1. CASE PairRow \notin DOMAIN left
      BY <1>1, <2>1, <3>1 DEF Absent, PairRow
    <3>2. CASE PairRow \in DOMAIN left
      <4>1. topic = "pair"
        BY <1>3, <3>2 DEF SqlInit, PairRow, TablesOf, Topics
      <4>2. left = Over(Write(PairRow, 0), Write(PairMembers, TRUE))
        BY <3>2, <4>1, EmptyWork DEF Left
      <4>3. left[PairRow] = 0
        BY <4>2 DEF Over, Write
      <4> QED  BY <1>1, <3>2, <4>3
    <3> QED  BY <3>1, <3>2
  <2>3. <<"room", k>> \notin DOMAIN left
    <3>1. topic = "pair" => DOMAIN left \subseteq {PairRow, PairMembers}
      BY EmptyWork DEF Left, Over, Write
    <3>2. topic # "pair" => "room" \notin TablesOf(topic)
      BY DEF SqlInit, Topics, TablesOf
    <3> QED  BY <1>3, <3>1, <3>2 DEF PairRow, PairMembers
  <2>4. <<"link", k>> \notin DOMAIN left
    <3>1. topic = "invite" => DOMAIN left \subseteq {Request}
      BY EmptyWork DEF Left, Write
    <3>2. topic # "invite" => "link" \notin TablesOf(topic)
      BY DEF SqlInit, Topics, TablesOf
    <3> QED  BY <1>3, <3>1, <3>2 DEF Request
  <2>5. Report(k) \notin DOMAIN left
    <3>1. topic = "report" => DOMAIN left \subseteq {Report(0)}
      BY EmptyWork DEF Left, Write
    <3>2. topic # "report" => "report" \notin TablesOf(topic)
      BY DEF SqlInit, Topics, TablesOf
    <3> QED  BY <1>3, <2>1, <3>1, <3>2 DEF Report
  <2> QED  BY <1>1, <2>1, <2>2, <2>3, <2>4, <2>5 DEF Owned, Absent, Report
<1>5. \A n \in Calls : OwnWork(call[n].work, n)
  BY <1>2, EmptyWork DEF OwnWork
<1> QED  BY <1>2, <1>4, <1>5 DEF OwnInv

LEMMA WroteStays ==
  ASSUME BaseInv, NEW n \in Calls, Stepped(n), NEW k \in Calls, call[k].wrote = TRUE
  PROVE  call'[k].wrote = TRUE
<1>1. CASE k # n
  BY <1>1, OthersKeep
<1>2. CASE k = n
  <2>1. call[n].phase # "idle"
    BY <1>2 DEF BaseInv, CallOK, NoCall
  <2>2. call'[n].wrote = call[n].wrote \/ \E new, note : Lands(n, new, note)
    BY <2>1, LandingLands DEF Stepped, Started, Opened, Executed, Again, Stopped
  <2>3. ASSUME NEW new, NEW note, Lands(n, new, note) PROVE call'[n].wrote = TRUE
    <3>1. call'[n].wrote = (call[n].wrote \/ DOMAIN new # {})
      BY <2>3 DEF Lands, Landed
    <3>2. (call[n].wrote \/ DOMAIN new # {}) = TRUE
      BY <1>2
    <3> QED  BY <3>1, <3>2
  <2> QED  BY <1>2, <2>2, <2>3
<1> QED  BY <1>1, <1>2

\* A commit that writes a row marks the call.
LEMMA LandingWrites ==
  ASSUME NEW n \in Calls, NEW new, NEW note, Lands(n, new, note), DOMAIN new # {}
  PROVE  call'[n].wrote = TRUE
<1>1. call'[n].wrote = (call[n].wrote \/ DOMAIN new # {})
  BY DEF Lands, Landed
<1>2. (call[n].wrote \/ DOMAIN new # {}) = TRUE
  OBVIOUS
<1> QED  BY <1>1, <1>2

LEMMA OwnStep ==
  ASSUME BaseInv, OwnInv, NEW n \in Calls, Stepped(n) PROVE OwnInv'
<1>1. \A m \in Calls \ {n} : call'[m] = call[m]
  BY OthersKeep
<1>2. topic \in Topics /\ CallOK(n)
  BY DEF BaseInv
<1>3. call'[n].phase = "running" /\ call'[n].tx = 1 => call'[n].wrote = FALSE
  BY <1>2 DEF Stepped, Started, Opened, Executed, LandedAlone, LandedWhole, Landed, Again, Stopped,
              OwnInv, CallOK, Running, Runs
<1>4. OwnWork(call'[n].work, n)
  <2>1. CASE call'[n].work = <<>> \/ call'[n].work = call[n].work
    BY <2>1, EmptyWork DEF OwnInv, OwnWork
  <2>2. CASE Executed(n)
    <3>1. OwnWork(Now(n).writes, n)
      BY <1>2, <2>2, RunsWell, StatementsOwn DEF Executed, Runs, Now
    <3>2. call'[n].work = Over(Now(n).writes, call[n].work)
      BY <2>2 DEF Executed
    <3> QED  BY <3>1, <3>2 DEF OwnInv, OwnWork, Over
  <2> QED  BY <2>1, <2>2 DEF Stepped, Started, Opened, LandedAlone, LandedWhole, Landed, Again, Stopped
<1>5. ASSUME NEW k \in Calls, Owned(k)' PROVE call'[k].wrote = TRUE
  <2>1. CASE Owned(k)
    BY <2>1, WroteStays DEF OwnInv
  <2>2. ASSUME NEW new, NEW note, Lands(n, new, note), ~Owned(k) PROVE call'[k].wrote = TRUE
    <3>1. OwnWork(new, n)
      <4>1. CASE Runs(n) /\ new = Now(n).writes
        BY <1>2, <4>1, RunsWell, StatementsOwn DEF Runs, Now
      <4> QED  BY <2>2, <4>1 DEF Lands, OwnInv
    <3>2. {PairRow, <<"room", k>>, <<"link", k>>, Report(k)} \subseteq DOMAIN db /\ k # 0
      BY SqlAssumption DEF BaseInv, Rows, PairRow, Report, Calls, RowIds
    <3>3. /\ \A c \in DOMAIN new : db'[c] = new[c]
          /\ \A c \in DOMAIN db : c \notin DOMAIN new => db'[c] = db[c]
      BY <2>2, Undisturbed
    <3>4. PICK c \in {PairRow, <<"room", k>>, <<"link", k>>, Report(k)} :
            c \in DOMAIN new /\ (c = PairRow => new[c] = k)
      <4>1. \/ db'[PairRow] = k \/ db'[<<"room", k>>] # FALSE \/ db'[<<"link", k>>] # FALSE
            \/ db'[Report(k)] # NoReport
        BY <1>5 DEF Owned
      <4>2. /\ db[PairRow] # k /\ db[<<"room", k>>] = FALSE /\ db[<<"link", k>>] = FALSE
            /\ db[Report(k)] = NoReport
        BY <2>2 DEF Owned
      <4>3. CASE db'[PairRow] = k
        BY <3>2, <3>3, <4>2, <4>3
      <4>4. ASSUME NEW c \in {<<"room", k>>, <<"link", k>>, Report(k)}, c \in DOMAIN new
            PROVE  c # PairRow
        BY <4>4 DEF PairRow, Report
      <4> QED  BY <3>2, <3>3, <4>1, <4>2, <4>3, <4>4
    <3>5. k = n
      BY <3>1, <3>2, <3>4 DEF OwnWork, PairRow, Report
    <3> QED  BY <2>2, <3>4, <3>5, LandingWrites
  <2>3. CASE db' = db
    <3>1. Owned(k)
      BY <1>5, <2>3 DEF Owned
    <3> QED  BY <2>1, <3>1
  <2> QED  BY <2>1, <2>2, <2>3, StepLands
<1> QED  BY <1>1, <1>3, <1>4, <1>5 DEF OwnInv, Running

-----------------------------------------------------------------------------
(* Invites and join requests: every statement commits by itself, and every *)
(* use counted admitted one caller.                                        *)

LEMMA InviteRuns ==
  ASSUME BaseInv, NEW n \in Calls, Running(n), topic = "invite"
  PROVE  /\ AutoCommits(n)
         /\ \/ call[n].op = "invite" /\ call[n].tx = 1 /\ Transaction(n)[1] = "insertInvite"
            \/ call[n].op = "uninvite" /\ Transaction(n)[1] = "deleteInvite"
            \/ call[n].op = "consume" /\ Transaction(n)[1] = "consume" /\ LastTransaction(n)
            \/ call[n].op = "ask" /\ Transaction(n)[1] = "ask"
            \/ /\ call[n].op = "resolve" /\ Transaction(n)[1] \in {"resolve", "resolveIfAny"}
               /\ Arg(n).by \in Moderators /\ Arg(n).status \in {"approved", "denied"}
            \/ /\ call[n].op \in {"invite", "ask", "resolve"}
               /\ Transaction(n)[1] \in {"readInvite", "readRequest"}
<1>1. PICK r \in Requests("invite") : call[n].op = r[1] /\ call[n].arg = r[2]
  BY DEF Running, BaseInv, CallOK, Asked
<1>2. \/ call[n].op \in {"invite", "uninvite", "consume", "ask"}
      \/ call[n].op = "resolve" /\ Arg(n).by \in Moderators /\ Arg(n).status \in {"approved", "denied"}
  BY <1>1 DEF Requests, Inviting, Arg
<1>3. call[n].tx \in 1..Len(Program(n)) /\ backend \in Backends
  BY RunsWell DEF BaseInv
<1>4. CASE call[n].op = "invite"
  <2>1. Program(n) = << <<"insertInvite">> >> \/ Program(n) = << <<"insertInvite">>, <<"readInvite">> >>
    BY <1>3, <1>4, InvitePrograms DEF Program, Backends
  <2> QED  BY <1>3, <1>4, <2>1 DEF Transaction, AutoCommits
<1>5. CASE call[n].op = "uninvite"
  <2>1. Program(n) = << <<"deleteInvite">> >>
    BY <1>3, <1>5, InvitePrograms DEF Program, Backends
  <2> QED  BY <1>3, <1>5, <2>1 DEF Transaction, AutoCommits
<1>6. CASE call[n].op = "consume"
  <2>1. Program(n) = << <<"consume">> >>
    BY <1>3, <1>6, InvitePrograms DEF Program, Backends
  <2>2. call[n].tx = 1 /\ Len(Program(n)) = 1
    BY <1>3, <2>1
  <2> QED  BY <1>6, <2>1, <2>2 DEF Transaction, AutoCommits, LastTransaction
<1>7. CASE call[n].op = "ask"
  <2>1. Program(n) = << <<"ask">> >> \/ Program(n) = << <<"ask">>, <<"readRequest">> >>
    BY <1>3, <1>7, InvitePrograms DEF Program, Backends
  <2> QED  BY <1>3, <1>7, <2>1 DEF Transaction, AutoCommits
<1>8. CASE call[n].op = "resolve"
  <2>1. Program(n) = << <<"resolve">> >> \/ Program(n) = << <<"resolveIfAny">>, <<"readRequest">> >>
    BY <1>3, <1>8, InvitePrograms DEF Program, Backends
  <2> QED  BY <1>2, <1>3, <1>8, <2>1 DEF Transaction, AutoCommits
<1> QED  BY <1>2, <1>4, <1>5, <1>6, <1>7, <1>8

\* What a commit about the invite makes of the count of its uses.
LEMMA UsesLand ==
  ASSUME BaseInv, NEW n \in Calls, NEW new, NEW note, Lands(n, new, note)
  PROVE  \/ /\ call[n].op = "consume" /\ LastTransaction(n)
            /\ db[Uses] \in 0..(MaxUses - 1) /\ db'[Uses] = db[Uses] + 1 /\ note = TRUE
         \/ call[n].op = "consume" /\ db'[Uses] = db[Uses] /\ note = FALSE
         \/ call[n].op # "consume" /\ db'[Uses] \in {db[Uses], None}
<1>1. Running(n) /\ topic \in Topics /\ Uses \in DOMAIN db
  BY DEF Lands, BaseInv, Rows, Uses
<1>2. /\ \A c \in DOMAIN new : db'[c] = new[c] /\ c[1] \in TablesOf(topic)
      /\ \A c \in DOMAIN db : c \notin DOMAIN new => db'[c] = db[c]
  BY Undisturbed
<1>3. CASE topic # "invite"
  <2>1. "uses" \notin TablesOf(topic) /\ "consume" \notin Operations(topic)
    BY <1>1, <1>3 DEF Topics, TablesOf, Operations
  <2>2. call[n].op \in Operations(topic)
    BY <1>1, OperationOf DEF Running
  <2> QED  BY <1>1, <1>2, <2>1, <2>2 DEF Uses
<1>4. CASE topic = "invite"
  <2> DEFINE s == Statement(n)
  <2>1. /\ AutoCommits(n) /\ s = Transaction(n)[1]
        /\ new = Result(n, s).writes /\ note = Result(n, s).note /\ See(n, Uses) = db[Uses]
    BY <1>1, <1>4, InviteRuns, AloneLands
  <2>2. \/ call[n].op = "consume" /\ s = "consume" /\ LastTransaction(n)
        \/ call[n].op # "consume" /\ s \in {"insertInvite", "deleteInvite", "ask", "resolve",
                                            "resolveIfAny", "readInvite", "readRequest"}
    BY <1>1, <1>4, <2>1, InviteRuns
  <2> HIDE DEF s
  <2>3. CASE s = "consume"
    <3>1. new = Consume(n).writes /\ note = Consume(n).note
      BY <2>1, <2>3 DEF Result
    <3>2. CASE db[Uses] \in 0..(MaxUses - 1)
      <4>1. new = Write(Uses, db[Uses] + 1) /\ note = TRUE
        BY <2>1, <3>1, <3>2 DEF Consume, PutIf, Sql
      <4>2. DOMAIN new = {Uses} /\ new[Uses] = db[Uses] + 1
        BY <4>1 DEF Write
      <4> QED  BY <1>2, <2>2, <2>3, <3>2, <4>1, <4>2
    <3>3. CASE db[Uses] \notin 0..(MaxUses - 1)
      <4>2. (db[Uses] \in 0..MaxUses - 1) = FALSE
        BY <3>3
      <4>3. Consume(n) = PutIf(FALSE, Uses, db[Uses] + 1, FALSE)
        BY <2>1, <4>2 DEF Consume
      <4>1. new = <<>> /\ note = FALSE
        BY <3>1, <4>3 DEF PutIf, Sql
      <4> QED  BY <1>1, <1>2, <2>2, <2>3, <4>1, EmptyWork
    <3> QED  BY <3>2, <3>3
  <2>4. CASE s = "deleteInvite"
    <3>1. new = Write(Uses, None)
      BY <2>1, <2>4 DEF Result, DeleteInvite, Put, Sql
    <3>2. DOMAIN new = {Uses} /\ new[Uses] = None
      BY <3>1 DEF Write
    <3> QED  BY <1>2, <2>2, <2>4, <3>2
  <2>5. CASE s \in {"insertInvite", "ask", "resolve", "resolveIfAny", "readInvite", "readRequest"}
    <3>1. PICK c \in {<<"link", n>>, Request} : (\E v : new = Write(c, v)) \/ new = <<>>
      BY <2>1, <2>5 DEF Result, InsertInvite, Ask, Resolve, ResolveIfAny, ReadRequest, Put, Select, Sql, Throws
    <3>2. Uses \notin DOMAIN new
      BY <3>1, EmptyWork DEF Write, Uses, Request
    <3> QED  BY <1>1, <1>2, <2>2, <2>5, <3>2
  <2> QED  BY <2>2, <2>3, <2>4, <2>5
<1> QED  BY <1>3, <1>4

Redeemed == {n \in Answered("consume") : Note(n)}

InviteInv ==
  /\ Cardinality(Redeemed) \leq MaxUses
  /\ db[Uses] = None \/ db[Uses] = Cardinality(Redeemed)

LEMMA InviteInit == ASSUME SqlInit PROVE InviteInv
<1>1. PICK left \in Left(topic) :
           /\ \A c \in Rows : c \notin DOMAIN left => db[c] = Absent(c[1])
           /\ \A c \in DOMAIN left : db[c] = left[c]
  BY LeftRows
<1>2. \A c \in DOMAIN left : c[1] \in TablesOf(topic)
  BY LeftTables DEF SqlInit
<1>3. Redeemed = {}
  BY DEF SqlInit, Redeemed, Answered, NoCall
<1>4. Cardinality(Redeemed) = 0
  BY <1>3, FS_EmptySet
<1>5. Uses \notin DOMAIN left
  <2>1. topic = "invite" => DOMAIN left \subseteq {Request}
    BY EmptyWork DEF Left, Write
  <2>2. topic # "invite" => "uses" \notin TablesOf(topic)
    BY DEF SqlInit, Topics, TablesOf
  <2> QED  BY <1>2, <2>1, <2>2 DEF Request, Uses
<1>6. db[Uses] = 0
  BY <1>1, <1>5 DEF Rows, Uses, Absent
<1> QED  BY <1>4, <1>6, SqlAssumption DEF InviteInv

LEMMA InviteStep ==
  ASSUME BaseInv, InviteInv, NEW n \in Calls, Stepped(n) PROVE InviteInv'
<1>1. /\ \A m \in Answered("consume") \ {n} : m \in Answered("consume")' /\ Note(m)' = Note(m)
      /\ \A m \in Answered("consume")' : m # n => m \in Answered("consume")
      /\ n \notin Answered("consume")
      /\ n \in Answered("consume")' =>
           \E new, note : Lands(n, new, note) /\ call[n].op = "consume" /\ Note(n)' = note
  BY AnsweredMoves
<1>2. IsFiniteSet(Redeemed) /\ Cardinality(Redeemed) \in Nat
  <2>1. IsFiniteSet(Calls)
    BY FS_Interval, SqlAssumption DEF Calls
  <2>2. Redeemed \subseteq Calls
    BY DEF Redeemed, Answered
  <2> QED  BY <2>1, <2>2, FS_Subset, FS_CardinalityType
<1>3. \A m \in Calls \ {n} : m \in Redeemed' <=> m \in Redeemed
  BY <1>1 DEF Redeemed
<1>4. n \notin Redeemed
  BY <1>1 DEF Redeemed
<1>5. Redeemed \subseteq Calls /\ Redeemed' \subseteq Calls
  BY DEF Redeemed, Answered
<1>6. CASE n \in Redeemed'
  <2>1. PICK new, note : Lands(n, new, note) /\ call[n].op = "consume" /\ Note(n)' = note
    BY <1>1, <1>6 DEF Redeemed
  <2>2. note # FALSE
    BY <1>6, <2>1 DEF Redeemed
  <2>3. db[Uses] \in 0..(MaxUses - 1) /\ db'[Uses] = db[Uses] + 1
    BY <2>1, <2>2, UsesLand
  <2>4. Redeemed' = Redeemed \union {n}
    BY <1>3, <1>5, <1>6
  <2>5. Cardinality(Redeemed') = Cardinality(Redeemed) + 1
    BY <1>2, <1>4, <2>4, FS_AddElement
  <2> QED  BY <1>2, <2>3, <2>5, SqlAssumption DEF InviteInv, None
<1>7. CASE n \notin Redeemed'
  <2>1. Redeemed' = Redeemed
    BY <1>3, <1>4, <1>5, <1>7
  <2>2. ASSUME NEW new, NEW note, Lands(n, new, note) PROVE db'[Uses] \in {db[Uses], None}
    <3>1. CASE call[n].op = "consume" /\ note = TRUE
      <4>1. LastTransaction(n)
        BY <2>2, <3>1, UsesLand
      <4>2. n \in Answered("consume")' /\ Note(n)' = note
        BY <2>2, <3>1, <4>1 DEF Lands, Landed, Identity, Answered, Note
      <4> QED  BY <1>7, <3>1, <4>2 DEF Redeemed
    <3> QED  BY <2>2, <3>1, UsesLand
  <2>3. db'[Uses] \in {db[Uses], None}
    BY <2>2, StepLands
  <2> QED  BY <2>1, <2>3 DEF InviteInv
<1> QED  BY <1>6, <1>7

BansOwned ==
  <<backend, topic>> \notin Exempt =>
    \A k \in Calls : db[Ban(k)] # NoBan => call[k].wrote = TRUE

LEMMA IdsAreFresh ==
  ASSUME BaseInv, OwnInv, BansOwned, NEW n \in Calls, call[n].wrote = FALSE, <<backend, topic>> \notin Exempt
  PROVE  Contract!Fresh(n) /\ n \in RowIds
<1>1. ~Owned(n) /\ db[Ban(n)] = NoBan
  BY DEF OwnInv, BansOwned
<1>2. n # Stored.pair.id
  BY <1>1 DEF Stored, Owned
<1>3. n \notin DOMAIN Stored.rooms
  BY <1>1 DEF Stored, Owned, Present
<1>4. n \notin DOMAIN Stored.bans
  BY <1>1 DEF Stored
<1>5. n \notin DOMAIN Stored.reports
  BY <1>1 DEF Stored, Owned
<1>6. n \notin Stored.links
  BY <1>1 DEF Stored, Owned
<1>7. n \in RowIds
  BY SqlAssumption DEF Calls, RowIds
<1> QED  BY <1>2, <1>3, <1>4, <1>5, <1>6, <1>7 DEF Contract!Fresh

LEMMA InviteKeeps ==
  ASSUME BaseInv, MessageInv, OwnInv, BansOwned,
         NEW n \in Calls, NEW new, NEW note, Lands(n, new, note), topic = "invite"
  PROVE  MeetsContract
<1>1. Running(n) /\ AutoCommits(n)
  BY InviteRuns DEF Lands
<1> DEFINE s == Statement(n)
<1>2. new = Result(n, s).writes /\ s = Transaction(n)[1] /\ ~Result(n, s).throws /\ \A c : See(n, c) = db[c]
  BY <1>1, AloneLands
<1>3. \/ s = "insertInvite" /\ call[n].tx = 1
      \/ s \in {"deleteInvite", "consume", "ask"}
      \/ /\ s \in {"resolve", "resolveIfAny"}
         /\ Arg(n).by \in Moderators /\ Arg(n).status \in {"approved", "denied"}
      \/ s \in {"readInvite", "readRequest"}
  BY <1>1, <1>2, InviteRuns
<1> HIDE DEF s
<1>4. /\ \A g \in Parts \ {"links"} : <<"link", n>>[1] \notin PartTables(g)
      /\ \A g \in Parts \ {"uses"} : Uses[1] \notin PartTables(g)
      /\ \A g \in Parts \ {"request"} : Request[1] \notin PartTables(g)
      /\ {"links", "uses", "request"} \subseteq Parts
  BY DEF Parts, PartTables, Uses, Request
<1>5. ASSUME NEW v, new = Write(Uses, v) PROVE Stored' = [Stored EXCEPT !.uses = v]
  <2>1. Stored' = [Stored EXCEPT !["uses"] = Stored'["uses"]] /\ db'[Uses] = v
    BY <1>4, <1>5, RowLands
  <2> QED  BY <2>1 DEF Stored
<1>6. ASSUME NEW v, new = Write(Request, v) PROVE Stored' = [Stored EXCEPT !.request = v]
  <2>1. Stored' = [Stored EXCEPT !["request"] = Stored'["request"]] /\ db'[Request] = v
    BY <1>4, <1>6, RowLands
  <2> QED  BY <2>1 DEF Stored
<1>7. Stored.uses = db[Uses] /\ Stored.request = db[Request] /\ None = Contract!None /\ Nobody = Contract!Nobody
  BY DEF Stored, None, Contract!None, Nobody, Contract!Nobody
<1>8. CASE s = "insertInvite"
  <2>1. new = Write(<<"link", n>>, TRUE)
    BY <1>2, <1>8 DEF Result, InsertInvite, Put, Sql
  <2>2. /\ Stored' = [Stored EXCEPT !["links"] = Stored'["links"]]
        /\ db'[<<"link", n>>] = TRUE /\ \A x \in DOMAIN db : x # <<"link", n>> => db'[x] = db[x]
    <3>1. PICK c, v : c = <<"link", n>> /\ v = TRUE
      OBVIOUS
    <3>2. new = Write(c, v) /\ \A g \in Parts \ {"links"} : c[1] \notin PartTables(g)
      BY <1>4, <2>1, <3>1
    <3>3. /\ Stored' = [Stored EXCEPT !["links"] = Stored'["links"]]
          /\ db'[c] = v /\ \A x \in DOMAIN db : x # c => db'[x] = db[x]
      BY <1>4, <3>2, RowLands
    <3> QED  BY <3>1, <3>3
  <2>3. \A k \in Calls \ {n} : db'[<<"link", k>>] = db[<<"link", k>>]
    BY <2>2 DEF BaseInv, Rows
  <2>4. Stored.links = {k \in Calls : db[<<"link", k>>]} /\ Stored'["links"] = {k \in Calls : db'[<<"link", k>>]}
    BY DEF Stored
  <2>5. Stored'["links"] = Stored.links \union {n}
    BY <2>2, <2>3, <2>4
  <2>6. <<backend, topic>> \notin Exempt /\ call[n].wrote = FALSE
    BY <1>1, <1>3, <1>8 DEF Exempt, OwnInv
  <2>7. n \in RowIds /\ Contract!CreateInvite(n)
    BY <2>2, <2>5, <2>6, IdsAreFresh DEF Contract!CreateInvite
  <2> QED  BY <2>7 DEF MeetsContract, Contract!Next
<1>9. CASE s = "deleteInvite"
  <2>1. new = Write(Uses, None)
    BY <1>2, <1>9 DEF Result, DeleteInvite, Put, Sql
  <2>2. Contract!DeleteInvite
    BY <1>5, <1>7, <2>1 DEF Contract!DeleteInvite
  <2> QED  BY <2>2 DEF MeetsContract, Contract!Next
<1>10. CASE s = "consume" /\ DOMAIN new # {}
  <2>1. new = Consume(n).writes
    BY <1>2, <1>10 DEF Result
  <2>2. db[Uses] \in 0..MaxUses - 1 /\ new = Write(Uses, db[Uses] + 1)
    BY <1>2, <1>10, <2>1, EmptyWork DEF Consume, PutIf, Sql
  <2>3. db[Uses] # None /\ db[Uses] < MaxUses
    BY <2>2, SqlAssumption DEF None
  <2>4. Contract!ConsumeInvite
    BY <1>5, <1>7, <2>2, <2>3 DEF Contract!ConsumeInvite
  <2> QED  BY <2>4 DEF MeetsContract, Contract!Next
<1>11. CASE s = "ask"
  <2>1. new = Write(Request, [status |-> "pending", by |-> Nobody])
    BY <1>2, <1>11 DEF Result, Ask, Put, Sql
  <2>2. Contract!CreateJoinRequest
    BY <1>6, <1>7, <2>1 DEF Contract!CreateJoinRequest
  <2> QED  BY <2>2 DEF MeetsContract, Contract!Next
<1>12. CASE s \in {"resolve", "resolveIfAny"} /\ DOMAIN new # {}
  <2>1. new = Resolve(n).writes
    BY <1>2, <1>12, EmptyWork DEF Result, ResolveIfAny, Select, Sql
  <2>2. db[Request].status # "none" /\ new = Write(Request, [status |-> Arg(n).status, by |-> Arg(n).by])
    BY <1>2, <1>12, <2>1, EmptyWork DEF Resolve, Put, Sql, Throws
  <2>3. Contract!ResolveJoinRequest(Arg(n).status, Arg(n).by)
    BY <1>6, <1>7, <2>2 DEF Contract!ResolveJoinRequest
  <2> QED  BY <1>3, <1>12, <2>3 DEF MeetsContract, Contract!Next
<1>13. CASE s \in {"readInvite", "readRequest"}
  <2>1. Result(n, s) = Select("ok")
    BY <1>2, <1>13 DEF Result, ReadRequest, Throws
  <2> QED  BY <1>2, <2>1, SelectLands
<1> QED  BY <1>3, <1>8, <1>9, <1>10, <1>11, <1>12, <1>13, NothingLands

-----------------------------------------------------------------------------
(* Reports: every statement commits by itself, a report that is there      *)
(* stays, and one made after another was answered finds the open one.      *)

Reported(i) == i \in RowIds /\ db[Report(i)] # NoReport
NoReviews == \A k \in Calls : call[k].op # "review"
Reminded(n) == Answered("report") \intersect call[n].heard # {}

ReportOK(n) ==
  /\ \A m \in call[n].heard : m \in Calls /\ Ended(m)
  /\ call[n].op = "report" =>
       /\ Running(n) /\ call[n].tx = 2 => call[n].wrote = FALSE /\ (Note(n) = None \/ Reported(Note(n)))
       /\ (Running(n) /\ call[n].tx = 3) \/ call[n].phase = "done" => Reported(Note(n))
       /\ (Running(n) /\ call[n].tx # 1) \/ call[n].phase = "done" =>
            (NoReviews /\ Reminded(n) => Reported(Note(n)) /\ Note(n) # n)
  /\ call[n].op = "review" /\ Running(n) /\ call[n].tx # 1 => Reported(0)

ReportInv ==
  /\ \A n \in Calls : ReportOK(n)
  /\ NoReviews => \A i \in RowIds : Reported(i) => IsOpen(db[Report(i)])

LEMMA ReportRuns ==
  ASSUME BaseInv, NEW n \in Calls, Running(n), topic = "report"
  PROVE  /\ AutoCommits(n) /\ call[n].tx \in {1, 2, 3}
         /\ \/ /\ call[n].op = "report"
               /\ call[n].tx = 1 => Transaction(n)[1] = "findReport" /\ ~LastTransaction(n)
               /\ call[n].tx = 2 => Transaction(n)[1] = "insertReport"
               /\ call[n].tx = 3 => Transaction(n)[1] = "readReport" /\ LastTransaction(n)
            \/ /\ call[n].op = "review"
               /\ Arg(n).by \in Moderators /\ Arg(n).status \in {"triaged", "resolved"}
               /\ call[n].tx = 1 => Transaction(n)[1] = "findReviewed"
               /\ call[n].tx = 2 => Transaction(n)[1] = "review"
               /\ call[n].tx = 3 => Transaction(n)[1] = "readReviewed"
<1>1. PICK r \in Requests("report") : call[n].op = r[1] /\ call[n].arg = r[2]
  BY DEF Running, BaseInv, CallOK, Asked
<1>2. \/ call[n].op = "report"
      \/ call[n].op = "review" /\ Arg(n).by \in Moderators /\ Arg(n).status \in {"triaged", "resolved"}
  BY <1>1 DEF Requests, Reporting, Arg
<1>3. call[n].tx \in 1..Len(Program(n)) /\ backend \in Backends
  BY RunsWell DEF BaseInv
<1>4. CASE call[n].op = "report" /\ backend \in {"prisma", "supabase"}
  <2>1. Program(n) = << <<"findReport">>, <<"insertReport">> >>
    BY <1>3, <1>4, ReportPrograms DEF Program, Backends
  <2>2. Len(Program(n)) = 2 /\ call[n].tx \in {1, 2}
    BY <1>3, <2>1
  <2> QED  BY <1>4, <2>1, <2>2 DEF Transaction, AutoCommits, LastTransaction
<1>5. CASE call[n].op = "report" /\ backend \notin {"prisma", "supabase"}
  <2>1. Program(n) = << <<"findReport">>, <<"insertReport">>, <<"readReport">> >>
    BY <1>3, <1>5, ReportPrograms DEF Program, Backends
  <2>2. Len(Program(n)) = 3 /\ call[n].tx \in {1, 2, 3}
    BY <1>3, <2>1
  <2> QED  BY <1>5, <2>1, <2>2 DEF Transaction, AutoCommits, LastTransaction
<1>6. CASE call[n].op = "review"
  <2>1. \/ Program(n) = << <<"findReviewed">>, <<"review">> >>
        \/ Program(n) = << <<"findReviewed">>, <<"review">>, <<"readReviewed">> >>
    BY <1>3, <1>6, ReportPrograms DEF Program, Backends
  <2>2. call[n].tx \in {1, 2, 3}
    <3>1. CASE Program(n) = << <<"findReviewed">>, <<"review">> >>
      <4>1. Len(Program(n)) = 2
        BY <3>1
      <4> QED  BY <1>3, <4>1
    <3>2. CASE Program(n) = << <<"findReviewed">>, <<"review">>, <<"readReviewed">> >>
      <4>1. Len(Program(n)) = 3
        BY <3>2
      <4> QED  BY <1>3, <4>1
    <3> QED  BY <2>1, <3>1, <3>2
  <2> QED  BY <1>2, <1>3, <1>6, <2>1, <2>2 DEF Transaction, AutoCommits
<1> QED  BY <1>2, <1>4, <1>5, <1>6

SameReports == \A i \in RowIds : db'[Report(i)] = db[Report(i)]

LEMMA ReportsLand ==
  ASSUME BaseInv, NEW n \in Calls, NEW new, NEW note, Lands(n, new, note)
  PROVE  /\ call[n].op = "report" /\ call[n].tx = 1 =>
              /\ SameReports /\ DOMAIN new = {} /\ ~LastTransaction(n)
              /\ \/ note = None /\ \A i \in RowIds : ~IsOpen(db[Report(i)])
                 \/ note \in RowIds /\ IsOpen(db[Report(note)])
         /\ call[n].op = "report" /\ call[n].tx = 2 /\ Note(n) = None =>
              note = n /\ new = Write(Report(n), [status |-> "open", by |-> Nobody])
         /\ call[n].op = "report" /\ call[n].tx = 2 /\ Note(n) # None =>
              note = Note(n) /\ SameReports /\ DOMAIN new = {}
         /\ call[n].op = "report" /\ call[n].tx = 3 =>
              note = Note(n) /\ SameReports /\ DOMAIN new = {} /\ LastTransaction(n)
         /\ call[n].op = "review" /\ call[n].tx \in {1, 3} => SameReports /\ DOMAIN new = {} /\ Reported(0)
         /\ call[n].op = "review" /\ call[n].tx = 2 =>
              /\ Arg(n).by \in Moderators /\ Arg(n).status \in {"triaged", "resolved"}
              /\ new = Write(Report(0), [status |-> Arg(n).status, by |-> Arg(n).by])
         /\ call[n].op \notin {"report", "review"} => SameReports
         /\ call[n].op \in {"report", "review"} => topic = "report" /\ call[n].tx \in {1, 2, 3}
<1>1. Running(n) /\ topic \in Topics /\ \A i \in RowIds : Report(i) \in DOMAIN db
  BY DEF Lands, BaseInv, Rows, Report
<1>2. /\ \A c \in DOMAIN new : db'[c] = new[c] /\ c[1] \in TablesOf(topic)
      /\ \A c \in DOMAIN db : c \notin DOMAIN new => db'[c] = db[c]
  BY Undisturbed
<1>3. CASE topic # "report"
  <2>1. "report" \notin TablesOf(topic) /\ {"report", "review"} \intersect Operations(topic) = {}
    BY <1>1, <1>3 DEF Topics, TablesOf, Operations
  <2>2. call[n].op \in Operations(topic)
    BY <1>1, OperationOf DEF Running
  <2>3. SameReports
    BY <1>1, <1>2, <2>1 DEF Report, SameReports
  <2> QED  BY <1>3, <2>1, <2>2, <2>3
<1>4. DOMAIN new = {} => SameReports
  BY <1>1, <1>2 DEF SameReports
<1>5. CASE topic = "report"
  <2> DEFINE s == Statement(n)
  <2>1. /\ AutoCommits(n) /\ s = Transaction(n)[1] /\ \A c : See(n, c) = db[c]
        /\ new = Result(n, s).writes /\ note = Result(n, s).note /\ ~Result(n, s).throws
    BY <1>1, <1>5, ReportRuns, AloneLands
  <2>2. /\ call[n].tx \in {1, 2, 3}
        /\ \/ /\ call[n].op = "report"
              /\ call[n].tx = 1 => s = "findReport" /\ ~LastTransaction(n)
              /\ call[n].tx = 2 => s = "insertReport"
              /\ call[n].tx = 3 => s = "readReport" /\ LastTransaction(n)
           \/ /\ call[n].op = "review"
              /\ Arg(n).by \in Moderators /\ Arg(n).status \in {"triaged", "resolved"}
              /\ call[n].tx = 1 => s = "findReviewed"
              /\ call[n].tx = 2 => s = "review"
              /\ call[n].tx = 3 => s = "readReviewed"
    BY <1>1, <1>5, <2>1, ReportRuns
  <2> HIDE DEF s
  <2>3. CASE call[n].op = "report" /\ call[n].tx = 1
    <3>1. new = FindReport(n).writes /\ note = FindReport(n).note
      BY <2>1, <2>2, <2>3 DEF Result
    <3>2. DOMAIN new = {} /\ note = IF OpenReports(n) = {} THEN None ELSE CHOOSE i \in OpenReports(n) : TRUE
      BY <3>1, EmptyWork DEF FindReport, Select, Sql
    <3>3. OpenReports(n) = {i \in RowIds : IsOpen(db[Report(i)])}
      BY <2>1 DEF OpenReports
    <3>4. \/ note = None /\ \A i \in RowIds : ~IsOpen(db[Report(i)])
          \/ note \in RowIds /\ IsOpen(db[Report(note)])
      BY <3>2, <3>3
    <3> QED  BY <1>5, <1>4, <2>2, <2>3, <3>2, <3>4
  <2>4. CASE call[n].op = "report" /\ call[n].tx = 2
    <3>1. new = InsertReport(n).writes /\ note = InsertReport(n).note
      BY <2>1, <2>2, <2>4 DEF Result
    <3>2. CASE Note(n) = None
      <4>1. new = Write(Report(n), [status |-> "open", by |-> Nobody]) /\ note = n
        BY <3>1, <3>2 DEF InsertReport, PutIf, Sql
      <4> QED  BY <1>5, <2>4, <3>2, <4>1
    <3>3. CASE Note(n) # None
      <4>1. DOMAIN new = {} /\ note = Note(n)
        BY <3>1, <3>3, EmptyWork DEF InsertReport, PutIf, Sql
      <4> QED  BY <1>5, <1>4, <2>4, <3>3, <4>1
    <3> QED  BY <3>2, <3>3
  <2>5. CASE call[n].op = "report" /\ call[n].tx = 3
    <3>1. new = ReadReport(n).writes /\ note = ReadReport(n).note /\ ~ReadReport(n).throws
      BY <2>1, <2>2, <2>5 DEF Result
    <3>2. DOMAIN new = {} /\ note = Note(n)
      BY <3>1, EmptyWork DEF ReadReport, Select, Sql, Throws
    <3> QED  BY <1>5, <1>4, <2>2, <2>5, <3>2
  <2>6. CASE call[n].op = "review" /\ call[n].tx \in {1, 3}
    <3>1. new = FindReviewed(n).writes /\ ~FindReviewed(n).throws
      BY <2>1, <2>2, <2>6 DEF Result
    <3>2. DOMAIN new = {} /\ db[Report(0)] # NoReport
      BY <2>1, <3>1, EmptyWork DEF FindReviewed, Select, Sql, Throws
    <3>3. 0 \in RowIds
      BY SqlAssumption DEF RowIds
    <3> QED  BY <1>5, <1>4, <2>2, <2>6, <3>2, <3>3 DEF Reported
  <2>7. CASE call[n].op = "review" /\ call[n].tx = 2
    <3>1. new = Write(Report(0), [status |-> Arg(n).status, by |-> Arg(n).by])
      BY <2>1, <2>2, <2>7 DEF Result, Review, Put, Sql
    <3> QED  BY <1>5, <2>2, <2>7, <3>1
  <2> QED  BY <2>2, <2>3, <2>4, <2>5, <2>6, <2>7
<1> QED  BY <1>3, <1>5

LEMMA ReportsStay ==
  ASSUME BaseInv, NEW n \in Calls, Stepped(n), NEW i, Reported(i) PROVE Reported(i)'
<1>1. CASE db' = db
  BY <1>1 DEF Reported
<1>2. ASSUME NEW new, NEW note, Lands(n, new, note) PROVE Reported(i)'
  <2>1. Report(i) \in DOMAIN db /\ i \in RowIds
    BY DEF BaseInv, Rows, Report, Reported
  <2>2. /\ \A c \in DOMAIN new : db'[c] = new[c]
        /\ \A c \in DOMAIN db : c \notin DOMAIN new => db'[c] = db[c]
    BY <1>2, Undisturbed
  <2>3. CASE db'[Report(i)] = db[Report(i)]
    BY <2>3 DEF Reported
  <2>4. CASE new = Write(Report(n), [status |-> "open", by |-> Nobody])
    <3>1. DOMAIN new = {Report(n)} /\ new[Report(n)] # NoReport
      BY <2>4 DEF Write, NoReport
    <3> QED  BY <2>1, <2>2, <3>1 DEF Reported
  <2>5. CASE /\ Arg(n).status \in {"triaged", "resolved"}
             /\ new = Write(Report(0), [status |-> Arg(n).status, by |-> Arg(n).by])
    <3>1. DOMAIN new = {Report(0)} /\ new[Report(0)] # NoReport
      BY <2>5 DEF Write, NoReport
    <3> QED  BY <2>1, <2>2, <3>1 DEF Reported
  <2> QED  BY <1>2, <2>1, <2>3, <2>4, <2>5, ReportsLand DEF SameReports
<1> QED  BY <1>1, <1>2, StepLands

LEMMA ReportInit == ASSUME SqlInit PROVE ReportInv
<1>1. PICK left \in Left(topic) :
           /\ \A c \in Rows : c \notin DOMAIN left => db[c] = Absent(c[1])
           /\ \A c \in DOMAIN left : db[c] = left[c]
  BY LeftRows
<1>2. \A n \in Calls : call[n] = NoCall
  BY DEF SqlInit
<1>3. \A n \in Calls : ReportOK(n)
  BY <1>2 DEF ReportOK, NoCall
<1>4. ASSUME NEW i \in RowIds, Reported(i) PROVE IsOpen(db[Report(i)])
  <2>1. Report(i) \in DOMAIN left
    BY <1>1, <1>4 DEF Rows, Report, Reported, Absent
  <2>2. topic = "report"
    BY <2>1, LeftTables DEF SqlInit, Topics, TablesOf, Report
  <2>3. left = Write(Report(0), [status |-> "open", by |-> Nobody])
    BY <2>1, <2>2, EmptyWork DEF Left
  <2>4. left[Report(i)] = [status |-> "open", by |-> Nobody]
    BY <2>1, <2>3 DEF Write
  <2> QED  BY <1>1, <2>1, <2>4 DEF IsOpen
<1> QED  BY <1>3, <1>4 DEF ReportInv

\* What a call heard of does not change while it runs.
LEMMA HeardStays ==
  ASSUME BaseInv, ReportInv, NEW n \in Calls, Stepped(n)
  PROVE  /\ NoReviews' => NoReviews
         /\ \A m \in Calls : (m # n \/ call[m].phase # "idle") =>
              /\ call'[m].heard = call[m].heard /\ (Reminded(m)' => Reminded(m))
         /\ \A m \in Calls : Ended(m) => Ended(m)'
<1>1. /\ \A m \in Calls \ {n} : call'[m] = call[m]
      /\ ~Ended(n)
  BY OthersKeep DEF Stepped, Started, Opened, Executed, LandedAlone, LandedWhole, Again, Stopped, Running, Runs, Ended
<1>2. call[n].op = "none" \/ Identity(n)
  BY IdleIsNone DEF Stepped, Started, Opened, Executed, LandedAlone, LandedWhole, Landed, Again, Stopped
<1>3. NoReviews' => NoReviews
  BY <1>1, <1>2 DEF NoReviews, Identity
<1>4. \A m \in Calls : Ended(m) => Ended(m)'
  BY <1>1 DEF Ended
<1>5. ASSUME NEW m \in Calls, m # n \/ call[m].phase # "idle"
      PROVE  call'[m].heard = call[m].heard /\ (Reminded(m)' => Reminded(m))
  <2>1. call'[m].heard = call[m].heard
    BY <1>1, <1>5 DEF Stepped, Started, Opened, Executed, LandedAlone, LandedWhole, Landed, Again, Stopped, Identity
  <2>2. \A k \in call[m].heard : k \in Calls \ {n}
    BY <1>1 DEF ReportInv, ReportOK
  <2>3. \A k \in Answered("report")' : k # n => k \in Answered("report")
    BY <1>1 DEF Answered
  <2> QED  BY <2>1, <2>2, <2>3 DEF Reminded
<1> QED  BY <1>3, <1>4, <1>5

LEMMA ReportStays ==
  ASSUME BaseInv, ReportInv, NEW n \in Calls, Stepped(n), NEW m \in Calls \ {n}
  PROVE  ReportOK(m)'
<1>1. call'[m] = call[m] /\ ReportOK(m)
  BY OthersKeep DEF ReportInv
<1>2. (NoReviews' => NoReviews) /\ (Reminded(m)' => Reminded(m)) /\ \A k \in Calls : Ended(k) => Ended(k)'
  BY HeardStays
<1>3. \A i : Reported(i) => Reported(i)'
  BY ReportsStay
<1>4. Reported(Note(m)) => Reported(Note(m))'
  BY <1>1, <1>3 DEF Note, Reported
<1>5. Reported(0) => Reported(0)'
  BY <1>3
<1> QED  BY <1>1, <1>2, <1>4, <1>5 DEF ReportOK, Running, Note

LEMMA ReportMoves ==
  ASSUME BaseInv, OwnInv, ReportInv, NEW n \in Calls, Stepped(n) PROVE ReportOK(n)'
<1>1. CASE \E r \in Requests(topic) : Started(n, r)
  <2>1. /\ call'[n].tx = 1 /\ call'[n].phase = "running" /\ call'[n].heard = {m \in Calls : Ended(m)}
    BY <1>1 DEF Started
  <2>2. \A m \in Calls : Ended(m) => Ended(m)'
    BY HeardStays
  <2> QED  BY <2>1, <2>2 DEF ReportOK, Running
<1> SUFFICES ASSUME ~\E r \in Requests(topic) : Started(n, r) PROVE ReportOK(n)'
  BY <1>1
<1>2. Running(n) /\ Identity(n) /\ call[n].phase # "idle"
  BY DEF Stepped, Opened, Executed, LandedAlone, LandedWhole, Landed, Again, Stopped, Runs, Running
<1>3. /\ NoReviews' => NoReviews
      /\ Reminded(n)' => Reminded(n)
      /\ \A m \in call'[n].heard : m \in Calls /\ Ended(m)'
  BY <1>2, HeardStays DEF ReportInv, ReportOK
<1>4. CASE call[n].op \notin {"report", "review"}
  BY <1>2, <1>3, <1>4 DEF ReportOK, Identity
<1>5. CASE call[n].op \in {"report", "review"}
  <2>1. topic = "report"
    BY <1>5, TopicIs DEF Topics, Operations
  <2>2. AutoCommits(n) /\ call[n].base = <<>> /\ ~AllRun(n)
    <3>1. AutoCommits(n)
      BY <1>2, <2>1, ReportRuns
    <3>2. call[n].st = 1
      BY <1>2, <3>1 DEF BaseInv, CallOK
    <3> QED  BY <1>2, <3>1, <3>2 DEF AutoCommits, AllRun, BaseInv, CallOK
  <2>3. ~Opened(n) /\ ~Executed(n) /\ ~Again(n)
    BY <1>2, <1>5, <2>2, RunsWell DEF Opened, Executed, Again, Serializable, Restarted
  <2>4. CASE Stopped(n)
    BY <1>2, <1>3, <2>4 DEF Stopped, ReportOK, Identity, Running
  <2>5. ASSUME NEW new, NEW note, Lands(n, new, note) PROVE ReportOK(n)'
    <3>1. /\ call'[n].op = call[n].op /\ Note(n)' = note
          /\ call'[n].wrote = (call[n].wrote \/ DOMAIN new # {})
          /\ LastTransaction(n) => call'[n].phase = "done" /\ call'[n].tx = 1
          /\ ~LastTransaction(n) => call'[n].phase = "running" /\ call'[n].tx = call[n].tx + 1
      BY <2>5 DEF Lands, Landed, Identity, Note
    <3>2. ReportOK(n) /\ \A i : Reported(i) => Reported(i)'
      BY ReportsStay DEF ReportInv
    <3>3. /\ \A c \in DOMAIN new : db'[c] = new[c]
          /\ \A c \in DOMAIN db : c \notin DOMAIN new => db'[c] = db[c]
      BY <2>5, Undisturbed
    <3>4. CASE call[n].op = "report" /\ call[n].tx = 1
      <4>1. /\ DOMAIN new = {} /\ ~LastTransaction(n)
            /\ \/ note = None /\ \A i \in RowIds : ~IsOpen(db[Report(i)])
               \/ note \in RowIds /\ IsOpen(db[Report(note)])
        BY <2>5, <3>4, ReportsLand
      <4>2. call[n].wrote = FALSE
        BY <1>2, <3>4 DEF OwnInv
      <4>3. call'[n].wrote = FALSE
        BY <3>1, <4>1, <4>2
      <4>4. note = None \/ (Reported(note) /\ Reported(note)')
        BY <3>2, <4>1 DEF Reported, IsOpen, NoReport
      <4>5. ASSUME NoReviews, Reminded(n) PROVE Reported(note) /\ note # n
        <5>1. PICK m \in Answered("report") \intersect call[n].heard : TRUE
          BY <4>5 DEF Reminded
        <5>2. Reported(Note(m))
          BY <5>1 DEF ReportInv, ReportOK, Answered
        <5>3. Note(m) \in RowIds /\ IsOpen(db[Report(Note(m))])
          BY <4>5, <5>2 DEF ReportInv, Reported
        <5>4. note \in RowIds /\ IsOpen(db[Report(note)])
          BY <4>1, <5>3
        <5>5. db[Report(n)] = NoReport
          BY <4>2 DEF OwnInv, Owned
        <5> QED  BY <5>4, <5>5 DEF Reported, IsOpen, NoReport
      <4>6. call'[n].phase = "running" /\ call'[n].tx = 2
        BY <3>1, <3>4, <4>1
      <4>7. Note(n)' = None \/ Reported(Note(n))'
        BY <3>1, <4>4 DEF Reported
      <4>8. NoReviews' /\ Reminded(n)' => Reported(Note(n))' /\ Note(n)' # n
        BY <1>3, <3>1, <3>2, <4>5 DEF Reported
      <4> QED  BY <1>3, <3>1, <3>4, <4>3, <4>6, <4>7, <4>8 DEF ReportOK, Running
    <3>5. CASE call[n].op = "report" /\ call[n].tx \in {2, 3}
      <4>1. \/ Note(n) = None /\ note = n /\ call[n].tx = 2
               /\ new = Write(Report(n), [status |-> "open", by |-> Nobody])
            \/ note = Note(n) /\ Reported(note)
        <5>1. call[n].tx = 2 => Note(n) = None \/ Reported(Note(n))
          BY <1>2, <3>2, <3>5 DEF ReportOK
        <5>2. call[n].tx = 3 => Reported(Note(n))
          BY <1>2, <3>2, <3>5 DEF ReportOK
        <5>3. CASE call[n].tx = 2 /\ Note(n) = None
          BY <2>5, <3>5, <5>3, ReportsLand
        <5>4. CASE call[n].tx = 2 /\ Note(n) # None
          <6>1. note = Note(n)
            BY <2>5, <3>5, <5>4, ReportsLand DEF Note
          <6> QED  BY <5>1, <5>4, <6>1 DEF Reported
        <5>5. CASE call[n].tx = 3
          <6>1. note = Note(n)
            BY <2>5, <3>5, <5>5, ReportsLand DEF Note
          <6> QED  BY <5>2, <5>5, <6>1 DEF Reported
        <5> QED  BY <3>5, <5>3, <5>4, <5>5
      <4>2. Reported(note)'
        <5>1. CASE new = Write(Report(n), [status |-> "open", by |-> Nobody]) /\ note = n
          <6>1. DOMAIN new = {Report(n)} /\ new[Report(n)] # NoReport
            BY <5>1 DEF Write, NoReport
          <6>2. n \in RowIds
            BY SqlAssumption DEF Calls, RowIds
          <6> QED  BY <3>3, <5>1, <6>1, <6>2 DEF Reported
        <5> QED  BY <3>2, <4>1, <5>1
      <4>3. NoReviews /\ Reminded(n) => note # n
        BY <1>2, <3>2, <3>5, <4>1, SqlAssumption DEF ReportOK, None, Calls, Reported, RowIds
      <4>4. Reported(Note(n))' /\ (NoReviews' /\ Reminded(n)' => Note(n)' # n)
        BY <1>3, <3>1, <4>2, <4>3 DEF Reported
      <4>5. call'[n].phase = "running" => call'[n].tx # 2
        BY <2>5, <3>1, <3>5, ReportsLand
      <4> QED  BY <1>3, <3>1, <3>5, <4>4, <4>5 DEF ReportOK, Running
    <3>6. CASE call[n].op = "review" /\ call[n].tx \in {1, 2, 3}
      <4>1. Reported(0)
        BY <1>2, <2>5, <3>2, <3>6, ReportsLand DEF ReportOK
      <4>2. Reported(0)'
        BY <3>2, <4>1
      <4> QED  BY <1>3, <3>1, <3>6, <4>2 DEF ReportOK, Running
    <3> QED  BY <1>2, <1>5, <2>1, <3>4, <3>5, <3>6, ReportRuns
  <2> QED  BY <2>3, <2>4, <2>5, LandingLands DEF Stepped
<1> QED  BY <1>4, <1>5

LEMMA ReportStep ==
  ASSUME BaseInv, OwnInv, ReportInv, NEW n \in Calls, Stepped(n) PROVE ReportInv'
<1>1. \A m \in Calls : ReportOK(m)'
  <2> TAKE m \in Calls
  <2> QED  BY ReportStays, ReportMoves
<1>2. ASSUME NoReviews', NEW i \in RowIds, Reported(i)' PROVE IsOpen(db[Report(i)])'
  <2>1. NoReviews /\ (Reported(i) => IsOpen(db[Report(i)]))
    BY <1>2, HeardStays DEF ReportInv
  <2>2. CASE db' = db
    BY <1>2, <2>1, <2>2 DEF Reported
  <2>3. ASSUME NEW new, NEW note, Lands(n, new, note) PROVE IsOpen(db'[Report(i)])
    <3>1. /\ \A c \in DOMAIN new : db'[c] = new[c]
          /\ \A c \in DOMAIN db : c \notin DOMAIN new => db'[c] = db[c]
      BY <2>3, Undisturbed
    <3>2. call[n].op # "review" /\ Report(i) \in DOMAIN db
      BY <2>1 DEF NoReviews, BaseInv, Rows, Report
    <3>3. CASE new = Write(Report(n), [status |-> "open", by |-> Nobody])
      <4>1. DOMAIN new = {Report(n)} /\ new[Report(n)] = [status |-> "open", by |-> Nobody]
        BY <3>3 DEF Write
      <4>2. CASE Report(i) = Report(n)
        BY <3>1, <4>1, <4>2 DEF IsOpen
      <4>3. CASE Report(i) # Report(n)
        BY <1>2, <2>1, <3>1, <3>2, <4>1, <4>3 DEF Reported
      <4> QED  BY <4>2, <4>3
    <3>4. CASE db'[Report(i)] = db[Report(i)]
      BY <1>2, <2>1, <3>4 DEF Reported
    <3> QED  BY <2>3, <3>2, <3>3, <3>4, ReportsLand DEF SameReports
  <2>4. IsOpen(db'[Report(i)])
    BY <1>2, <2>1, <2>2, <2>3, StepLands DEF Reported
  <2> QED  BY <2>4 DEF IsOpen
<1> QED  BY <1>1, <1>2 DEF ReportInv

LEMMA ReportKeeps ==
  ASSUME BaseInv, MessageInv, OwnInv, BansOwned, ReportInv,
         NEW n \in Calls, NEW new, NEW note, Lands(n, new, note), topic = "report"
  PROVE  MeetsContract
<1>1. /\ Running(n) /\ ReportOK(n) /\ n \in RowIds /\ 0 \in RowIds
      /\ call[n].op \in {"report", "review"} /\ call[n].tx \in {1, 2, 3}
  BY ReportRuns, SqlAssumption DEF Lands, ReportInv, Calls, RowIds
<1>2. \/ DOMAIN new = {}
      \/ /\ call[n].op = "report" /\ call[n].tx = 2
         /\ new = Write(Report(n), [status |-> "open", by |-> Nobody])
      \/ /\ call[n].op = "review" /\ call[n].tx = 2
         /\ Arg(n).by \in Moderators /\ Arg(n).status \in {"triaged", "resolved"}
         /\ new = Write(Report(0), [status |-> Arg(n).status, by |-> Arg(n).by])
  BY <1>1, ReportsLand
<1>3. \A g \in Parts \ {"reports"} : "report" \notin PartTables(g)
  BY DEF Parts, PartTables
<1>4. ASSUME NEW i \in RowIds, NEW v, v # NoReport, new = Write(Report(i), v)
      PROVE  Stored' = [Stored EXCEPT !["reports"] =
                          [x \in DOMAIN Stored.reports \union {i} |-> IF x = i THEN v ELSE Stored.reports[x]]]
  <2>1. /\ Stored' = [Stored EXCEPT !["reports"] = Stored'["reports"]]
        /\ db'[Report(i)] = v /\ \A x \in DOMAIN db : x # Report(i) => db'[x] = db[x]
    BY <1>3, <1>4, RowLands DEF Report, Parts
  <2>2. \A j \in RowIds \ {i} : db'[Report(j)] = db[Report(j)]
    BY <2>1 DEF BaseInv, Rows, Report
  <2>3. /\ Stored.reports = [j \in {j \in RowIds : db[Report(j)] # NoReport} |-> db[Report(j)]]
        /\ Stored'["reports"] = [j \in {j \in RowIds : db'[Report(j)] # NoReport} |-> db'[Report(j)]]
    BY DEF Stored
  <2>4. {j \in RowIds : db'[Report(j)] # NoReport} = DOMAIN Stored.reports \union {i}
    BY <1>4, <2>1, <2>2, <2>3
  <2>5. Stored'["reports"] =
          [x \in DOMAIN Stored.reports \union {i} |-> IF x = i THEN v ELSE Stored.reports[x]]
    BY <2>1, <2>2, <2>3, <2>4
  <2> QED  BY <2>1, <2>5
<1>5. CASE call[n].op = "report" /\ call[n].tx = 2
           /\ new = Write(Report(n), [status |-> "open", by |-> Nobody])
  <2>1. call[n].wrote = FALSE /\ <<backend, topic>> \notin Exempt
    BY <1>1, <1>5 DEF ReportOK, Exempt
  <2>2. [status |-> "open", by |-> Nobody] # NoReport
    BY DEF NoReport
  <2>3. Contract!CreateReport(n)
    BY <1>1, <1>4, <1>5, <2>1, <2>2, IdsAreFresh
    DEF Contract!CreateReport, Contract!With, Nobody, Contract!Nobody
  <2> QED  BY <1>1, <2>3 DEF MeetsContract, Contract!Next
<1>6. CASE /\ call[n].op = "review" /\ call[n].tx = 2
           /\ Arg(n).by \in Moderators /\ Arg(n).status \in {"triaged", "resolved"}
           /\ new = Write(Report(0), [status |-> Arg(n).status, by |-> Arg(n).by])
  <2> DEFINE v == [status |-> Arg(n).status, by |-> Arg(n).by]
  <2>1. v # NoReport
    BY <1>6 DEF NoReport
  <2>2. Stored' = [Stored EXCEPT !["reports"] =
                     [x \in DOMAIN Stored.reports \union {0} |-> IF x = 0 THEN v ELSE Stored.reports[x]]]
    BY <1>1, <1>4, <1>6, <2>1
  <2>3. 0 \in DOMAIN Stored.reports
    BY <1>1, <1>6 DEF ReportOK, Reported, Stored
  <2>4. [x \in DOMAIN Stored.reports \union {0} |-> IF x = 0 THEN v ELSE Stored.reports[x]]
          = [Stored.reports EXCEPT ![0] = v]
    <3>1. DOMAIN Stored.reports \union {0} = DOMAIN Stored.reports
      BY <2>3
    <3>2. Stored.reports = [x \in DOMAIN Stored.reports |-> Stored.reports[x]]
      BY DEF Stored
    <3> QED  BY <3>1, <3>2
  <2>5. Contract!UpdateReport(0, Arg(n).status, Arg(n).by)
    BY <2>2, <2>3, <2>4 DEF Contract!UpdateReport
  <2> QED  BY <1>6, <2>3, <2>5 DEF MeetsContract, Contract!Next
<1> QED  BY <1>2, <1>5, <1>6, NothingLands

-----------------------------------------------------------------------------
(* The pair: one conversation, never another one, and complete where it is *)
(* inserted in one transaction with its participants.                      *)

Bundled == backend \notin {"drizzle", "sqlite"}

\* The claim a transaction has made and not committed, and the one it has.
Claiming(n) ==
  \/ /\ Note(n) = TRUE /\ Ground(n)[PairRow] = None
     /\ PairRow \in Holds(n) /\ call[n].work[PairRow] = n /\ Holds(n) \subseteq {PairRow, PairMembers}
     /\ call[n].st > FirstAt + 1 => PairMembers \in Holds(n) /\ call[n].work[PairMembers] = TRUE
  \/ Note(n) = FALSE /\ Ground(n)[PairRow] # None /\ Holds(n) = {}
Claimed(n) ==
  Note(n) \in BOOLEAN /\ db[PairRow] # None /\ (Note(n) = TRUE => db[PairRow] = n)

DirectOK(n) ==
  call[n].op = "direct" =>
    /\ Running(n) /\ call[n].tx = 1 /\ call[n].st \leq FirstAt => Holds(n) = {}
    /\ Running(n) /\ call[n].tx = 1 /\ call[n].st > FirstAt => Claiming(n)
    /\ Running(n) /\ call[n].tx # 1 => Claimed(n)
    /\ call[n].phase = "done" =>
         /\ db[PairRow] # None /\ Note(n).id = db[PairRow] /\ (Bundled => Note(n).whole = TRUE)
         /\ Note(n).created \in BOOLEAN /\ (Note(n).created = TRUE => db[PairRow] = n)

GroupOK(n) ==
  call[n].op = "group" /\ Running(n) /\ call[n].tx = 1 =>
    /\ Holds(n) \subseteq {<<"room", n>>, <<"roomMembers", n>>}
    /\ call[n].st \geq 2 => <<"room", n>> \in Holds(n) /\ call[n].work[<<"room", n>>] = TRUE
    /\ call[n].st \geq 3 => <<"roomMembers", n>> \in Holds(n) /\ call[n].work[<<"roomMembers", n>>] = TRUE

PairInv ==
  /\ Bundled => db[PairMembers] = (db[PairRow] # None)
  /\ \A n \in Calls : DirectOK(n) /\ GroupOK(n)

LEMMA BundledRuns ==
  ASSUME BaseInv, NEW n \in Calls, Running(n), call[n].op = "direct", Bundled
  PROVE  /\ Len(Program(n)) = 2 /\ call[n].tx \in {1, 2} /\ FirstAt \in {1, 2}
         /\ call[n].tx = 1 =>
              /\ ~AutoCommits(n) /\ ~LastTransaction(n) /\ call[n].st \in 1..(FirstAt + 2)
              /\ AllRun(n) <=> call[n].st = FirstAt + 2
              /\ Opens(n) => FirstAt = 2 /\ call[n].st = 1
              /\ ~Opens(n) => call[n].st \geq FirstAt
              /\ call[n].st = FirstAt => Statement(n) = "claimPair"
              /\ call[n].st = FirstAt + 1 => Statement(n) = "joinPair"
         /\ call[n].tx = 2 =>
              AutoCommits(n) /\ LastTransaction(n) /\ Transaction(n)[1] \in {"answerPair", "answerPairById"}
<1>1. /\ backend = "prisma" =>
           Program(n) = << <<Snapshot, "claimPair", "joinPair">>, <<"answerPairById">> >>
      /\ backend # "prisma" =>
           \E s \in {"answerPair", "answerPairById"} : Program(n) = << <<"claimPair", "joinPair">>, <<s>> >>
  BY PairPrograms DEF Program, BaseInv, Backends, Bundled
<1>2. call[n].tx \in 1..Len(Program(n)) /\ call[n].st \in 1..(Len(Transaction(n)) + 1)
  BY RunsWell
<1>3. Len(Program(n)) = 2 /\ call[n].tx \in {1, 2}
  <2>1. Len(Program(n)) = 2
    BY <1>1
  <2> QED  BY <1>2, <2>1
<1>4. CASE call[n].tx = 2
  <2>1. PICK s \in {"answerPair", "answerPairById"} : Transaction(n) = <<s>>
    BY <1>1, <1>4 DEF Transaction
  <2>2. Len(Transaction(n)) = 1 /\ Transaction(n)[1] = s
    BY <2>1
  <2> QED  BY <1>3, <1>4, <2>1, <2>2 DEF AutoCommits, LastTransaction, FirstAt
<1>5. CASE call[n].tx = 1 /\ backend = "prisma"
  <2>1. Transaction(n) = <<Snapshot, "claimPair", "joinPair">>
    BY <1>1, <1>5 DEF Transaction
  <2>2. Len(Transaction(n)) = 3 /\ FirstAt = 2 /\ call[n].st \in 1..4
    BY <1>2, <1>5, <2>1 DEF FirstAt
  <2> QED  BY <1>3, <1>5, <2>1, <2>2 DEF AutoCommits, Opens, AllRun, Statement, Snapshot, LastTransaction
<1>6. CASE call[n].tx = 1 /\ backend # "prisma"
  <2>1. Transaction(n) = <<"claimPair", "joinPair">>
    BY <1>1, <1>6 DEF Transaction
  <2>2. Len(Transaction(n)) = 2 /\ FirstAt = 1 /\ call[n].st \in 1..3
    BY <1>2, <1>6, <2>1 DEF FirstAt
  <2> QED  BY <1>3, <1>6, <2>1, <2>2 DEF AutoCommits, Opens, AllRun, Statement, Snapshot, LastTransaction
<1> QED  BY <1>3, <1>4, <1>5, <1>6

LEMMA SplitRuns ==
  ASSUME BaseInv, NEW n \in Calls, Running(n), call[n].op = "direct", ~Bundled
  PROVE  /\ AutoCommits(n) /\ Len(Program(n)) = 3 /\ call[n].tx \in {1, 2, 3}
         /\ Transaction(n)[1] = <<"claimPair", "joinPair", "answerPair">>[call[n].tx]
<1>1. Program(n) = << <<"claimPair">>, <<"joinPair">>, <<"answerPair">> >>
  BY PairPrograms DEF Program, BaseInv, Backends, Bundled
<1>2. Len(Program(n)) = 3
  BY <1>1
<1>3. call[n].tx \in {1, 2, 3}
  <2>1. call[n].tx \in 1..Len(Program(n))
    BY RunsWell
  <2> QED  BY <1>2, <2>1
<1> QED  BY <1>1, <1>2, <1>3 DEF Transaction, AutoCommits

LEMMA GroupRuns ==
  ASSUME BaseInv, NEW n \in Calls, Running(n), call[n].op = "group"
  PROVE  /\ call[n].tx \in {1, 2}
         /\ call[n].tx = 1 =>
              /\ Transaction(n) = <<"insertRoom", "insertRoomMembers">>
              /\ ~AutoCommits(n) /\ ~Opens(n) /\ call[n].st \in 1..3 /\ (AllRun(n) => call[n].st = 3)
         /\ call[n].tx = 2 => AutoCommits(n) /\ Transaction(n)[1] = "reload"
<1>1. Program(n) = << <<"insertRoom", "insertRoomMembers">>, <<"reload">> >>
  BY PairPrograms DEF Program, BaseInv
<1>2. Len(Program(n)) = 2
  BY <1>1
<1>3. call[n].tx \in {1, 2} /\ call[n].st \in 1..(Len(Transaction(n)) + 1)
  <2>1. call[n].tx \in 1..Len(Program(n)) /\ call[n].st \in 1..(Len(Transaction(n)) + 1)
    BY RunsWell
  <2> QED  BY <1>2, <2>1
<1>4. CASE call[n].tx = 1
  <2>1. Transaction(n) = <<"insertRoom", "insertRoomMembers">>
    BY <1>1, <1>4 DEF Transaction
  <2> QED  BY <1>3, <1>4, <2>1 DEF AutoCommits, Opens, AllRun, Statement, Snapshot
<1>5. CASE call[n].tx = 2
  <2>1. Transaction(n) = <<"reload">>
    BY <1>1, <1>5 DEF Transaction
  <2> QED  BY <1>3, <1>5, <2>1 DEF AutoCommits
<1> QED  BY <1>3, <1>4, <1>5

\* What a commit about the pair writes, by the position it is made from.
LEMMA BundledLands ==
  ASSUME BaseInv, PairInv, NEW n \in Calls, NEW new, NEW note, Lands(n, new, note),
         call[n].op = "direct", Bundled, call[n].tx = 1
  PROVE  /\ ~LastTransaction(n)
         /\ \/ /\ note = TRUE /\ db[PairRow] = None /\ DOMAIN new = {PairRow, PairMembers}
               /\ new[PairRow] = n /\ new[PairMembers] = TRUE
            \/ note = FALSE /\ db[PairRow] # None /\ DOMAIN new = {}
<1>1. /\ Running(n) /\ ~AutoCommits(n) /\ ~LastTransaction(n) /\ FirstAt \in {1, 2}
      /\ AllRun(n) <=> call[n].st = FirstAt + 2
  BY BundledRuns DEF Lands
<1>2. new = call[n].work /\ note = Note(n) /\ Ground(n) = db /\ call[n].st = FirstAt + 2
  BY <1>1, LandGround DEF Lands
<1>3. Claiming(n)
  BY <1>1, <1>2 DEF PairInv, DirectOK
<1> QED  BY <1>1, <1>2, <1>3 DEF Claiming, Holds

LEMMA SplitLands ==
  ASSUME BaseInv, NEW n \in Calls, NEW new, NEW note, Lands(n, new, note),
         call[n].op = "direct", ~Bundled, call[n].tx \in {1, 2}
  PROVE  /\ ~LastTransaction(n)
         /\ call[n].tx = 1 =>
              \/ note = TRUE /\ db[PairRow] = None /\ new = Write(PairRow, n)
              \/ note = FALSE /\ db[PairRow] # None /\ DOMAIN new = {}
         /\ call[n].tx = 2 => note = Note(n) /\ DOMAIN new \subseteq {PairMembers}
<1>1. /\ Running(n) /\ AutoCommits(n) /\ Len(Program(n)) = 3
      /\ Transaction(n)[1] = <<"claimPair", "joinPair", "answerPair">>[call[n].tx]
  BY SplitRuns DEF Lands
<1>2. /\ new = Result(n, Statement(n)).writes /\ note = Result(n, Statement(n)).note
      /\ \A c : See(n, c) = db[c] /\ Statement(n) = Transaction(n)[1]
  BY <1>1, AloneLands
<1>3. CASE call[n].tx = 1
  <2>1. new = ClaimPair(n).writes /\ note = ClaimPair(n).note
    <3>1. Statement(n) = "claimPair"
      BY <1>1, <1>2, <1>3
    <3>2. Result(n, Statement(n)) = ClaimPair(n)
      BY <3>1 DEF Result
    <3> QED  BY <1>2, <3>2
  <2>2. CASE db[PairRow] = None
    <3>1. (See(n, PairRow) = None) = TRUE
      BY <1>2, <2>2
    <3>2. ClaimPair(n) = PutIf(TRUE, PairRow, n, TRUE)
      BY <3>1 DEF ClaimPair
    <3> QED  BY <1>1, <1>3, <2>1, <2>2, <3>2 DEF PutIf, Sql, LastTransaction
  <2>3. CASE db[PairRow] # None
    <3>1. (See(n, PairRow) = None) = FALSE
      BY <1>2, <2>3
    <3>2. ClaimPair(n) = PutIf(FALSE, PairRow, n, FALSE)
      BY <3>1 DEF ClaimPair
    <3> QED  BY <1>1, <1>3, <2>1, <2>3, <3>2, EmptyWork DEF PutIf, Sql, LastTransaction
  <2> QED  BY <2>2, <2>3
<1>4. CASE call[n].tx = 2
  <2>1. new = JoinPair(n).writes /\ note = JoinPair(n).note
    <3>1. Statement(n) = "joinPair"
      BY <1>1, <1>2, <1>4
    <3>2. Result(n, Statement(n)) = JoinPair(n)
      BY <3>1 DEF Result
    <3> QED  BY <1>2, <3>2
  <2>2. note = Note(n) /\ DOMAIN new \subseteq {PairMembers}
    BY <2>1, EmptyWork DEF JoinPair, PutIf, Sql, Write
  <2> QED  BY <1>1, <1>4, <2>2 DEF LastTransaction
<1> QED  BY <1>3, <1>4

LEMMA PairAnswers ==
  ASSUME BaseInv, NEW n \in Calls, NEW new, NEW note, Lands(n, new, note),
         call[n].op = "direct", call[n].tx = IF Bundled THEN 2 ELSE 3
  PROVE  /\ LastTransaction(n) /\ DOMAIN new = {}
         /\ note.id = db[PairRow] /\ note.whole = db[PairMembers]
         /\ note.created = Note(n) \/ note.created = (db[PairRow] = n)
<1>1. Running(n) /\ AutoCommits(n) /\ LastTransaction(n)
      /\ Transaction(n)[1] \in {"answerPair", "answerPairById"}
  <2>1. CASE Bundled
    BY <2>1, BundledRuns DEF Lands
  <2>2. CASE ~Bundled
    BY <2>2, SplitRuns DEF Lands, LastTransaction
  <2> QED  BY <2>1, <2>2
<1>2. /\ new = Result(n, Statement(n)).writes /\ note = Result(n, Statement(n)).note
      /\ \A c : See(n, c) = db[c] /\ Statement(n) = Transaction(n)[1]
  BY <1>1, AloneLands
<1>3. CASE Statement(n) = "answerPair"
  <2>1. Result(n, Statement(n)) = AnswerPair(n)
    BY <1>3 DEF Result
  <2> QED  BY <1>1, <1>2, <2>1, EmptyWork DEF AnswerPair, Select, Sql
<1>4. CASE Statement(n) = "answerPairById"
  <2>1. Result(n, Statement(n)) = AnswerPairById(n)
    BY <1>4 DEF Result
  <2> QED  BY <1>1, <1>2, <2>1, EmptyWork DEF AnswerPairById, Select, Sql
<1> QED  BY <1>1, <1>2, <1>3, <1>4

LEMMA GroupLands ==
  ASSUME BaseInv, PairInv, NEW n \in Calls, NEW new, NEW note, Lands(n, new, note), call[n].op = "group"
  PROVE  \/ DOMAIN new = {}
         \/ /\ call[n].tx = 1 /\ DOMAIN new = {<<"room", n>>, <<"roomMembers", n>>}
            /\ new[<<"room", n>>] = TRUE /\ new[<<"roomMembers", n>>] = TRUE
<1>1. Running(n) /\ call[n].tx \in {1, 2}
  BY GroupRuns DEF Lands
<1>2. CASE call[n].tx = 1
  <2>1. new = call[n].work /\ call[n].st = 3 /\ GroupOK(n)
    BY <1>1, <1>2, GroupRuns DEF Lands, PairInv
  <2>2. /\ Holds(n) \subseteq {<<"room", n>>, <<"roomMembers", n>>}
        /\ <<"room", n>> \in Holds(n) /\ call[n].work[<<"room", n>>] = TRUE
        /\ <<"roomMembers", n>> \in Holds(n) /\ call[n].work[<<"roomMembers", n>>] = TRUE
    BY <1>1, <1>2, <2>1 DEF GroupOK
  <2> QED  BY <1>2, <2>1, <2>2 DEF Holds
<1>3. CASE call[n].tx = 2
  <2>1. AutoCommits(n) /\ Statement(n) = "reload" /\ new = Result(n, Statement(n)).writes
    BY <1>1, <1>3, GroupRuns, AloneLands
  <2> QED  BY <2>1, EmptyWork DEF Result, Reload, Select, Sql
<1> QED  BY <1>1, <1>2, <1>3

\* The pair, once there, stays the one it is.
LEMMA PairStays ==
  ASSUME BaseInv, PairInv, NEW n \in Calls, Stepped(n)
  PROVE  /\ db[PairRow] # None => db'[PairRow] = db[PairRow]
         /\ Bundled => db'[PairMembers] = (db'[PairRow] # None)
<1>1. CASE db' = db
  BY <1>1 DEF PairInv
<1>2. ASSUME NEW new, NEW note, Lands(n, new, note)
      PROVE  /\ db[PairRow] # None => db'[PairRow] = db[PairRow]
             /\ Bundled => db'[PairMembers] = (db'[PairRow] # None)
  <2>1. /\ Running(n) /\ topic \in Topics /\ call[n].op \in Operations(topic)
        /\ {PairRow, PairMembers} \subseteq DOMAIN db /\ PairRow # PairMembers
    BY <1>2, OperationOf DEF Lands, Running, BaseInv, Rows, PairRow, PairMembers
  <2>2. /\ \A c \in DOMAIN new : db'[c] = new[c] /\ c[1] \in TablesOf(topic)
        /\ \A c \in DOMAIN db : c \notin DOMAIN new => db'[c] = db[c]
    BY <1>2, Undisturbed
  <2>3. CASE PairRow \notin DOMAIN new /\ PairMembers \notin DOMAIN new
    BY <2>1, <2>2, <2>3 DEF PairInv
  <2>4. CASE topic # "pair"
    <3>1. {"pair", "pairMembers"} \intersect TablesOf(topic) = {}
      BY <2>1, <2>4 DEF Topics, TablesOf
    <3> QED  BY <2>2, <2>3, <3>1 DEF PairRow, PairMembers
  <2>5. CASE call[n].op = "group"
    <3>1. DOMAIN new \subseteq {<<"room", n>>, <<"roomMembers", n>>}
      BY <1>2, <2>5, GroupLands
    <3>2. PairRow \notin DOMAIN new /\ PairMembers \notin DOMAIN new
      BY <3>1 DEF PairRow, PairMembers
    <3> QED  BY <2>3, <3>2
  <2>6. CASE call[n].op = "direct" /\ Bundled
    <3>1. call[n].tx \in {1, 2}
      BY <2>1, <2>6, BundledRuns
    <3>2. CASE call[n].tx = 1
      <4>1. \/ /\ db[PairRow] = None /\ DOMAIN new = {PairRow, PairMembers}
               /\ new[PairRow] = n /\ new[PairMembers] = TRUE
            \/ DOMAIN new = {}
        BY <1>2, <2>6, <3>2, BundledLands
      <4>2. CASE DOMAIN new = {}
        BY <2>3, <4>2
      <4>3. CASE /\ db[PairRow] = None /\ DOMAIN new = {PairRow, PairMembers}
                 /\ new[PairRow] = n /\ new[PairMembers] = TRUE
        <5>1. n # None
          BY SqlAssumption DEF Calls, None
        <5>2. db'[PairRow] = n /\ db'[PairMembers] = TRUE
          BY <2>2, <4>3
        <5> QED  BY <4>3, <5>1, <5>2
      <4> QED  BY <4>1, <4>2, <4>3
    <3>3. CASE call[n].tx = 2
      BY <1>2, <2>3, <2>6, <3>3, PairAnswers
    <3> QED  BY <3>1, <3>2, <3>3
  <2>7. CASE call[n].op = "direct" /\ ~Bundled
    <3>1. call[n].tx \in {1, 2, 3}
      BY <2>1, <2>7, SplitRuns
    <3>2. CASE call[n].tx = 1
      <4>1. db[PairRow] = None \/ DOMAIN new = {}
        BY <1>2, <2>7, <3>2, SplitLands
      <4> QED  BY <2>1, <2>2, <2>7, <4>1
    <3>3. CASE call[n].tx = 2
      <4>1. PairRow \notin DOMAIN new
        BY <1>2, <2>1, <2>7, <3>3, SplitLands
      <4> QED  BY <2>1, <2>2, <2>7, <4>1
    <3>4. CASE call[n].tx = 3
      BY <1>2, <2>3, <2>7, <3>4, PairAnswers
    <3> QED  BY <3>1, <3>2, <3>3, <3>4
  <2> QED  BY <2>1, <2>4, <2>5, <2>6, <2>7 DEF Operations
<1> QED  BY <1>1, <1>2, StepLands

LEMMA DirectStays ==
  ASSUME BaseInv, PairInv, NEW n \in Calls, Stepped(n), NEW m \in Calls \ {n}
  PROVE  DirectOK(m)'
<1>1. /\ call'[m] = call[m] /\ UNCHANGED <<backend, topic>> /\ DirectOK(m)
      /\ PairRow \in Holds(m) => (Ground(m)')[PairRow] = Ground(m)[PairRow]
  BY OthersKeep DEF PairInv, BaseInv, Rows, PairRow
<1>2. db[PairRow] # None => db'[PairRow] = db[PairRow]
  BY PairStays
<1>3. Ground(m)[PairRow] # None => (Ground(m)')[PairRow] # None
  BY <1>1, <1>2 DEF Ground
<1>4. /\ Holds(m)' = Holds(m) /\ Note(m)' = Note(m) /\ FirstAt' = FirstAt /\ Bundled' = Bundled
      /\ Running(m)' = Running(m)
  BY <1>1 DEF Holds, Note, FirstAt, Bundled, Running
<1>5. Claiming(m) => Claiming(m)'
  BY <1>1, <1>3, <1>4 DEF Claiming
<1>6. Claimed(m) => Claimed(m)'
  BY <1>2, <1>4 DEF Claimed
<1> QED  BY <1>1, <1>2, <1>4, <1>5, <1>6 DEF DirectOK

LEMMA GroupStays ==
  ASSUME BaseInv, PairInv, NEW n \in Calls, Stepped(n), NEW m \in Calls \ {n}
  PROVE  GroupOK(m)'
<1>1. call'[m] = call[m] /\ GroupOK(m)
  BY OthersKeep DEF PairInv
<1> QED  BY <1>1 DEF GroupOK, Holds, Running

LEMMA DirectExecutes ==
  ASSUME BaseInv, PairInv, NEW n \in Calls, Executed(n), call[n].op = "direct"
  PROVE  /\ call[n].tx = 1 /\ call[n].st \geq FirstAt /\ Claiming(n)'
<1>1. Running(n) /\ ~AllRun(n) /\ ~Opens(n) /\ ~AutoCommits(n) /\ DirectOK(n)
  BY DEF Executed, Runs, PairInv
<1>2. Bundled /\ call[n].tx = 1
  BY <1>1, SplitRuns, BundledRuns
<1>3. call[n].st \in {FirstAt, FirstAt + 1} /\ FirstAt \in {1, 2}
  <2>1. call[n].st \in FirstAt..(FirstAt + 2) /\ FirstAt \in {1, 2} /\ call[n].st # FirstAt + 2
    BY <1>1, <1>2, BundledRuns
  <2> QED  BY <2>1
<1>4. /\ Holds(n)' = DOMAIN Now(n).writes \union Holds(n) /\ Note(n)' = Now(n).note
      /\ call'[n].work = Over(Now(n).writes, call[n].work) /\ call'[n].st = call[n].st + 1
      /\ Ground(n)' = Ground(n) /\ FirstAt' = FirstAt
  BY DEF Executed, Holds, Note, Over, Ground, FirstAt, OthersStay
<1>5. PairRow # PairMembers
  BY DEF PairRow, PairMembers
<1>6. CASE call[n].st = FirstAt
  <2>1. Statement(n) = "claimPair" /\ Holds(n) = {}
    BY <1>1, <1>2, <1>3, <1>6, BundledRuns DEF DirectOK
  <2>2. Now(n) = ClaimPair(n) /\ See(n, PairRow) = Ground(n)[PairRow]
    BY <2>1, SeeGround DEF Now, Result
  <2>3. CASE Ground(n)[PairRow] = None
    <3>1. (See(n, PairRow) = None) = TRUE
      BY <2>2, <2>3
    <3>4. ClaimPair(n) = PutIf(TRUE, PairRow, n, TRUE)
      BY <3>1 DEF ClaimPair
    <3>2. Now(n).writes = Write(PairRow, n) /\ Now(n).note = TRUE
      BY <2>2, <3>4 DEF PutIf, Sql
    <3>3. Holds(n)' = {PairRow} /\ (call[n].work)'[PairRow] = n
      BY <1>4, <2>1, <3>2 DEF Write, Over
    <3> QED  BY <1>2, <1>3, <1>4, <1>6, <2>3, <3>2, <3>3 DEF Claiming
  <2>4. CASE Ground(n)[PairRow] # None
    <3>1. (See(n, PairRow) = None) = FALSE
      BY <2>2, <2>4
    <3>4. ClaimPair(n) = PutIf(FALSE, PairRow, n, FALSE)
      BY <3>1 DEF ClaimPair
    <3>2. Now(n).writes = <<>> /\ Now(n).note = FALSE
      BY <2>2, <3>4 DEF PutIf, Sql
    <3>3. Holds(n)' = {}
      BY <1>4, <2>1, <3>2, EmptyWork
    <3> QED  BY <1>2, <1>3, <1>4, <1>6, <2>4, <3>2, <3>3 DEF Claiming
  <2> QED  BY <2>3, <2>4
<1>7. CASE call[n].st = FirstAt + 1
  <2>1. Now(n) = JoinPair(n) /\ Claiming(n)
    BY <1>1, <1>2, <1>3, <1>7, BundledRuns DEF Now, Result, DirectOK
  <2>2. CASE Note(n) = TRUE
    <3>1. Now(n).writes = Write(PairMembers, TRUE) /\ Now(n).note = TRUE
      BY <2>1, <2>2 DEF JoinPair, PutIf, Sql
    <3>2. /\ Ground(n)[PairRow] = None /\ PairRow \in Holds(n) /\ call[n].work[PairRow] = n
          /\ Holds(n) \subseteq {PairRow, PairMembers}
      BY <2>1, <2>2 DEF Claiming
    <3>3. /\ Holds(n)' = {PairMembers} \union Holds(n) /\ (call[n].work)'[PairMembers] = TRUE
          /\ (call[n].work)'[PairRow] = n
      BY <1>4, <1>5, <3>1, <3>2 DEF Write, Over, Holds
    <3>4. Holds(n)' \subseteq {PairRow, PairMembers} /\ {PairRow, PairMembers} \subseteq Holds(n)'
      BY <3>2, <3>3
    <3>5. Note(n)' = TRUE /\ Ground(n)'[PairRow] = None
      BY <1>4, <3>1, <3>2
    <3>6. Claiming(n)'
      BY <3>3, <3>4, <3>5 DEF Claiming
    <3> QED  BY <1>2, <1>3, <1>7, <3>6
  <2>3. CASE Note(n) # TRUE
    <3>1. Note(n) = FALSE /\ Ground(n)[PairRow] # None /\ Holds(n) = {}
      BY <2>1, <2>3 DEF Claiming
    <3>2. Now(n).writes = <<>> /\ Now(n).note = FALSE
      BY <2>1, <3>1 DEF JoinPair, PutIf, Sql
    <3> QED  BY <1>2, <1>3, <1>4, <1>7, <3>1, <3>2, EmptyWork DEF Claiming
  <2> QED  BY <2>2, <2>3
<1> QED  BY <1>2, <1>3, <1>6, <1>7

LEMMA DirectMoves ==
  ASSUME BaseInv, PairInv, NEW n \in Calls, Stepped(n) PROVE DirectOK(n)'
<1>0. FirstAt' \in {1, 2} /\ (call'[n].st = 1 => Holds(n)' = {})
  <2>1. CallOK(n)'
    BY CallMoves
  <2> QED  BY <2>1, EmptyWork DEF FirstAt, CallOK, Holds
<1>1. CASE \E r \in Requests(topic) : Started(n, r)
  BY <1>0, <1>1 DEF Started, DirectOK, Running
<1> SUFFICES ASSUME ~\E r \in Requests(topic) : Started(n, r), call[n].op = "direct"
             PROVE  DirectOK(n)'
  <2>1. CASE \E r \in Requests(topic) : Started(n, r)
    BY <1>1, <2>1
  <2>2. CASE ~\E r \in Requests(topic) : Started(n, r)
    <3>1. call'[n].op = call[n].op
      BY <2>2 DEF Stepped, Opened, Executed, LandedAlone, LandedWhole, Landed, Again, Stopped, Identity
    <3> QED  BY <2>2, <3>1 DEF DirectOK
  <2> QED  BY <2>1, <2>2
<1>2. CASE Opened(n)
  <2>1. Running(n) /\ Opens(n)
    BY <1>2 DEF Opened
  <2>2. ~AutoCommits(n) /\ call[n].st = 1
    BY <2>1, RunsWell
  <2>3. Bundled /\ call[n].tx = 1 /\ FirstAt = 2
    BY <2>1, <2>2, SplitRuns, BundledRuns
  <2>4. Holds(n)' = {} /\ call'[n].st = 2 /\ call'[n].tx = 1 /\ FirstAt' = 2 /\ call'[n].phase = "running"
    BY <1>2, <2>1, <2>2, <2>3, SeeFresh DEF Opened, Holds, FirstAt, OthersStay
  <2> QED  BY <2>4 DEF DirectOK, Running
<1>3. CASE Executed(n)
  <2>1. call[n].tx = 1 /\ call[n].st \geq FirstAt /\ Claiming(n)'
    BY <1>3, DirectExecutes
  <2>2. call'[n].tx = 1 /\ call'[n].st > FirstAt' /\ call'[n].phase = "running"
    BY <1>3, <2>1 DEF Executed, FirstAt, OthersStay, BaseInv, CallOK
  <2>3. call'[n].st \in Nat /\ call'[n].phase # "done" /\ ~(call'[n].st \leq FirstAt')
    BY <1>0, <1>3, <2>1, <2>2 DEF Executed, BaseInv, CallOK
  <2> QED  BY <2>1, <2>2, <2>3 DEF DirectOK, Running
<1>4. CASE Again(n)
  <2>1. Running(n) /\ call[n].base # <<>>
    BY <1>0, <1>4 DEF Again, Serializable, Restarted
  <2>2. call[n].st # 1
    BY <2>1 DEF BaseInv, CallOK
  <2>3. ~AutoCommits(n)
    BY <2>1, <2>2 DEF BaseInv, CallOK
  <2>4. call[n].tx = 1
    BY <2>1, <2>3, SplitRuns, BundledRuns
  <2>5. call'[n].tx = 1 /\ call'[n].st = 1 /\ call'[n].phase = "running"
    BY <1>4, <2>4 DEF Again
  <2> QED  BY <1>0, <2>5 DEF DirectOK, Running
<1>5. CASE Stopped(n)
  BY <1>5 DEF Stopped, DirectOK, Running
<1>6. ASSUME NEW new, NEW note, Lands(n, new, note) PROVE DirectOK(n)'
  <2>1. /\ Running(n) /\ call'[n].st = 1 /\ Note(n)' = note /\ UNCHANGED backend
        /\ LastTransaction(n) => call'[n].phase = "done" /\ call'[n].tx = 1
        /\ ~LastTransaction(n) => call'[n].phase = "running" /\ call'[n].tx = call[n].tx + 1
    BY <1>6 DEF Lands, Landed, Note, OthersStay
  <2>2. /\ db[PairRow] # None => db'[PairRow] = db[PairRow]
        /\ Bundled => db'[PairMembers] = (db'[PairRow] # None)
    BY PairStays
  <2>3. DirectOK(n) /\ (Bundled => db[PairMembers] = (db[PairRow] # None))
    BY DEF PairInv
  <2>4. \A c \in DOMAIN new : db'[c] = new[c]
    BY <1>6, Undisturbed
  <2>5. CASE call[n].tx = 1
    <3>1. /\ ~LastTransaction(n)
          /\ \/ note = TRUE /\ db'[PairRow] = n
             \/ note = FALSE /\ db[PairRow] # None
      <4>1. CASE Bundled
        <5>1. /\ ~LastTransaction(n)
              /\ \/ /\ note = TRUE /\ db[PairRow] = None /\ DOMAIN new = {PairRow, PairMembers}
                    /\ new[PairRow] = n /\ new[PairMembers] = TRUE
                 \/ note = FALSE /\ db[PairRow] # None /\ DOMAIN new = {}
          BY <1>6, <2>5, <4>1, BundledLands DEF DirectOK
        <5>2. DOMAIN new = {PairRow, PairMembers} => db'[PairRow] = new[PairRow]
          BY <2>4
        <5> QED  BY <5>1, <5>2
      <4>2. CASE ~Bundled
        <5>1. /\ ~LastTransaction(n)
              /\ \/ note = TRUE /\ new = Write(PairRow, n)
                 \/ note = FALSE /\ db[PairRow] # None
          BY <1>6, <2>5, <4>2, SplitLands
        <5>2. new = Write(PairRow, n) => db'[PairRow] = n
          BY <2>4 DEF Write
        <5> QED  BY <5>1, <5>2
      <4> QED  BY <4>1, <4>2
    <3>2. n # None
      BY SqlAssumption DEF Calls, None
    <3>3. Claimed(n)'
      BY <2>1, <2>2, <3>1, <3>2 DEF Claimed
    <3> QED  BY <2>1, <2>5, <3>1, <3>3 DEF DirectOK, Running
  <2>6. CASE call[n].tx = 2 /\ ~Bundled
    <3>1. ~LastTransaction(n) /\ note = Note(n)
      BY <1>6, <2>6, SplitLands DEF Note
    <3>2. Claimed(n)
      BY <2>1, <2>3, <2>6 DEF DirectOK
    <3>3. Claimed(n)'
      BY <2>1, <2>2, <3>1, <3>2 DEF Claimed
    <3> QED  BY <2>1, <2>6, <3>1, <3>3 DEF DirectOK, Running
  <2>7. CASE call[n].tx = IF Bundled THEN 2 ELSE 3
    <3>1. /\ LastTransaction(n)
          /\ note.id = db[PairRow] /\ note.whole = db[PairMembers]
          /\ note.created = Note(n) \/ note.created = (db[PairRow] = n)
      BY <1>6, <2>7, PairAnswers DEF Note
    <3>2. Claimed(n)
      BY <2>1, <2>3, <2>7 DEF DirectOK
    <3>3. db[PairRow] # None /\ db'[PairRow] = db[PairRow] /\ (Note(n) = TRUE => db[PairRow] = n)
          /\ Note(n) \in BOOLEAN
      BY <2>2, <3>2 DEF Claimed
    <3>4. note.created \in BOOLEAN /\ (note.created = TRUE => db[PairRow] = n)
      BY <3>1, <3>3
    <3>5. Bundled => note.whole = TRUE
      BY <2>3, <3>1, <3>3
    <3>6. Bundled' = Bundled
      BY <2>1 DEF Bundled
    <3> QED  BY <2>1, <3>1, <3>3, <3>4, <3>5, <3>6 DEF DirectOK, Running
  <2>8. call[n].tx \in {1, 2} \/ (~Bundled /\ call[n].tx = 3)
    BY <2>1, SplitRuns, BundledRuns
  <2> QED  BY <2>5, <2>6, <2>7, <2>8
<1> QED  BY <1>2, <1>3, <1>4, <1>5, <1>6, LandingLands DEF Stepped

LEMMA GroupMoves ==
  ASSUME BaseInv, PairInv, NEW n \in Calls, Stepped(n) PROVE GroupOK(n)'
<1> SUFFICES ASSUME call'[n].op = "group", call'[n].phase = "running", call'[n].st # 1, call'[n].tx = 1
             PROVE  GroupOK(n)'
  <2>1. call'[n].phase = "running" /\ call'[n].st = 1 => call'[n].work = <<>>
    BY CallMoves DEF CallOK, Running
  <2>2. call'[n].st = 1 /\ call'[n].phase = "running" => Holds(n)' = {}
    BY <2>1, EmptyWork DEF Holds
  <2>3. CASE call'[n].st = 1
    BY <2>2, <2>3 DEF GroupOK, Running
  <2> QED  BY <2>3 DEF GroupOK, Running
<1>1. CASE Opened(n)
  <2>1. Running(n) /\ call[n].op = "group" /\ call[n].tx = 1 /\ Opens(n)
    BY <1>1 DEF Opened, Identity
  <2> QED  BY <2>1, GroupRuns
<1>2. CASE Executed(n)
  <2>1. Running(n) /\ call[n].op = "group" /\ call[n].tx = 1 /\ ~AllRun(n) /\ GroupOK(n)
    BY <1>2 DEF Executed, Runs, Identity, PairInv
  <2>2. call[n].st \in {1, 2} /\ Statement(n) = <<"insertRoom", "insertRoomMembers">>[call[n].st]
    <3>1. Transaction(n) = <<"insertRoom", "insertRoomMembers">> /\ call[n].st \in 1..3
      BY <2>1, GroupRuns
    <3>2. Len(Transaction(n)) = 2
      BY <3>1
    <3> QED  BY <2>1, <3>1, <3>2 DEF AllRun, Statement
  <2>3. /\ Holds(n)' = DOMAIN Now(n).writes \union Holds(n)
        /\ call'[n].work = Over(Now(n).writes, call[n].work) /\ call'[n].st = call[n].st + 1
    BY <1>2 DEF Executed, Holds, Over
  <2>4. CASE call[n].st = 1
    <3>1. Now(n) = Put(<<"room", n>>, TRUE, n) /\ Holds(n) = {}
      BY <2>1, <2>2, <2>4, SeeFresh DEF Now, Result, InsertRoom
    <3> QED  BY <2>3, <2>4, <3>1 DEF GroupOK, Put, Sql, Write, Over
  <2>5. CASE call[n].st = 2
    <3>1. Now(n) = Put(<<"roomMembers", n>>, TRUE, n)
      BY <2>2, <2>5 DEF Now, Result, InsertRoomMembers
    <3> QED  BY <2>1, <2>3, <2>5, <3>1 DEF GroupOK, Put, Sql, Write, Over, Holds
  <2> QED  BY <2>2, <2>4, <2>5
<1> QED  BY <1>1, <1>2 DEF Stepped, Started, LandedAlone, LandedWhole, Landed, Again, Stopped

LEMMA PairInit == ASSUME SqlInit PROVE PairInv
<1>1. PICK left \in Left(topic) :
           /\ \A c \in Rows : c \notin DOMAIN left => db[c] = Absent(c[1])
           /\ \A c \in DOMAIN left : db[c] = left[c]
  BY LeftRows
<1>2. \A c \in DOMAIN left : c[1] \in TablesOf(topic)
  BY LeftTables DEF SqlInit
<1>3. PairRow # PairMembers /\ {PairRow, PairMembers} \subseteq Rows /\ PairRow[1] = "pair" /\ PairMembers[1] = "pairMembers"
  BY DEF Rows, PairRow, PairMembers
<1>4. Absent("pair") = None /\ Absent("pairMembers") = FALSE
  BY DEF Absent
<1>5. CASE PairRow \notin DOMAIN left /\ PairMembers \notin DOMAIN left
  <2>1. db[PairRow] = None /\ db[PairMembers] = FALSE
    BY <1>1, <1>3, <1>4, <1>5
  <2> QED  BY <2>1 DEF SqlInit, PairInv, NoCall, DirectOK, GroupOK
<1>6. CASE left = Over(Write(PairRow, 0), Write(PairMembers, TRUE))
  <2>1. DOMAIN left = {PairRow, PairMembers} /\ left[PairRow] = 0 /\ left[PairMembers] = TRUE
    BY <1>3, <1>6 DEF Over, Write
  <2>2. db[PairRow] = 0 /\ db[PairMembers] = TRUE
    BY <1>1, <2>1
  <2>3. (db[PairRow] # None) = TRUE
    BY <2>2 DEF None
  <2> QED  BY <2>2, <2>3 DEF SqlInit, PairInv, NoCall, DirectOK, GroupOK
<1>7. CASE topic # "pair"
  <2>1. {"pair", "pairMembers"} \intersect TablesOf(topic) = {}
    BY <1>7 DEF SqlInit, Topics, TablesOf
  <2> QED  BY <1>2, <1>3, <1>5, <2>1
<1> QED  BY <1>1, <1>5, <1>6, <1>7, EmptyWork DEF Left

LEMMA PairStep ==
  ASSUME BaseInv, PairInv, NEW n \in Calls, Stepped(n) PROVE PairInv'
<1>1. Bundled => db'[PairMembers] = (db'[PairRow] # None)
  BY PairStays
<1>2. Bundled' = Bundled
  BY DEF Stepped, Started, Opened, Executed, LandedAlone, LandedWhole, Landed, Again, Stopped, OthersStay, Bundled
<1>3. \A m \in Calls : DirectOK(m)' /\ GroupOK(m)'
  BY DirectStays, DirectMoves, GroupStays, GroupMoves
<1> QED  BY <1>1, <1>2, <1>3 DEF PairInv

LEMMA PairKeeps ==
  ASSUME BaseInv, MessageInv, OwnInv, BansOwned, PairInv,
         NEW n \in Calls, NEW new, NEW note, Lands(n, new, note), topic = "pair"
  PROVE  MeetsContract
<1> SUFFICES ASSUME <<backend, topic>> \notin Exempt, DOMAIN new # {} PROVE MeetsContract
  BY NothingLands DEF MeetsContract
<1>1. Running(n) /\ Bundled /\ call[n].op \in {"direct", "group"}
  BY OperationOf DEF Lands, Running, Exempt, Bundled, Operations
<1>2. /\ \A c \in DOMAIN new : db'[c] = new[c]
      /\ \A c \in DOMAIN db : c \notin DOMAIN new => db'[c] = db[c]
  BY Undisturbed
<1>3. Rows \subseteq DOMAIN db
  BY DEF BaseInv
<1>4. ASSUME call[n].tx = 1 PROVE n \in RowIds /\ Contract!Fresh(n)
  BY <1>1, <1>4, IdsAreFresh DEF OwnInv
<1>5. CASE call[n].op = "group"
  <2>1. /\ call[n].tx = 1 /\ DOMAIN new = {<<"room", n>>, <<"roomMembers", n>>}
        /\ new[<<"room", n>>] = TRUE /\ new[<<"roomMembers", n>>] = TRUE
    BY <1>5, GroupLands
  <2>2. \A g \in Parts \ {"rooms"} : Kept(g)
    <3>1. \A g \in Parts \ {"rooms"} : PartTables(g) \intersect {"room", "roomMembers"} = {}
      BY DEF Parts, PartTables
    <3> QED  BY <2>1, <3>1, PartStands
  <2>3. /\ \A k \in Calls \ {n} : db'[<<"room", k>>] = db[<<"room", k>>] /\ db'[<<"roomMembers", k>>] = db[<<"roomMembers", k>>]
        /\ db'[<<"room", n>>] = TRUE /\ db'[<<"roomMembers", n>>] = TRUE
    BY <1>2, <1>3, <2>1 DEF Rows
  <2>4. /\ Stored.rooms = [k \in {k \in Calls : db[<<"room", k>>]} |-> db[<<"roomMembers", k>>]]
        /\ Stored'["rooms"] = [k \in {k \in Calls : db'[<<"room", k>>]} |-> db'[<<"roomMembers", k>>]]
    BY DEF Stored, Present
  <2>5. {k \in Calls : db'[<<"room", k>>]} = {k \in Calls : db[<<"room", k>>]} \union {n}
    BY <2>3
  <2>6. Stored'["rooms"] = Contract!With(Stored.rooms, n, TRUE)
    <3>1. \A k \in Calls : k # n /\ db[<<"room", k>>] => Stored.rooms[k] = db'[<<"roomMembers", k>>]
      BY <2>3, <2>4
    <3>2. DOMAIN Stored.rooms = {k \in Calls : db[<<"room", k>>]}
      BY <2>4
    <3> QED  BY <2>3, <2>4, <2>5, <3>1, <3>2 DEF Contract!With
  <2>7. Stored' = [Stored EXCEPT !["rooms"] = Contract!With(Stored.rooms, n, TRUE)]
    BY <2>2, <2>6, OnePart DEF Parts
  <2>8. n \in RowIds /\ Contract!CreateGroup(n)
    BY <1>4, <2>1, <2>7 DEF Contract!CreateGroup
  <2> QED  BY <2>8 DEF MeetsContract, Contract!Next
<1>6. CASE call[n].op = "direct"
  <2>1. call[n].tx = 1
    BY <1>1, <1>6, BundledRuns, PairAnswers
  <2>2. /\ db[PairRow] = None /\ DOMAIN new = {PairRow, PairMembers}
        /\ new[PairRow] = n /\ new[PairMembers] = TRUE
    BY <1>1, <1>6, <2>1, BundledLands
  <2>3. \A g \in Parts \ {"pair"} : Kept(g)
    <3>1. \A g \in Parts \ {"pair"} : PartTables(g) \intersect {"pair", "pairMembers"} = {}
      BY DEF Parts, PartTables
    <3> QED  BY <2>2, <3>1, PartStands DEF PairRow, PairMembers
  <2>4. db'[PairRow] = n /\ db'[PairMembers] = TRUE
    BY <1>2, <2>2
  <2>5. db[PairMembers] = FALSE
    <3>1. db[PairMembers] = (db[PairRow] # None) /\ (db[PairRow] # None) = FALSE
      BY <1>1, <2>2 DEF PairInv
    <3> QED  BY <3>1
  <2>6. Stored.pair = Contract!NoPair
    BY <2>2, <2>5 DEF Stored, Contract!NoPair, Contract!None, None
  <2>7. Stored'["pair"] = [id |-> n, whole |-> TRUE]
    BY <2>4 DEF Stored
  <2>8. Stored' = [Stored EXCEPT !["pair"] = [id |-> n, whole |-> TRUE]]
    BY <2>3, <2>7, OnePart DEF Parts
  <2>9. n \in RowIds /\ Contract!GetOrCreateDirect(n)
    BY <1>4, <2>1, <2>6, <2>8 DEF Contract!GetOrCreateDirect
  <2> QED  BY <2>9 DEF MeetsContract, Contract!Next
<1> QED  BY <1>1, <1>5, <1>6

LEMMA HighestOne ==
  ASSUME NEW n \in Nat, NEW S \in SUBSET (0 .. n), S # {}
  PROVE  Max(S) \in S /\ \A y \in S : Max(S) >= y
  <1> DEFINE Above(x) == {y \in S : y > x}
             F == {Above(x) : x \in S}
  <1> S \subseteq Int /\ \A x \in S : x >= 0 /\ x <= n
    OBVIOUS
  <1>1. IsFiniteSet(S)
    <2>1. IsFiniteSet(0 .. n)
      BY FS_Interval, 0 \in Int, n \in Int
    <2> QED  BY <2>1, FS_Subset
  <1>2. IsWellFoundedOn(StrictSubsetOrdering(S), FiniteSubsetsOf(S))
    BY FS_StrictSubsetOrderingWellFounded
  <1>3. F \subseteq FiniteSubsetsOf(S) /\ F # {}
    <2>1. FiniteSubsetsOf(S) = SUBSET S
      BY <1>1, FS_FiniteSubsetsOfFinite
    <2>2. \A x \in S : Above(x) \subseteq S
      OBVIOUS
    <2> HIDE DEF Above
    <2>3. F \subseteq SUBSET S
      BY <2>2
    <2>4. PICK x \in S : TRUE
      OBVIOUS
    <2>5. Above(x) \in F
      BY <2>4
    <2> HIDE DEF F
    <2> QED  BY <2>1, <2>3, <2>5
  <1>4. PICK x \in S : \A y \in S : Above(y) \subseteq Above(x) => Above(y) = Above(x)
    <2>1. \A y \in S : Above(y) \in F
      OBVIOUS
    <2>2. \A X \in F : \E x \in S : X = Above(x)
      OBVIOUS
    <2> HIDE DEF F
    <2>3. PICK X \in F : \A Y \in F : ~(<<Y, X>> \in StrictSubsetOrdering(S))
      BY <1>2, <1>3, WFMin
    <2>4. PICK x \in S : X = Above(x)
      BY <2>2
    <2>5. ASSUME NEW y \in S, Above(y) \subseteq Above(x) PROVE Above(y) = Above(x)
      BY <2>1, <2>3, <2>4, <2>5 DEF StrictSubsetOrdering
    <2> QED  BY <2>5
  <1>5. ASSUME NEW y \in S, y > x
        PROVE  FALSE
    <2>1. x \in Int /\ y \in Int /\ \A z \in S : z \in Int
      OBVIOUS
    <2>2. \A z \in S : z > y => z > x
      BY <1>5, <2>1
    <2>3. Above(y) \subseteq Above(x)
      BY <2>2
    <2>4. y \in Above(x) /\ y \notin Above(y)
      BY <1>5, <2>1
    <2> QED  BY <1>4, <2>3, <2>4
  <1>6. \A y \in S : x >= y
    BY <1>5
  <1> QED  BY <1>6 DEF Max

-----------------------------------------------------------------------------
(* Bans: a row that is there stays, an answer names one that is there, and *)
(* where one call at a time may land a ban, none lands beside an active.   *)

Guarded == backend \in {"sqlite", "turso"}
LandAt == IF backend = "prisma" THEN 4 ELSE IF backend = "supabase" THEN 3 ELSE 2

IsBan(v) == DOMAIN v = {"by", "revokedBy"} /\ v.revokedBy # "none"
BanWork(w) ==
  \A i \in RowIds : Ban(i) \in DOMAIN w =>
    IsBan(w[Ban(i)]) \/ (w[Ban(i)] = NoBan /\ db[Ban(i)] = NoBan)
Seen(n) == Note(n) \in RowIds /\ See(n, Ban(Note(n))) # NoBan
NoneActive == \A i \in RowIds : ~IsActive(db[Ban(i)])

BanOK(n) ==
  call[n].op = "ban" =>
    /\ Running(n) /\ call[n].tx = 1 /\ ~Guarded /\ call[n].st = LandAt => Note(n) = None \/ Seen(n)
    /\ Running(n) /\ call[n].tx = 1 /\ ~Guarded /\ call[n].st > LandAt => Seen(n)
    /\ call[n].phase = "done" => Seen(n)

\* On supabase the ban lock is held from the first statement to the commit.
LockedBanOK(n) ==
  call[n].op = "ban" /\ Running(n) /\ backend = "supabase" =>
    /\ Holds(n) \subseteq {BanLock, Ban(n)}
    /\ call[n].st \geq 2 => BanLock \in Holds(n)
    /\ call[n].st \leq 3 => Ban(n) \notin Holds(n)
    /\ Ban(n) \in Holds(n) => call[n].work[Ban(n)] = [by |-> Arg(n), revokedBy |-> Nobody]
    /\ (call[n].st = 3 /\ Note(n) = None) \/ Ban(n) \in Holds(n) => NoneActive

BanInv ==
  /\ \A i \in RowIds : db[Ban(i)] = NoBan \/ IsBan(db[Ban(i)])
  /\ \A n \in Calls : BanWork(call[n].work) /\ BanOK(n) /\ LockedBanOK(n)
  /\ BansOwned

LEMMA BanRuns ==
  ASSUME BaseInv, NEW n \in Calls, Running(n), topic = "ban"
  PROVE  /\ call[n].op \in {"ban", "revoke"} /\ call[n].tx \in Nat
         /\ call[n].op = "ban" => Arg(n) \in Moderators
         /\ call[n].op = "revoke" =>
              /\ AutoCommits(n) /\ Arg(n).by \in Moderators /\ Arg(n).ban \in {0, 1}
              /\ \/ Transaction(n)[1] \in {"revokeActive", "findTarget"}
                 \/ Transaction(n)[1] = "revokeAny" /\ <<backend, topic>> \in Exempt
         /\ call[n].op = "ban" /\ Guarded =>
              /\ AutoCommits(n) /\ call[n].tx \in {1, 2}
              /\ call[n].tx = 1 => Transaction(n)[1] = "guardedBan" /\ ~LastTransaction(n)
              /\ call[n].tx = 2 => Transaction(n)[1] = "answerBan" /\ LastTransaction(n)
         /\ call[n].op = "ban" /\ ~Guarded /\ call[n].tx = 1 =>
              /\ ~AutoCommits(n) /\ LandAt \in {2, 3, 4} /\ call[n].st \in 1..(LandAt + 1)
              /\ AllRun(n) <=> call[n].st = LandAt + 1
              /\ Opens(n) => call[n].st = 1 /\ backend = "prisma"
              /\ ~Opens(n) /\ call[n].st = 1 => backend # "prisma"
              /\ call[n].st = LandAt => Statement(n) = "landBan"
              /\ call[n].st = LandAt - 1 =>
                   Statement(n) = (IF backend = "mysql" THEN "lockBans" ELSE "findBan")
              /\ call[n].st = LandAt - 2 => Statement(n) = "takeBanLock"
         /\ call[n].op = "ban" /\ ~Guarded /\ call[n].tx # 1 =>
              /\ AutoCommits(n) /\ Transaction(n)[1] = "answerBan" /\ LastTransaction(n)
              /\ backend = "drizzle"
<1>1. PICK r \in Requests("ban") : call[n].op = r[1] /\ call[n].arg = r[2]
  BY DEF Running, BaseInv, CallOK, Asked
<1>2. \/ call[n].op = "ban" /\ Arg(n) \in Moderators
      \/ call[n].op = "revoke" /\ Arg(n).by \in Moderators /\ Arg(n).ban \in {0, 1}
  BY <1>1 DEF Requests, Banning, Arg
<1>3. call[n].tx \in 1..Len(Program(n)) /\ backend \in Backends /\ call[n].st \in 1..(Len(Transaction(n)) + 1)
  BY RunsWell DEF BaseInv
<1>4. CASE call[n].op = "revoke"
  <2>1. \/ Program(n) = << <<"revokeActive">> >>
        \/ backend = "mysql" /\ Program(n) = << <<"revokeAny">>, <<"findTarget">> >>
        \/ backend = "prisma" /\ Program(n) = << <<"revokeAny">> >>
        \/ Program(n) = << <<"findTarget">>, <<"revokeActive">> >>
    BY <1>3, <1>4, BanPrograms DEF Program, Backends
  <2>2. CASE Len(Program(n)) = 1
    <3>1. call[n].tx = 1
      BY <1>3, <2>2
    <3> QED  BY <1>2, <1>4, <2>1, <2>2, <3>1 DEF Transaction, AutoCommits, Exempt
  <2>3. CASE Len(Program(n)) = 2
    <3>1. call[n].tx \in {1, 2}
      BY <1>3, <2>3
    <3> QED  BY <1>2, <1>4, <2>1, <2>3, <3>1 DEF Transaction, AutoCommits, Exempt
  <2> QED  BY <2>1, <2>2, <2>3
<1>5. CASE call[n].op = "ban" /\ Guarded
  <2>1. Program(n) = << <<"guardedBan">>, <<"answerBan">> >>
    BY <1>3, <1>5, BanPrograms DEF Program, Backends, Guarded
  <2>2. Len(Program(n)) = 2 /\ call[n].tx \in {1, 2}
    BY <1>3, <2>1
  <2> QED  BY <1>2, <1>5, <2>1, <2>2 DEF Transaction, AutoCommits, LastTransaction
<1>6. CASE call[n].op = "ban" /\ backend = "drizzle"
  <2>1. Program(n) = << <<"findBan", "landBan">>, <<"answerBan">> >>
    BY <1>3, <1>6, BanPrograms DEF Program, Backends
  <2>2. Len(Program(n)) = 2 /\ call[n].tx \in {1, 2} /\ LandAt = 2 /\ ~Guarded
    BY <1>3, <1>6, <2>1 DEF LandAt, Guarded
  <2>3. CASE call[n].tx = 1
    <3>1. Transaction(n) = <<"findBan", "landBan">>
      BY <2>1, <2>3 DEF Transaction
    <3>2. Len(Transaction(n)) = 2 /\ call[n].st \in 1..3
      BY <1>3, <3>1
    <3> QED  BY <1>2, <1>6, <2>2, <2>3, <3>1, <3>2 DEF AutoCommits, Opens, AllRun, Statement, Snapshot
  <2>4. CASE call[n].tx = 2
    <3>1. Transaction(n) = <<"answerBan">>
      BY <2>1, <2>4 DEF Transaction
    <3> QED  BY <1>2, <1>6, <2>2, <2>4, <3>1 DEF AutoCommits, LastTransaction
  <2> QED  BY <2>2, <2>3, <2>4
<1>7. CASE call[n].op = "ban" /\ backend = "mysql"
  <2>1. Program(n) = << <<"lockBans", "landBan">> >>
    BY <1>3, <1>7, BanPrograms DEF Program, Backends
  <2>2. Len(Program(n)) = 1 /\ call[n].tx = 1 /\ LandAt = 2 /\ ~Guarded
    BY <1>3, <1>7, <2>1 DEF LandAt, Guarded
  <2>3. Transaction(n) = <<"lockBans", "landBan">>
    BY <2>1, <2>2 DEF Transaction
  <2>4. Len(Transaction(n)) = 2 /\ call[n].st \in 1..3
    BY <1>3, <2>3
  <2> QED  BY <1>2, <1>7, <2>2, <2>3, <2>4 DEF AutoCommits, Opens, AllRun, Statement, Snapshot
<1>8. CASE call[n].op = "ban" /\ backend = "prisma"
  <2>1. Program(n) = << <<Snapshot, "takeBanLock", "findBan", "landBan">> >>
    BY <1>3, <1>8, BanPrograms DEF Program, Backends
  <2>2. Len(Program(n)) = 1 /\ call[n].tx = 1 /\ LandAt = 4 /\ ~Guarded
    BY <1>3, <1>8, <2>1 DEF LandAt, Guarded
  <2>3. Transaction(n) = <<Snapshot, "takeBanLock", "findBan", "landBan">>
    BY <2>1, <2>2 DEF Transaction
  <2>4. Len(Transaction(n)) = 4 /\ call[n].st \in 1..5
    BY <1>3, <2>3
  <2> QED  BY <1>2, <1>8, <2>2, <2>3, <2>4 DEF AutoCommits, Opens, AllRun, Statement, Snapshot
<1>9. CASE call[n].op = "ban" /\ backend = "supabase"
  <2>1. Program(n) = << <<"takeBanLock", "findBan", "landBan">> >>
    BY <1>3, <1>9, BanPrograms DEF Program, Backends
  <2>2. Len(Program(n)) = 1 /\ call[n].tx = 1 /\ LandAt = 3 /\ ~Guarded
    BY <1>3, <1>9, <2>1 DEF LandAt, Guarded
  <2>3. Transaction(n) = <<"takeBanLock", "findBan", "landBan">>
    BY <2>1, <2>2 DEF Transaction
  <2>4. Len(Transaction(n)) = 3 /\ call[n].st \in 1..4
    BY <1>3, <2>3
  <2> QED  BY <1>2, <1>9, <2>2, <2>3, <2>4 DEF AutoCommits, Opens, AllRun, Statement, Snapshot
<1> QED  BY <1>2, <1>3, <1>4, <1>5, <1>6, <1>7, <1>8, <1>9 DEF Backends, Guarded

\* The newest of the active bans a call sees.
LEMMA NewestActive ==
  ASSUME NEW n
  PROVE  /\ ActiveBans(n) = {} => NewestOf(ActiveBans(n)) = None
         /\ ActiveBans(n) # {} =>
              LET newest == NewestOf(ActiveBans(n))
              IN  newest \in RowIds /\ newest # None /\ See(n, Ban(newest)).revokedBy = Nobody
                    /\ See(n, Ban(newest)) # NoBan
<1>1. CASE ActiveBans(n) # {}
  <2>1. ActiveBans(n) \in SUBSET (0..MaxCalls) /\ MaxCalls \in Nat
    BY SqlAssumption DEF ActiveBans, RowIds
  <2>2. Max(ActiveBans(n)) \in ActiveBans(n)
    BY <1>1, <2>1, HighestOne
  <2>3. NewestOf(ActiveBans(n)) = Max(ActiveBans(n))
    BY <1>1 DEF NewestOf
  <2>4. PICK i : i = Max(ActiveBans(n))
    OBVIOUS
  <2>5. i \in RowIds /\ See(n, Ban(i)).revokedBy = Nobody /\ i # None
    BY <2>1, <2>2, <2>4 DEF ActiveBans, IsActive, None
  <2> QED  BY <1>1, <2>3, <2>4, <2>5 DEF NoBan, Nobody
<1> QED  BY <1>1 DEF NewestOf

LEMMA BansLand ==
  ASSUME BaseInv, NEW n \in Calls, NEW new, NEW note, Lands(n, new, note)
  PROVE  /\ call[n].op \notin {"ban", "revoke"} =>
              topic # "ban" /\ \A c \in DOMAIN new : c[1] \notin {"ban", "banLock"}
         /\ call[n].op = "revoke" /\ DOMAIN new # {} =>
              /\ new = Write(Target(n), [db[Target(n)] EXCEPT !.revokedBy = Arg(n).by])
              /\ db[Target(n)] # NoBan /\ Arg(n).ban \in RowIds /\ Arg(n).by \in Moderators
              /\ IsActive(db[Target(n)]) \/ <<backend, topic>> \in Exempt
         /\ call[n].op = "ban" /\ Guarded /\ call[n].tx = 1 /\ DOMAIN new # {} =>
              NoneActive /\ new = Write(Ban(n), [by |-> Arg(n), revokedBy |-> Nobody])
         /\ call[n].op = "ban" /\ (Guarded \/ call[n].tx # 1) => AutoCommits(n)
         /\ call[n].op = "ban" /\ call[n].tx # 1 =>
              DOMAIN new = {} /\ note \in RowIds /\ db[Ban(note)] # NoBan /\ LastTransaction(n)
         /\ call[n].op = "ban" /\ Guarded /\ call[n].tx = 1 => ~LastTransaction(n)
         /\ call[n].op = "ban" /\ ~Guarded /\ call[n].tx = 1 =>
              new = call[n].work /\ note = Note(n) /\ Ground(n) = db /\ call[n].st = LandAt + 1
         /\ call[n].op \in {"ban", "revoke"} => topic = "ban" /\ (call[n].op = "ban" => Arg(n) \in Moderators)
<1>1. Running(n) /\ topic \in Topics
  BY DEF Lands, BaseInv
<1>2. CASE topic # "ban"
  <2>1. {"ban", "banLock"} \intersect TablesOf(topic) = {} /\ {"ban", "revoke"} \intersect Operations(topic) = {}
    BY <1>1, <1>2 DEF Topics, TablesOf, Operations
  <2>2. call[n].op \in Operations(topic)
    BY <1>1, OperationOf DEF Running
  <2>3. \A c \in DOMAIN new : c[1] \in TablesOf(topic)
    BY Undisturbed
  <2> QED  BY <1>2, <2>1, <2>2, <2>3
<1>3. CASE topic = "ban" /\ call[n].op = "revoke"
  <2>1. /\ AutoCommits(n) /\ Arg(n).by \in Moderators /\ Arg(n).ban \in {0, 1}
        /\ \/ Transaction(n)[1] \in {"revokeActive", "findTarget"}
           \/ Transaction(n)[1] = "revokeAny" /\ <<backend, topic>> \in Exempt
    BY <1>1, <1>3, BanRuns
  <2>2. Arg(n).ban \in RowIds
    BY <2>1, SqlAssumption DEF RowIds
  <2> DEFINE s == Statement(n)
  <2>3. new = Result(n, s).writes /\ s = Transaction(n)[1] /\ ~Result(n, s).throws /\ \A c : See(n, c) = db[c]
    BY <2>1, AloneLands
  <2>4. \/ s \in {"revokeActive", "findTarget"}
        \/ s = "revokeAny" /\ <<backend, topic>> \in Exempt
    BY <2>1, <2>3
  <2> HIDE DEF s
  <2>5. PICK t : t = Target(n)
    OBVIOUS
  <2>6. See(n, t) = db[t] /\ Revoked(n) = [db[t] EXCEPT !.revokedBy = Arg(n).by]
    BY <2>3, <2>5 DEF Revoked
  <2>7. CASE s = "findTarget"
    <3>1. new = FindTarget(n).writes
      BY <2>3, <2>7 DEF Result
    <3>2. DOMAIN new = {}
      BY <3>1, EmptyWork DEF FindTarget, Throws, Select, Sql
    <3> QED  BY <1>3, <3>2
  <2>8. CASE s = "revokeAny"
    <3>1. new = RevokeAny(n).writes /\ ~RevokeAny(n).throws
      BY <2>3, <2>8 DEF Result
    <3>2. db[t] # NoBan
      BY <2>5, <2>6, <3>1 DEF RevokeAny, Throws
    <3>3. new = Write(t, Revoked(n))
      BY <2>5, <2>6, <3>1, <3>2 DEF RevokeAny, Put, Sql
    <3> QED  BY <1>3, <2>1, <2>2, <2>4, <2>5, <2>6, <2>8, <3>2, <3>3
  <2>9. CASE s = "revokeActive"
    <3>1. new = RevokeActive(n).writes /\ ~RevokeActive(n).throws
      BY <2>3, <2>9 DEF Result
    <3>2. db[t] # NoBan
      BY <2>5, <2>6, <3>1 DEF RevokeActive, Throws
    <3>3. RevokeActive(n) = PutIf(IsActive(db[t]), t, Revoked(n), "ok")
      BY <2>5, <2>6, <3>2 DEF RevokeActive
    <3>4. DOMAIN new # {} => IsActive(db[t]) /\ new = Write(t, Revoked(n))
      BY <3>1, <3>3, EmptyWork DEF PutIf, Sql
    <3> QED  BY <1>3, <2>1, <2>2, <2>5, <2>6, <3>2, <3>4
  <2> QED  BY <2>4, <2>7, <2>8, <2>9
<1>4. CASE topic = "ban" /\ call[n].op = "ban" /\ (Guarded \/ call[n].tx # 1)
  <2>1. /\ AutoCommits(n) /\ Arg(n) \in Moderators
        /\ Guarded /\ call[n].tx = 1 => Transaction(n)[1] = "guardedBan" /\ ~LastTransaction(n)
        /\ call[n].tx # 1 => Transaction(n)[1] = "answerBan" /\ LastTransaction(n)
    BY <1>1, <1>4, BanRuns
  <2> DEFINE s == Statement(n)
  <2>2. /\ new = Result(n, s).writes /\ note = Result(n, s).note /\ ~Result(n, s).throws
        /\ s = Transaction(n)[1] /\ \A c : See(n, c) = db[c]
    BY <2>1, AloneLands
  <2>3. /\ Guarded /\ call[n].tx = 1 => s = "guardedBan"
        /\ call[n].tx # 1 => s = "answerBan"
    BY <2>1, <2>2
  <2> HIDE DEF s
  <2>4. ActiveBans(n) = {} => NoneActive
    BY <2>2 DEF ActiveBans, NoneActive
  <2>5. CASE Guarded /\ call[n].tx = 1
    <3>1. new = GuardedBan(n).writes
      BY <2>2, <2>3, <2>5 DEF Result
    <3>2. DOMAIN new # {} => ActiveBans(n) = {} /\ new = Write(Ban(n), [by |-> Arg(n), revokedBy |-> Nobody])
      BY <3>1, EmptyWork DEF GuardedBan, Sql, NewBan
    <3> QED  BY <1>4, <2>1, <2>4, <2>5, <3>2
  <2>6. CASE call[n].tx # 1
    <3>1. new = AnswerBan(n).writes /\ note = AnswerBan(n).note /\ ~AnswerBan(n).throws
      BY <2>2, <2>3, <2>6 DEF Result
    <3>2. ActiveBans(n) # {}
      BY <3>1 DEF AnswerBan, Throws
    <3>3. DOMAIN new = {} /\ note = NewestOf(ActiveBans(n))
      BY <3>1, <3>2, EmptyWork DEF AnswerBan, FindBan, Select, Sql
    <3>4. note \in RowIds /\ See(n, Ban(note)) # NoBan
      BY <3>2, <3>3, NewestActive
    <3>5. See(n, Ban(note)) = db[Ban(note)]
      BY <2>2
    <3> QED  BY <1>4, <2>1, <2>6, <3>3, <3>4, <3>5
  <2> QED  BY <1>4, <2>5, <2>6
<1>5. CASE topic = "ban" /\ call[n].op = "ban" /\ ~Guarded /\ call[n].tx = 1
  <2>1. ~AutoCommits(n) /\ Arg(n) \in Moderators /\ (AllRun(n) <=> call[n].st = LandAt + 1)
    BY <1>1, <1>5, BanRuns
  <2>2. new = call[n].work /\ note = Note(n) /\ AllRun(n)
    BY <2>1 DEF Lands
  <2> QED  BY <1>5, <2>1, <2>2, LandGround
<1> QED  BY <1>1, <1>2, <1>3, <1>4, <1>5, BanRuns

LEMMA BansWritten ==
  ASSUME BaseInv, BanInv, NEW n \in Calls, NEW new, NEW note, Lands(n, new, note)
  PROVE  BanWork(new)
<1>1. \A i \in RowIds : Ban(i)[1] = "ban" /\ \A j \in RowIds : Ban(i) = Ban(j) => i = j
  BY DEF Ban
<1>2. CASE DOMAIN new = {}
  BY <1>2 DEF BanWork
<1>3. CASE call[n].op \notin {"ban", "revoke"}
  BY <1>1, <1>3, BansLand DEF BanWork
<1>4. CASE call[n].op = "revoke" /\ DOMAIN new # {}
  <2>1. /\ new = Write(Target(n), [db[Target(n)] EXCEPT !.revokedBy = Arg(n).by])
        /\ db[Target(n)] # NoBan /\ Arg(n).ban \in RowIds /\ Arg(n).by \in Moderators
    BY <1>4, BansLand
  <2>2. IsBan(db[Target(n)])
    BY <2>1 DEF BanInv, Target
  <2>3. IsBan([db[Target(n)] EXCEPT !.revokedBy = Arg(n).by])
    BY <2>1, <2>2, SqlAssumption DEF IsBan
  <2>4. PICK v : v = [db[Target(n)] EXCEPT !.revokedBy = Arg(n).by]
    OBVIOUS
  <2>5. DOMAIN new = {Target(n)} /\ new[Target(n)] = v /\ IsBan(v)
    BY <2>1, <2>3, <2>4 DEF Write
  <2> QED  BY <2>5 DEF BanWork
<1>5. ASSUME new = Write(Ban(n), [by |-> Arg(n), revokedBy |-> Nobody]) PROVE BanWork(new)
  <2>1. DOMAIN new = {Ban(n)} /\ new[Ban(n)] = [by |-> Arg(n), revokedBy |-> Nobody]
    BY <1>5 DEF Write
  <2>2. IsBan(new[Ban(n)])
    BY <2>1 DEF IsBan, Nobody
  <2> QED  BY <2>1, <2>2 DEF BanWork
<1>6. CASE call[n].op = "ban"
  BY <1>2, <1>5, <1>6, BansLand DEF BanInv
<1> QED  BY <1>2, <1>3, <1>4, <1>6

LEMMA BansStay ==
  ASSUME BaseInv, BanInv, NEW n \in Calls, Stepped(n), NEW i \in RowIds
  PROVE  /\ db[Ban(i)] # NoBan => db'[Ban(i)] # NoBan
         /\ db'[Ban(i)] = NoBan \/ IsBan(db'[Ban(i)])
<1>1. db[Ban(i)] = NoBan \/ IsBan(db[Ban(i)])
  BY DEF BanInv
<1>2. ASSUME NEW new, NEW note, Lands(n, new, note)
      PROVE  db'[Ban(i)] = db[Ban(i)] \/ IsBan(db'[Ban(i)]) \/ (db'[Ban(i)] = NoBan /\ db[Ban(i)] = NoBan)
  <2>1. Ban(i) \in DOMAIN db
    BY DEF BaseInv, Rows, Ban
  <2>2. BanWork(new)
    BY <1>2, BansWritten
  <2>3. /\ \A c \in DOMAIN new : db'[c] = new[c]
        /\ \A c \in DOMAIN db : c \notin DOMAIN new => db'[c] = db[c]
    BY <1>2, Undisturbed
  <2> QED  BY <2>1, <2>2, <2>3 DEF BanWork
<1>3. ~IsBan(NoBan)
  BY DEF IsBan, NoBan
<1> QED  BY <1>1, <1>2, <1>3, StepLands

LEMMA BansStayHeld ==
  ASSUME BaseInv, BanInv, NEW n \in Calls, Stepped(n), NEW m \in Calls \ {n}
  PROVE  BanWork(call[m].work)' /\ BanOK(m)'
<1>1. /\ call'[m] = call[m] /\ UNCHANGED <<backend, topic>>
      /\ \A c \in Holds(m) \intersect DOMAIN db : db'[c] = db[c]
  BY OthersKeep
<1>2. \A i \in RowIds : Ban(i) \in DOMAIN db
  BY DEF BaseInv, Rows, Ban
<1>3. BanWork(call[m].work)'
  <2>1. BanWork(call[m].work)
    BY DEF BanInv
  <2> QED  BY <1>1, <1>2, <2>1 DEF BanWork, Holds
<1>4. BanOK(m)
  BY DEF BanInv
<1>5. Seen(m) => Seen(m)'
  <2>1. \A i \in RowIds : See(m, Ban(i)) # NoBan => See(m, Ban(i))' # NoBan
    <3>1. \A i \in RowIds : db[Ban(i)] # NoBan => db'[Ban(i)] # NoBan
      BY BansStay
    <3> QED  BY <1>1, <3>1 DEF See
  <2>2. Note(m)' = Note(m)
    BY <1>1 DEF Note
  <2> QED  BY <1>1, <2>1, <2>2 DEF Seen, Note
<1>6. /\ Running(m)' = Running(m) /\ Guarded' = Guarded /\ LandAt' = LandAt /\ Note(m)' = Note(m)
  BY <1>1 DEF Running, Guarded, LandAt, Note
<1> QED  BY <1>1, <1>3, <1>4, <1>5, <1>6 DEF BanOK

LEMMA BanExecutes ==
  ASSUME BaseInv, BanInv, NEW n \in Calls, Executed(n), call[n].op = "ban"
  PROVE  /\ topic = "ban" /\ ~Guarded /\ call[n].tx = 1 /\ LandAt \in {2, 3, 4} /\ call[n].st \in 1..LandAt
         /\ BanWork(call[n].work)'
         /\ call[n].st = LandAt - 1 => Note(n)' = None \/ Seen(n)'
         /\ call[n].st = LandAt => Seen(n)'
<1>1. Running(n) /\ ~AllRun(n) /\ ~Opens(n) /\ ~AutoCommits(n) /\ topic = "ban"
  BY TopicIs DEF Executed, Runs, Topics, Operations
<1>2. ~Guarded /\ call[n].tx = 1
  BY <1>1, BanRuns
<1>3. LandAt \in {2, 3, 4} /\ call[n].st \in 1..(LandAt + 1) /\ call[n].st # LandAt + 1
  BY <1>1, <1>2, BanRuns
<1>4. call[n].st \in 1..LandAt
  BY <1>3
<1>5. /\ Note(n)' = Now(n).note /\ call'[n].work = Over(Now(n).writes, call[n].work)
      /\ call'[n].base = call[n].base /\ db' = db
  BY DEF Executed, Note
<1>6. BanWork(call[n].work) /\ BanOK(n) /\ n \in RowIds
  BY SqlAssumption DEF BanInv, RowIds, Calls
<1>7. ASSUME DOMAIN Now(n).writes = {}
      PROVE  BanWork(call[n].work)' /\ \A i \in RowIds : See(n, Ban(i))' = See(n, Ban(i))
  <2>1. \A c \in DOMAIN call[n].work : call'[n].work[c] = call[n].work[c]
    BY <1>5, <1>7 DEF Over
  <2>2. DOMAIN call'[n].work = DOMAIN call[n].work
    BY <1>5, <1>7 DEF Over
  <2>3. BanWork(call[n].work)'
    BY <1>5, <1>6, <2>1, <2>2 DEF BanWork
  <2>4. \A i \in RowIds : See(n, Ban(i))' = See(n, Ban(i))
    BY <1>5, <2>1, <2>2 DEF See
  <2> QED  BY <2>3, <2>4
<1>8. CASE call[n].st = LandAt
  <2>1. Now(n) = LandBan(n)
    <3>1. Statement(n) = "landBan"
      BY <1>1, <1>2, <1>8, BanRuns
    <3> QED  BY <3>1 DEF Now, Result
  <2>2. Note(n) = None \/ Seen(n)
    BY <1>1, <1>2, <1>6, <1>8 DEF BanOK
  <2>3. CASE Note(n) = None
    <3>1. Now(n).writes = NewBan(n) /\ Now(n).note = n
      BY <2>1, <2>3 DEF LandBan, Sql
    <3>2. DOMAIN NewBan(n) = {Ban(n)} /\ NewBan(n)[Ban(n)] = [by |-> Arg(n), revokedBy |-> Nobody]
      BY DEF NewBan, Write
    <3>3. IsBan([by |-> Arg(n), revokedBy |-> Nobody]) /\ [by |-> Arg(n), revokedBy |-> Nobody] # NoBan
      BY DEF IsBan, Nobody, NoBan
    <3>4. /\ DOMAIN call'[n].work = {Ban(n)} \union DOMAIN call[n].work
          /\ call'[n].work[Ban(n)] = [by |-> Arg(n), revokedBy |-> Nobody]
          /\ \A c \in DOMAIN call[n].work : c # Ban(n) => call'[n].work[c] = call[n].work[c]
      BY <1>5, <3>1, <3>2 DEF Over
    <3>5. BanWork(call[n].work)'
      BY <1>5, <1>6, <3>3, <3>4 DEF BanWork
    <3>6. See(n, Ban(n))' = [by |-> Arg(n), revokedBy |-> Nobody]
      BY <3>4 DEF See
    <3>7. Seen(n)'
      BY <1>5, <1>6, <3>1, <3>3, <3>6 DEF Seen, Note
    <3> QED  BY <1>1, <1>2, <1>3, <1>4, <1>8, <3>5, <3>7
  <2>4. CASE Note(n) # None
    <3>1. Now(n).writes = <<>> /\ Now(n).note = Note(n)
      BY <2>1, <2>4 DEF LandBan, Sql
    <3>2. BanWork(call[n].work)' /\ \A i \in RowIds : See(n, Ban(i))' = See(n, Ban(i))
      BY <1>7, <3>1, EmptyWork
    <3>3. PICK k : k = Note(n)
      OBVIOUS
    <3>4. k \in RowIds /\ See(n, Ban(k)) # NoBan /\ Note(n)' = k
      BY <1>5, <2>2, <2>4, <3>1, <3>3 DEF Seen
    <3>5. Seen(n)'
      BY <3>2, <3>4 DEF Seen, Note
    <3> QED  BY <1>1, <1>2, <1>3, <1>4, <1>8, <3>2, <3>5
  <2> QED  BY <2>3, <2>4
<1>9. CASE call[n].st = LandAt - 1
  <2>1. Statement(n) = (IF backend = "mysql" THEN "lockBans" ELSE "findBan")
    BY <1>1, <1>2, <1>9, BanRuns
  <2>2. PICK k : k = NewestOf(ActiveBans(n))
    OBVIOUS
  <2>3. k = None \/ (k \in RowIds /\ See(n, Ban(k)) # NoBan)
    BY <2>2, NewestActive
  <2>4. /\ BanWork(call[n].work)' /\ \A i \in RowIds : See(n, Ban(i))' = See(n, Ban(i))
        /\ Note(n)' = k
    <3>1. CASE backend # "mysql"
      <4>1. Now(n) = FindBan(n)
        BY <2>1, <3>1 DEF Now, Result
      <4>2. Now(n).writes = <<>> /\ Now(n).note = k
        BY <2>2, <4>1 DEF FindBan, Select, Sql
      <4> QED  BY <1>5, <1>7, <4>2, EmptyWork
    <3>2. CASE backend = "mysql"
      <4>1. Now(n) = LockBans(n) /\ call[n].st = 1
        BY <1>9, <2>1, <3>2 DEF Now, Result, LandAt
      <4>2. Now(n).writes = [c \in Scanned(n) |-> See(n, c)] /\ Now(n).note = k
        BY <2>2, <4>1 DEF LockBans, Sql
      <4>3. Holds(n) = {} /\ \A c : See(n, c) = db[c]
        BY <4>1, SeeFresh
      <4>4. DOMAIN call'[n].work = Scanned(n) /\ \A c \in Scanned(n) : call'[n].work[c] = db[c]
        BY <1>5, <4>2, <4>3 DEF Over, Holds
      <4>5. \A i \in RowIds : Ban(i) \in Scanned(n) => db[Ban(i)] # NoBan
        BY <4>3 DEF Scanned, Ban, Gap
      <4>6. BanWork(call[n].work)'
        BY <1>5, <4>4, <4>5 DEF BanWork, BanInv
      <4>7. \A i \in RowIds : See(n, Ban(i))' = See(n, Ban(i))
        BY <1>5, <4>3, <4>4 DEF See, Holds
      <4> QED  BY <1>5, <4>2, <4>6, <4>7
    <3> QED  BY <3>1, <3>2
  <2>5. Note(n)' = None \/ Seen(n)'
    BY <2>3, <2>4 DEF Seen, Note
  <2> QED  BY <1>1, <1>2, <1>3, <1>4, <1>9, <2>4, <2>5
<1>10. CASE call[n].st \notin {LandAt, LandAt - 1}
  <2>1. call[n].st \in {LandAt - 2, LandAt - 3}
    BY <1>3, <1>4, <1>10
  <2>2. call[n].st = LandAt - 2
    <3>1. call[n].st = LandAt - 3 => LandAt = 4 /\ call[n].st = 1
      BY <1>3, <1>4
    <3>2. LandAt = 4 => backend = "prisma"
      BY DEF LandAt
    <3> QED  BY <1>1, <1>2, <2>1, <3>1, <3>2, BanRuns
  <2>3. Now(n) = TakeBanLock(n)
    <3>1. Statement(n) = "takeBanLock"
      BY <1>1, <1>2, <2>2, BanRuns
    <3> QED  BY <3>1 DEF Now, Result
  <2>4. Now(n).writes = Write(BanLock, 0)
    BY <2>3 DEF TakeBanLock, Put, Sql
  <2>5. \A i \in RowIds : Ban(i) # BanLock
    BY DEF Ban, BanLock
  <2>6. /\ DOMAIN call'[n].work = {BanLock} \union DOMAIN call[n].work
        /\ \A c \in DOMAIN call[n].work : c # BanLock => call'[n].work[c] = call[n].work[c]
    BY <1>5, <2>4 DEF Over, Write
  <2>7. BanWork(call[n].work)'
    BY <1>5, <1>6, <2>5, <2>6 DEF BanWork
  <2> QED  BY <1>1, <1>2, <1>3, <1>4, <1>10, <2>7
<1> QED  BY <1>8, <1>9, <1>10

LEMMA BanMoves ==
  ASSUME BaseInv, BanInv, NEW n \in Calls, Stepped(n)
  PROVE  BanWork(call[n].work)' /\ BanOK(n)'
<1>1. BanWork(call[n].work) /\ BanOK(n) /\ LandAt' \in {2, 3, 4}
  BY DEF BanInv, LandAt
<1>2. DOMAIN (call[n].work)' = {} => BanWork(call[n].work)'
  BY DEF BanWork
<1>3. CASE \E r \in Requests(topic) : Started(n, r)
  <2>1. call'[n].work = <<>> /\ call'[n].st = 1 /\ call'[n].phase = "running"
    BY <1>3 DEF Started
  <2>2. DOMAIN (call[n].work)' = {}
    BY <2>1, EmptyWork
  <2> QED  BY <1>1, <1>2, <2>1, <2>2 DEF BanOK, Running
<1>4. CASE Opened(n)
  <2>1. /\ call'[n].work = call[n].work /\ db' = db /\ call'[n].st = call[n].st + 1 /\ Running(n) /\ Opens(n)
        /\ call'[n].op = call[n].op /\ call'[n].phase = "running" /\ call'[n].tx = call[n].tx
        /\ UNCHANGED <<backend, topic>>
    BY <1>4 DEF Opened, Identity, OthersStay
  <2>2. BanWork(call[n].work)'
    BY <1>1, <2>1 DEF BanWork
  <2>3. ASSUME call[n].op = "ban", call[n].tx = 1, ~Guarded PROVE call'[n].st = 2 /\ LandAt' = 4
    <3>1. topic = "ban"
      BY <2>3, TopicIs DEF Topics, Operations
    <3> QED  BY <2>1, <2>3, <3>1, BanRuns DEF LandAt
  <2> QED  BY <2>1, <2>2, <2>3 DEF BanOK, Running, Guarded
<1>5. CASE Executed(n)
  <2>1. /\ call'[n].st = call[n].st + 1 /\ call'[n].op = call[n].op /\ call'[n].phase = "running"
        /\ call'[n].tx = call[n].tx /\ UNCHANGED <<backend, topic>> /\ Running(n) /\ ~AutoCommits(n)
        /\ db' = db
    BY <1>5 DEF Executed, Runs, Identity, OthersStay
  <2>2. CASE call[n].op = "ban"
    <3>1. /\ LandAt \in {2, 3, 4} /\ call[n].st \in 1..LandAt
          /\ BanWork(call[n].work)'
          /\ call[n].st = LandAt - 1 => Note(n)' = None \/ Seen(n)'
          /\ call[n].st = LandAt => Seen(n)'
      BY <1>5, <2>2, BanExecutes
    <3>2. LandAt' = LandAt
      BY <2>1 DEF LandAt
    <3>3. /\ call'[n].st = LandAt' => call[n].st = LandAt - 1
          /\ call'[n].st > LandAt' => call[n].st = LandAt
      BY <2>1, <3>1, <3>2
    <3>4. call'[n].phase # "done"
      BY <2>1
    <3>5. call'[n].st = LandAt' => Note(n)' = None \/ Seen(n)'
      BY <3>1, <3>3
    <3>6. call'[n].st > LandAt' => Seen(n)'
      BY <3>1, <3>3
    <3> QED  BY <3>1, <3>4, <3>5, <3>6 DEF BanOK
  <2>3. CASE call[n].op # "ban"
    <3>1. topic # "ban"
      BY <2>1, <2>3, BanRuns
    <3>2. "ban" \notin TablesOf(topic)
      BY <3>1 DEF BaseInv, Topics, TablesOf
    <3>3. \A c \in DOMAIN (call[n].work)' : c[1] \in TablesOf(topic)
      <4>1. CallOK(n)' /\ topic' = topic
        BY <2>1, CallMoves
      <4> QED  BY <4>1 DEF CallOK, Holds
    <3>4. BanWork(call[n].work)'
      BY <3>2, <3>3 DEF BanWork, Ban
    <3> QED  BY <2>1, <2>3, <3>4 DEF BanOK
  <2> QED  BY <2>2, <2>3
<1>6. CASE Again(n)
  <2>1. call'[n].work = <<>> /\ call'[n].st = 1 /\ call'[n].phase = "running"
    BY <1>6 DEF Again
  <2>2. DOMAIN (call[n].work)' = {}
    BY <2>1, EmptyWork
  <2> QED  BY <1>1, <1>2, <2>1, <2>2 DEF BanOK, Running
<1>7. CASE Stopped(n)
  <2>1. call'[n].work = <<>> /\ call'[n].phase \in {"failed", "crashed"}
    BY <1>7 DEF Stopped
  <2>2. DOMAIN (call[n].work)' = {}
    BY <2>1, EmptyWork
  <2> QED  BY <1>2, <2>1, <2>2 DEF BanOK, Running
<1>8. ASSUME NEW new, NEW note, Lands(n, new, note)
      PROVE  BanWork(call[n].work)' /\ BanOK(n)'
  <2>1. /\ call'[n].work = <<>> /\ call'[n].base = <<>> /\ call'[n].op = call[n].op /\ Note(n)' = note
        /\ call'[n].st = 1 /\ Running(n)
        /\ LastTransaction(n) => call'[n].phase = "done"
        /\ ~LastTransaction(n) => call'[n].phase = "running"
    BY <1>8 DEF Lands, Landed, Identity, Note
  <2>2. DOMAIN (call[n].work)' = {} /\ \A c : See(n, c)' = db'[c]
    BY <2>1, EmptyWork DEF See
  <2>3. ASSUME call[n].op = "ban", LastTransaction(n) PROVE Seen(n)'
    <3>1. note \in RowIds /\ db'[Ban(note)] # NoBan
      <4>1. CASE call[n].tx # 1
        <5>1. note \in RowIds /\ db[Ban(note)] # NoBan
          BY <1>8, <2>3, <4>1, BansLand
        <5> QED  BY <5>1, BansStay
      <4>2. CASE call[n].tx = 1
        <5>1. ~Guarded /\ new = call[n].work /\ note = Note(n) /\ Ground(n) = db /\ call[n].st = LandAt + 1
          BY <1>8, <2>3, <4>2, BansLand
        <5>2. Seen(n)
          BY <1>1, <2>1, <2>3, <4>2, <5>1 DEF BanOK, LandAt
        <5>3. note \in RowIds /\ See(n, Ban(note)) # NoBan
          BY <5>1, <5>2 DEF Seen
        <5>4. /\ \A c \in DOMAIN new : db'[c] = new[c]
              /\ \A c \in DOMAIN db : c \notin DOMAIN new => db'[c] = db[c]
          BY <1>8, Undisturbed
        <5>5. Ban(note) \in DOMAIN db
          BY <5>3 DEF BaseInv, Rows, Ban
        <5>6. db'[Ban(note)] = See(n, Ban(note))
          BY <5>1, <5>4, <5>5, SeeGround DEF Holds
        <5> QED  BY <5>3, <5>6
      <4> QED  BY <4>1, <4>2
    <3>2. See(n, Ban(note))' = db'[Ban(note)]
      BY <2>1, EmptyWork DEF See
    <3> QED  BY <2>1, <3>1, <3>2 DEF Seen, Note
  <2>4. BanWork(call[n].work)'
    BY <1>2, <2>2
  <2> QED  BY <1>1, <2>1, <2>3, <2>4 DEF BanOK, Running
<1> QED  BY <1>3, <1>4, <1>5, <1>6, <1>7, <1>8, LandingLands DEF Stepped

LEMMA LockedBanRuns ==
  ASSUME BaseInv, NEW n \in Calls, Running(n), call[n].op = "ban", backend = "supabase"
  PROVE  topic = "ban" /\ ~Guarded /\ LandAt = 3 /\ call[n].tx = 1 /\ call[n].base = <<>>
<1>1. topic = "ban" /\ ~Guarded /\ LandAt = 3
  BY TopicIs DEF Topics, Operations, Guarded, LandAt
<1>2. Program(n) = << <<"takeBanLock", "findBan", "landBan">> >>
  BY BanPrograms DEF Program, Backends
<1>3. call[n].tx = 1
  BY <1>1, BanRuns
<1>4. Transaction(n)[1] # Snapshot
  BY <1>2, <1>3 DEF Transaction, Snapshot
<1> QED  BY <1>1, <1>3, <1>4 DEF BaseInv, CallOK

LEMMA LockHeld ==
  ASSUME BaseInv, BanInv, NEW m \in Calls, call[m].op = "ban", Running(m), backend = "supabase",
         call[m].st = 3 \/ Ban(m) \in Holds(m)
  PROVE  BanLock \in Holds(m)
<1>1. CallOK(m) /\ LockedBanOK(m)
  BY DEF BaseInv, BanInv
<1>2. call[m].st \in Nat \ {0} /\ (call[m].st = 1 => Holds(m) = {})
  BY <1>1, EmptyWork DEF CallOK, Holds
<1>3. call[m].st \geq 2
  BY <1>2
<1> QED  BY <1>1, <1>3 DEF LockedBanOK

LEMMA NoneActiveStays ==
  ASSUME BaseInv, BanInv, backend = "supabase", NEW n \in Calls, Stepped(n),
         NEW m \in Calls \ {n}, BanLock \in Holds(m), NoneActive
  PROVE  NoneActive'
<1>1. CASE db' = db
  BY <1>1 DEF NoneActive
<1>2. ASSUME NEW new, NEW note, Lands(n, new, note) PROVE NoneActive'
  <2>1. Running(n) /\ \A i \in RowIds : Ban(i) \in DOMAIN db
    BY <1>2 DEF Lands, BaseInv, Rows, Ban
  <2>2. \A i \in RowIds : Ban(i) \notin DOMAIN new
    <3>1. CASE call[n].op \notin {"ban", "revoke"}
      <4>1. \A c \in DOMAIN new : c[1] # "ban"
        BY <1>2, <3>1, BansLand
      <4>2. \A i \in RowIds : Ban(i)[1] = "ban"
        BY DEF Ban
      <4> QED  BY <4>1, <4>2
    <3>2. CASE call[n].op = "revoke"
      <4>1. DOMAIN new # {} =>
              /\ Arg(n).ban \in RowIds
              /\ IsActive(db[Target(n)]) \/ <<backend, topic>> \in Exempt
        BY <1>2, <3>2, BansLand
      <4>2. <<backend, topic>> \notin Exempt
        <5>1. topic = "ban"
          BY <1>2, <3>2, BansLand
        <5> QED  BY <5>1 DEF Exempt
      <4>3. Arg(n).ban \in RowIds => ~IsActive(db[Target(n)])
        BY DEF NoneActive, Target
      <4> QED  BY <4>1, <4>2, <4>3
    <3>3. CASE call[n].op = "ban"
      <4>1. ~Guarded /\ LandAt = 3 /\ call[n].tx = 1
        BY <2>1, <3>3, LockedBanRuns
      <4>2. call[n].st \geq 2
        <5>1. call[n].st = LandAt + 1
          BY <1>2, <3>3, <4>1, BansLand
        <5> QED  BY <4>1, <5>1
      <4>3. LockedBanOK(n)
        BY DEF BanInv
      <4>4. BanLock \in Holds(n)
        BY <2>1, <3>3, <4>2, <4>3 DEF LockedBanOK
      <4> QED  BY <4>4 DEF BaseInv, HeldByOne
    <3> QED  BY <3>1, <3>2, <3>3
  <2>3. \A i \in RowIds : db'[Ban(i)] = db[Ban(i)]
    BY <1>2, <2>1, <2>2, Undisturbed
  <2> QED  BY <2>3 DEF NoneActive
<1> QED  BY <1>1, <1>2, StepLands

LEMMA LockedBanStays ==
  ASSUME BaseInv, BanInv, NEW n \in Calls, Stepped(n), NEW m \in Calls \ {n}
  PROVE  LockedBanOK(m)'
<1>1. call'[m] = call[m] /\ UNCHANGED <<backend, topic>> /\ LockedBanOK(m)
  BY OthersKeep DEF BanInv
<1>2. ASSUME call[m].op = "ban", Running(m), backend = "supabase", call[m].st = 3 \/ Ban(m) \in Holds(m), NoneActive
      PROVE  NoneActive'
  BY <1>2, LockHeld, NoneActiveStays
<1>3. /\ Holds(m)' = Holds(m) /\ Note(m)' = Note(m) /\ Arg(m)' = Arg(m) /\ Running(m)' = Running(m)
  BY <1>1 DEF Holds, Note, Arg, Running
<1> QED  BY <1>1, <1>2, <1>3 DEF LockedBanOK

LEMMA LockedBanMoves ==
  ASSUME BaseInv, BanInv, NEW n \in Calls, Stepped(n) PROVE LockedBanOK(n)'
<1> SUFFICES ASSUME call'[n].op = "ban", call'[n].phase = "running", call'[n].st # 1, backend' = "supabase"
             PROVE  LockedBanOK(n)'
  <2>1. call'[n].phase = "running" /\ call'[n].st = 1 => call'[n].work = <<>>
    BY CallMoves DEF CallOK, Running
  <2>2. call'[n].st = 1 /\ call'[n].phase = "running" => Holds(n)' = {}
    BY <2>1, EmptyWork DEF Holds
  <2>3. CASE call'[n].st = 1
    BY <2>2, <2>3 DEF LockedBanOK, Running
  <2> QED  BY <2>3 DEF LockedBanOK, Running
<1>1. CASE Opened(n)
  <2>1. Running(n) /\ call[n].op = "ban" /\ backend = "supabase" /\ Opens(n)
    BY <1>1 DEF Opened, Identity, OthersStay
  <2>2. topic = "ban" /\ ~Guarded /\ call[n].tx = 1
    BY <2>1, LockedBanRuns
  <2> QED  BY <2>1, <2>2, BanRuns
<1>2. CASE Executed(n)
  <2>1. /\ Running(n) /\ call[n].op = "ban" /\ ~AllRun(n) /\ ~Opens(n) /\ LockedBanOK(n) /\ backend = "supabase"
    BY <1>2 DEF Executed, Runs, Identity, OthersStay, BanInv
  <2>2. topic = "ban" /\ ~Guarded /\ LandAt = 3 /\ call[n].tx = 1 /\ call[n].base = <<>>
    BY <2>1, LockedBanRuns
  <2>3. call[n].st \in {1, 2, 3} /\ Statement(n) = <<"takeBanLock", "findBan", "landBan">>[call[n].st]
    <3>1. call[n].st \in 1..4 /\ call[n].st # 4
      BY <2>1, <2>2, BanRuns
    <3>2. call[n].st \in {1, 2, 3}
      BY <3>1
    <3>3. /\ call[n].st = 3 => Statement(n) = "landBan"
          /\ call[n].st = 2 => Statement(n) = "findBan"
          /\ call[n].st = 1 => Statement(n) = "takeBanLock"
      BY <2>1, <2>2, BanRuns
    <3> QED  BY <3>2, <3>3
  <2>4. /\ Holds(n)' = DOMAIN Now(n).writes \union Holds(n) /\ Note(n)' = Now(n).note /\ Arg(n)' = Arg(n)
        /\ call'[n].work = Over(Now(n).writes, call[n].work) /\ call'[n].st = call[n].st + 1
        /\ NoneActive' = NoneActive
    BY <1>2 DEF Executed, Holds, Over, Note, Arg, Identity, NoneActive
  <2>5. Ban(n) # BanLock
    BY DEF Ban, BanLock
  <2>6. CASE call[n].st = 1
    <3>1. Now(n) = Put(BanLock, 0, "ok") /\ Holds(n) = {}
      BY <2>1, <2>3, <2>6, SeeFresh DEF Now, Result, TakeBanLock
    <3>2. Holds(n)' = {BanLock} /\ call'[n].st = 2
      BY <2>4, <2>6, <3>1 DEF Put, Sql, Write
    <3> QED  BY <2>5, <3>2 DEF LockedBanOK
  <2>7. CASE call[n].st = 2
    <3>1. Now(n) = FindBan(n)
      BY <2>3, <2>7 DEF Now, Result
    <3>2. Now(n).writes = <<>> /\ Now(n).note = NewestOf(ActiveBans(n))
      BY <3>1 DEF FindBan, Select, Sql
    <3>3. Holds(n) = {BanLock}
      BY <2>1, <2>7 DEF LockedBanOK
    <3>4. \A i \in RowIds : See(n, Ban(i)) = db[Ban(i)]
      BY <2>2, <3>3 DEF See, Holds, Ban, BanLock
    <3>5. Now(n).note = None => NoneActive
      BY <3>2, <3>4, NewestActive DEF NoneActive, ActiveBans
    <3>6. Holds(n)' = {BanLock} /\ call'[n].st = 3
      BY <2>4, <2>7, <3>2, <3>3, EmptyWork
    <3> QED  BY <2>4, <2>5, <3>5, <3>6 DEF LockedBanOK
  <2>8. CASE call[n].st = 3
    <3>1. Now(n) = LandBan(n)
      BY <2>3, <2>8 DEF Now, Result
    <3>2. Holds(n) = {BanLock} /\ (Note(n) = None => NoneActive)
      BY <2>1, <2>8 DEF LockedBanOK
    <3>3. call'[n].st = 4
      BY <2>4, <2>8
    <3>4. CASE Note(n) = None
      <4>1. Now(n).writes = Write(Ban(n), [by |-> Arg(n), revokedBy |-> Nobody])
        BY <3>1, <3>4 DEF LandBan, Sql, NewBan
      <4>2. Holds(n)' = {BanLock, Ban(n)} /\ call'[n].work[Ban(n)] = [by |-> Arg(n), revokedBy |-> Nobody]
        BY <2>4, <3>2, <4>1 DEF Write, Over
      <4> QED  BY <2>4, <3>2, <3>3, <3>4, <4>2 DEF LockedBanOK
    <3>5. CASE Note(n) # None
      <4>1. Now(n).writes = <<>>
        BY <3>1, <3>5 DEF LandBan, Sql
      <4>2. Holds(n)' = {BanLock}
        BY <2>4, <3>2, <4>1, EmptyWork
      <4> QED  BY <2>5, <3>3, <4>2 DEF LockedBanOK
    <3> QED  BY <3>4, <3>5
  <2> QED  BY <2>3, <2>6, <2>7, <2>8
<1> QED  BY <1>1, <1>2 DEF Stepped, Started, LandedAlone, LandedWhole, Landed, Again, Stopped

LEMMA BanInit == ASSUME SqlInit PROVE BanInv
<1>1. PICK left \in Left(topic) :
           /\ \A c \in Rows : c \notin DOMAIN left => db[c] = Absent(c[1])
           /\ \A c \in DOMAIN left : db[c] = left[c]
  BY LeftRows
<1>2. \A c \in DOMAIN left : c[1] \in TablesOf(topic)
  BY LeftTables DEF SqlInit
<1>3. \A i \in RowIds : /\ Ban(i) \in Rows /\ Ban(i)[1] = "ban" /\ (Ban(i) = Ban(0) => i = 0)
  BY DEF Rows, Ban
<1>4. ASSUME NEW i \in RowIds PROVE db[Ban(i)] = NoBan \/ (i = 0 /\ IsBan(db[Ban(i)]))
  <2>1. CASE Ban(i) \notin DOMAIN left
    <3>1. Absent("ban") = NoBan
      BY DEF Absent
    <3> QED  BY <1>1, <1>3, <2>1, <3>1
  <2>2. CASE Ban(i) \in DOMAIN left
    <3>1. topic = "ban"
      <4>1. "ban" \in TablesOf(topic)
        BY <1>2, <1>3, <2>2
      <4> QED  BY <4>1 DEF SqlInit, Topics, TablesOf
    <3>2. left = <<>> \/ left = Write(Ban(0), [by |-> Nobody, revokedBy |-> Nobody])
      BY <3>1 DEF Left
    <3>3. left = Write(Ban(0), [by |-> Nobody, revokedBy |-> Nobody])
      BY <2>2, <3>2, EmptyWork
    <3>4. Ban(i) = Ban(0) /\ left[Ban(0)] = [by |-> Nobody, revokedBy |-> Nobody]
      BY <2>2, <3>3 DEF Write
    <3>5. i = 0 /\ db[Ban(i)] = [by |-> Nobody, revokedBy |-> Nobody]
      BY <1>1, <1>3, <2>2, <3>4
    <3>6. IsBan([by |-> Nobody, revokedBy |-> Nobody])
      BY DEF IsBan, Nobody
    <3> QED  BY <3>5, <3>6
  <2> QED  BY <2>1, <2>2
<1>5. \A k \in Calls : k \in RowIds /\ k # 0
  BY SqlAssumption DEF Calls, RowIds
<1>6. BansOwned
  BY <1>4, <1>5 DEF BansOwned
<1>7. \A n \in Calls : BanWork(call[n].work)
  <2>1. \A n \in Calls : call[n].work = <<>>
    BY DEF SqlInit, NoCall
  <2> QED  BY <2>1, EmptyWork DEF BanWork
<1>8. \A n \in Calls : call[n].op = "none"
  BY DEF SqlInit, NoCall
<1> QED  BY <1>4, <1>6, <1>7, <1>8 DEF BanInv, BanOK, LockedBanOK

LEMMA BansOwnedStep ==
  ASSUME BaseInv, BanInv, NEW n \in Calls, Stepped(n) PROVE BansOwned'
<1> SUFFICES ASSUME <<backend, topic>>' \notin Exempt, NEW k \in Calls, db'[Ban(k)] # NoBan
             PROVE  call'[k].wrote = TRUE
  BY DEF BansOwned
<1>1. UNCHANGED <<backend, topic>> /\ k \in RowIds
  BY SqlAssumption
     DEF Calls, RowIds, Stepped, Started, Opened, Executed, LandedAlone, LandedWhole, Landed, Again, Stopped, OthersStay
<1>2. CASE db[Ban(k)] # NoBan
  BY <1>1, <1>2, WroteStays DEF BanInv, BansOwned
<1>3. ASSUME NEW new, NEW note, Lands(n, new, note), db[Ban(k)] = NoBan PROVE call'[k].wrote = TRUE
  <2>1. Ban(k) \in DOMAIN new /\ Running(n)
    <3>1. Ban(k) \in DOMAIN db
      BY <1>1 DEF BaseInv, Rows, Ban
    <3> QED  BY <1>3, <3>1, Undisturbed DEF Lands
  <2>2. call[n].op = "ban"
    <3>1. call[n].op \in {"ban", "revoke"}
      <4>1. Ban(k)[1] = "ban"
        BY DEF Ban
      <4> QED  BY <1>3, <2>1, <4>1, BansLand
    <3>2. ASSUME call[n].op = "revoke" PROVE FALSE
      <4>1. new = Write(Target(n), [db[Target(n)] EXCEPT !.revokedBy = Arg(n).by]) /\ db[Target(n)] # NoBan
        BY <1>3, <2>1, <3>2, BansLand
      <4>2. DOMAIN new = {Target(n)}
        BY <4>1 DEF Write
      <4> QED  BY <1>3, <2>1, <4>1, <4>2
    <3> QED  BY <3>1, <3>2
  <2>3. topic = "ban" /\ call[n].tx = 1
    BY <1>3, <2>1, <2>2, BansLand
  <2>4. k = n
    <3>1. DOMAIN new \subseteq {BanLock, Ban(n)}
      <4>1. CASE Guarded
        <5>1. new = Write(Ban(n), [by |-> Arg(n), revokedBy |-> Nobody])
          BY <1>3, <2>1, <2>2, <2>3, <4>1, BansLand
        <5> QED  BY <5>1 DEF Write
      <4>2. CASE ~Guarded
        <5>1. backend = "supabase"
          BY <1>1, <2>3, <4>2 DEF Exempt, Guarded, BaseInv, Backends
        <5>2. LockedBanOK(n) /\ new = call[n].work
          BY <1>3, <2>2, <2>3, <4>2, BansLand DEF BanInv
        <5> QED  BY <2>1, <2>2, <5>1, <5>2 DEF LockedBanOK, Holds
      <4> QED  BY <4>1, <4>2
    <3> QED  BY <2>1, <3>1 DEF Ban, BanLock
  <2> QED  BY <1>3, <2>1, <2>4, LandingWrites
<1>4. CASE db' = db
  BY <1>2, <1>4
<1> QED  BY <1>2, <1>3, <1>4, StepLands

LEMMA BanStep ==
  ASSUME BaseInv, BanInv, NEW n \in Calls, Stepped(n) PROVE BanInv'
<1>1. RowIds' = RowIds /\ \A i \in RowIds : db'[Ban(i)] = NoBan \/ IsBan(db'[Ban(i)])
  BY BansStay DEF RowIds
<1>2. \A m \in Calls : BanWork(call[m].work)' /\ BanOK(m)' /\ LockedBanOK(m)'
  BY BansStayHeld, BanMoves, LockedBanStays, LockedBanMoves
<1>3. BansOwned'
  BY BansOwnedStep
<1> QED  BY <1>1, <1>2, <1>3 DEF BanInv

LEMMA BanKeeps ==
  ASSUME BaseInv, MessageInv, OwnInv, BanInv,
         NEW n \in Calls, NEW new, NEW note, Lands(n, new, note), topic = "ban"
  PROVE  MeetsContract
<1> SUFFICES ASSUME <<backend, topic>> \notin Exempt, DOMAIN new # {} PROVE MeetsContract
  BY NothingLands DEF MeetsContract
<1>1. Running(n) /\ call[n].op \in {"ban", "revoke"} /\ BansOwned
  BY OperationOf DEF Lands, Running, Operations, BanInv
<1>2. /\ \A c \in DOMAIN new : db'[c] = new[c]
      /\ \A c \in DOMAIN db : c \notin DOMAIN new => db'[c] = db[c]
  BY Undisturbed
<1>3. \A i \in RowIds : Ban(i) \in DOMAIN db
  BY DEF BaseInv, Rows, Ban
<1>4. /\ Stored.bans = [j \in {j \in RowIds : db[Ban(j)] # NoBan} |-> db[Ban(j)]]
      /\ Stored'["bans"] = [j \in {j \in RowIds : db'[Ban(j)] # NoBan} |-> db'[Ban(j)]]
  BY DEF Stored
<1>5. ASSUME NEW i \in RowIds, NEW v, v # NoBan, Ban(i) \in DOMAIN new, new[Ban(i)] = v,
             DOMAIN new \subseteq {Ban(i), BanLock}
      PROVE  Stored' = [Stored EXCEPT !["bans"] = [x \in DOMAIN Stored.bans \union {i} |-> IF x = i THEN v ELSE Stored.bans[x]]]
  <2>1. \A g \in Parts \ {"bans"} : Kept(g)
    <3>1. \A g \in Parts \ {"bans"} : PartTables(g) \intersect {"ban", "banLock"} = {}
      BY DEF Parts, PartTables
    <3>2. \A c \in DOMAIN new : c[1] \in {"ban", "banLock"}
      BY <1>5 DEF Ban, BanLock
    <3> QED  BY <3>1, <3>2, PartStands
  <2>2. db'[Ban(i)] = v /\ \A j \in RowIds : j # i => db'[Ban(j)] = db[Ban(j)]
    <3>1. \A j \in RowIds : j # i => Ban(j) \notin {Ban(i), BanLock}
      BY DEF Ban, BanLock
    <3> QED  BY <1>2, <1>3, <1>5, <3>1
  <2>3. {j \in RowIds : db'[Ban(j)] # NoBan} = DOMAIN Stored.bans \union {i}
    BY <1>4, <1>5, <2>2
  <2>4. Stored'["bans"] = [x \in DOMAIN Stored.bans \union {i} |-> IF x = i THEN v ELSE Stored.bans[x]]
    BY <1>4, <2>2, <2>3
  <2> QED  BY <2>1, <2>4, OnePart DEF Parts
<1>6. Contract!Active = {i \in RowIds : db[Ban(i)] # NoBan /\ IsActive(db[Ban(i)])}
  BY <1>4 DEF Contract!Active, IsActive, Contract!Nobody, Nobody
<1>7. CASE call[n].op = "revoke"
  <2>1. /\ new = Write(Target(n), [db[Target(n)] EXCEPT !.revokedBy = Arg(n).by])
        /\ db[Target(n)] # NoBan /\ Arg(n).ban \in RowIds /\ Arg(n).by \in Moderators
        /\ IsActive(db[Target(n)])
    BY <1>7, BansLand
  <2>2. PICK i, by : i = Arg(n).ban /\ by = Arg(n).by
    OBVIOUS
  <2>3. i \in RowIds /\ by \in Moderators /\ Target(n) = Ban(i) /\ db[Ban(i)] # NoBan /\ IsActive(db[Ban(i)])
    BY <2>1, <2>2 DEF Target
  <2>4. PICK v : v = [db[Ban(i)] EXCEPT !.revokedBy = by]
    OBVIOUS
  <2>5. IsBan(db[Ban(i)])
    BY <2>3 DEF BanInv
  <2>6. v # NoBan
    BY <2>3, <2>4, <2>5, SqlAssumption DEF IsBan, NoBan
  <2>7. Ban(i) \in DOMAIN new /\ DOMAIN new \subseteq {Ban(i), BanLock} /\ new[Ban(i)] = v
    BY <2>1, <2>2, <2>3, <2>4 DEF Write
  <2>8. Stored' = [Stored EXCEPT !["bans"] = [x \in DOMAIN Stored.bans \union {i} |-> IF x = i THEN v ELSE Stored.bans[x]]]
    BY <1>5, <2>3, <2>6, <2>7
  <2>9. i \in DOMAIN Stored.bans /\ Stored.bans[i] = db[Ban(i)]
    BY <1>4, <2>3
  <2>10. [x \in DOMAIN Stored.bans \union {i} |-> IF x = i THEN v ELSE Stored.bans[x]]
            = [Stored.bans EXCEPT ![i] = v]
    BY <1>4, <2>9
  <2>11. [Stored.bans EXCEPT ![i].revokedBy = by] = [Stored.bans EXCEPT ![i] = v]
    BY <2>4, <2>9
  <2>12. Contract!RevokeBan(i, by)
    BY <1>6, <2>3, <2>8, <2>10, <2>11 DEF Contract!RevokeBan
  <2> QED  BY <2>3, <2>9, <2>12 DEF MeetsContract, Contract!Next
<1>8. CASE call[n].op = "ban"
  <2>1. call[n].tx = 1 /\ Arg(n) \in Moderators
    BY <1>8, BansLand
  <2>2. n \in RowIds /\ Contract!Fresh(n)
    BY <1>1, <2>1, IdsAreFresh DEF OwnInv
  <2>3. PICK v : v = [by |-> Arg(n), revokedBy |-> Nobody]
    OBVIOUS
  <2>4. v # NoBan
    BY <2>3 DEF NoBan, Nobody
  <2>5. ASSUME NoneActive, Ban(n) \in DOMAIN new, new[Ban(n)] = v, DOMAIN new \subseteq {Ban(n), BanLock}
        PROVE  MeetsContract
    <3>1. Stored' = [Stored EXCEPT !["bans"] = [x \in DOMAIN Stored.bans \union {n} |-> IF x = n THEN v ELSE Stored.bans[x]]]
      BY <1>5, <2>2, <2>4, <2>5
    <3>2. Contract!Active = {}
      BY <1>6, <2>5 DEF NoneActive
    <3>3. Contract!CreateBan(n, Arg(n))
      BY <2>2, <2>3, <3>1, <3>2 DEF Contract!CreateBan, Contract!With, Contract!Nobody, Nobody
    <3> QED  BY <2>1, <2>2, <3>3 DEF MeetsContract, Contract!Next
  <2>6. CASE Guarded
    <3>1. NoneActive /\ new = Write(Ban(n), v)
      BY <1>8, <2>1, <2>3, <2>6, BansLand
    <3> QED  BY <2>5, <3>1 DEF Write
  <2>7. CASE ~Guarded
    <3>1. backend = "supabase"
      BY <2>7 DEF Exempt, Guarded, BaseInv, Backends
    <3>2. LockedBanOK(n) /\ new = call[n].work
      BY <1>8, <2>1, <2>7, BansLand DEF BanInv
    <3>3. CASE Ban(n) \in DOMAIN new
      BY <1>1, <1>8, <2>3, <2>5, <3>1, <3>2, <3>3 DEF LockedBanOK, Holds
    <3>4. CASE Ban(n) \notin DOMAIN new
      <4>1. DOMAIN new \subseteq {BanLock}
        BY <1>1, <1>8, <3>1, <3>2, <3>4 DEF LockedBanOK, Holds
      <4>2. \A g \in Parts : "banLock" \notin PartTables(g)
        BY DEF Parts, PartTables
      <4>3. \A g \in Parts : Kept(g)
        BY <4>1, <4>2, PartStands DEF BanLock
      <4> QED  BY <4>3, AllKept DEF MeetsContract
    <3> QED  BY <3>3, <3>4
  <2> QED  BY <2>6, <2>7
<1> QED  BY <1>1, <1>7, <1>8

-----------------------------------------------------------------------------
(* Mentions: a call that has pruned sees nobody mentioned but whom it was  *)
(* asked for, and of two such calls one has nothing to commit.             *)

MentionRow(u) == <<"mention", u>>
Swept(n) == call[n].op = "mention" /\ Running(n) /\ call[n].st > FirstAt + 1
SweptOK(n) ==
  Swept(n) /\ (backend = "prisma" \/ Holds(n) # {}) => \A u \in Users \ Arg(n) : ~See(n, MentionRow(u))
LockedMentionsOK(n) ==
  call[n].op = "mention" /\ Running(n) =>
    /\ Holds(n) \subseteq Mentions(Users)
    /\ backend = "mysql" /\ call[n].st \geq 2 => Mentions(Arg(n)) \subseteq Holds(n)
OneSwept ==
  backend # "prisma" =>
    \A m, n \in Calls : m # n /\ Swept(m) /\ Swept(n) => Holds(m) = {} \/ Holds(n) = {}

MentionInv ==
  <<backend, topic>> \notin Exempt =>
    (\A n \in Calls : SweptOK(n) /\ LockedMentionsOK(n)) /\ OneSwept

LEMMA MentionRuns ==
  ASSUME BaseInv, NEW n \in Calls, Running(n), call[n].op = "mention", <<backend, topic>> \notin Exempt
  PROVE  /\ topic = "mention" /\ ~AutoCommits(n) /\ FirstAt \in {1, 2} /\ call[n].st \in 1..(FirstAt + 2)
         /\ AllRun(n) <=> call[n].st = FirstAt + 2
         /\ Opens(n) => FirstAt = 2 /\ call[n].st = 1
         /\ ~Opens(n) => call[n].st \geq FirstAt
         /\ call[n].st = FirstAt => Statement(n) = (IF backend = "mysql" THEN "lockMentions" ELSE "insertMentions")
         /\ call[n].st = FirstAt + 1 => Statement(n) = (IF backend = "mysql" THEN "scanMentions" ELSE "pruneMentions")
         /\ backend = "prisma" /\ call[n].st > 1 => call[n].base # <<>>
         /\ Arg(n) \in {{}} \union {{u} : u \in Users} /\ Arg(n) \subseteq Users
<1>1. topic = "mention"
  BY TopicIs DEF Topics, Operations
<1>2. PICK r \in Requests("mention") : call[n].op = r[1] /\ call[n].arg = r[2]
  BY <1>1 DEF Running, BaseInv, CallOK, Asked
<1>3. Arg(n) \in {{}} \union {{u} : u \in Users} /\ Arg(n) \subseteq Users
  BY <1>2 DEF Requests, Arg
<1>4. call[n].tx \in 1..Len(Program(n)) /\ backend \in Backends /\ call[n].st \in 1..(Len(Transaction(n)) + 1)
  BY RunsWell DEF BaseInv
<1>5. CallOK(n)
  BY DEF BaseInv
<1>6. CASE backend \in {"sqlite", "turso"}
  <2>1. Program(n) = << <<"insertMentions", "pruneMentions">> >>
    BY <1>4, <1>6, MentionPrograms DEF Program, Backends
  <2>2. Len(Program(n)) = 1 /\ call[n].tx = 1 /\ FirstAt = 1
    BY <1>4, <1>6, <2>1 DEF FirstAt
  <2>3. Transaction(n) = <<"insertMentions", "pruneMentions">>
    BY <2>1, <2>2 DEF Transaction
  <2>4. Len(Transaction(n)) = 2 /\ call[n].st \in 1..3
    BY <1>4, <2>3
  <2> QED  BY <1>1, <1>3, <1>6, <2>2, <2>3, <2>4 DEF AutoCommits, Opens, AllRun, Statement, Snapshot
<1>7. CASE backend = "mysql"
  <2>1. Program(n) = << <<"lockMentions", "scanMentions">> >>
    BY <1>4, <1>7, MentionPrograms DEF Program, Backends
  <2>2. Len(Program(n)) = 1 /\ call[n].tx = 1 /\ FirstAt = 1
    BY <1>4, <1>7, <2>1 DEF FirstAt
  <2>3. Transaction(n) = <<"lockMentions", "scanMentions">>
    BY <2>1, <2>2 DEF Transaction
  <2>4. Len(Transaction(n)) = 2 /\ call[n].st \in 1..3
    BY <1>4, <2>3
  <2> QED  BY <1>1, <1>3, <1>7, <2>2, <2>3, <2>4 DEF AutoCommits, Opens, AllRun, Statement, Snapshot
<1>8. CASE backend = "prisma"
  <2>1. Program(n) = << <<Snapshot, "insertMentions", "pruneMentions">> >>
    BY <1>4, <1>8, MentionPrograms DEF Program, Backends
  <2>2. Len(Program(n)) = 1 /\ call[n].tx = 1 /\ FirstAt = 2
    BY <1>4, <1>8, <2>1 DEF FirstAt
  <2>3. Transaction(n) = <<Snapshot, "insertMentions", "pruneMentions">>
    BY <2>1, <2>2 DEF Transaction
  <2>4. Len(Transaction(n)) = 3 /\ call[n].st \in 1..4
    BY <1>4, <2>3
  <2>5. call[n].st > 1 => call[n].base # <<>>
    BY <1>5, <2>3 DEF CallOK
  <2> QED  BY <1>1, <1>3, <1>8, <2>2, <2>3, <2>4, <2>5 DEF AutoCommits, Opens, AllRun, Statement, Snapshot
<1> QED  BY <1>1, <1>4, <1>6, <1>7, <1>8 DEF Exempt, Backends

\* A mention is committed by a call that has pruned and that holds a row.
LEMMA MentionsLand ==
  ASSUME BaseInv, NEW n \in Calls, NEW new, NEW note, Lands(n, new, note), <<backend, topic>> \notin Exempt
  PROVE  /\ call[n].op = "mention" => Swept(n) /\ new = call[n].work /\ Ground(n) = db /\ topic = "mention"
         /\ call[n].op # "mention" => topic # "mention" /\ \A u : MentionRow(u) \notin DOMAIN new
<1>1. Running(n) /\ topic \in Topics /\ call[n].op \in Operations(topic)
  BY OperationOf DEF Lands, Running, BaseInv
<1>2. CASE call[n].op = "mention"
  <2>1. ~AutoCommits(n) /\ topic = "mention" /\ FirstAt \in {1, 2} /\ (AllRun(n) <=> call[n].st = FirstAt + 2)
    BY <1>1, <1>2, MentionRuns
  <2>2. AllRun(n) /\ new = call[n].work
    BY <2>1 DEF Lands
  <2>3. call[n].st > FirstAt + 1
    BY <2>1, <2>2
  <2> QED  BY <1>1, <1>2, <2>1, <2>2, <2>3, LandGround DEF Swept
<1>3. CASE call[n].op # "mention"
  <2>1. topic # "mention"
    BY <1>1, <1>3 DEF Operations
  <2>2. "mention" \notin TablesOf(topic)
    BY <1>1, <2>1 DEF Topics, TablesOf
  <2>3. \A c \in DOMAIN new : c[1] \in TablesOf(topic)
    BY Undisturbed
  <2>4. \A u : MentionRow(u)[1] = "mention"
    BY DEF MentionRow
  <2> QED  BY <1>3, <2>1, <2>2, <2>3, <2>4
<1> QED  BY <1>2, <1>3

LEMMA MentionsStay ==
  ASSUME BaseInv, MentionInv, <<backend, topic>> \notin Exempt,
         NEW n \in Calls, Stepped(n), NEW m \in Calls \ {n}
  PROVE  SweptOK(m)' /\ LockedMentionsOK(m)'
<1>1. /\ call'[m] = call[m] /\ UNCHANGED <<backend, topic>>
      /\ SweptOK(m) /\ LockedMentionsOK(m)
  BY OthersKeep DEF MentionInv
<1>2. /\ Holds(m)' = Holds(m) /\ Arg(m)' = Arg(m) /\ Running(m)' = Running(m) /\ FirstAt' = FirstAt
      /\ Swept(m)' = Swept(m)
  BY <1>1 DEF Holds, Arg, Running, FirstAt, Swept
<1>3. ASSUME Swept(m), backend = "prisma" \/ Holds(m) # {}, NEW u \in Users
      PROVE  See(m, MentionRow(u))' = See(m, MentionRow(u))
  <2>1. CASE backend = "prisma"
    <3>1. call[m].st > 1
      <4>1. Running(m) /\ call[m].op = "mention" /\ call[m].st > FirstAt + 1
        BY <1>3 DEF Swept
      <4>2. FirstAt \in {1, 2} /\ call[m].st \in 1..(FirstAt + 2)
        BY <4>1, MentionRuns
      <4> QED  BY <4>1, <4>2
    <3>2. call[m].base # <<>>
      BY <1>3, <2>1, <3>1, MentionRuns DEF Swept
    <3> QED  BY <1>1, <3>2 DEF See
  <2>2. CASE backend # "prisma"
    <3>1. MentionRow(u) \in DOMAIN db
      BY DEF BaseInv, Rows, MentionRow
    <3>2. ASSUME NEW new, NEW note, Lands(n, new, note) PROVE db'[MentionRow(u)] = db[MentionRow(u)]
      <4>1. MentionRow(u) \notin DOMAIN new
        <5>1. CASE call[n].op = "mention"
          <6>1. Swept(n) /\ new = call[n].work
            BY <3>2, <5>1, MentionsLand
          <6>2. Holds(n) = {}
            BY <1>3, <2>2, <6>1 DEF MentionInv, OneSwept
          <6> QED  BY <6>1, <6>2 DEF Holds
        <5>2. CASE call[n].op # "mention"
          BY <3>2, <5>2, MentionsLand
        <5> QED  BY <5>1, <5>2
      <4> QED  BY <3>1, <3>2, <4>1, Undisturbed
    <3>3. db'[MentionRow(u)] = db[MentionRow(u)]
      BY <3>2, StepLands
    <3> QED  BY <1>1, <3>3 DEF See
  <2> QED  BY <2>1, <2>2
<1>4. SweptOK(m)'
  BY <1>1, <1>2, <1>3 DEF SweptOK
<1>5. LockedMentionsOK(m)'
  BY <1>1, <1>2 DEF LockedMentionsOK
<1> QED  BY <1>4, <1>5

LEMMA MentionExecutes ==
  ASSUME BaseInv, MentionInv, NEW n \in Calls, Executed(n), call[n].op = "mention",
         <<backend, topic>> \notin Exempt
  PROVE  /\ SweptOK(n)' /\ LockedMentionsOK(n)'
         /\ Swept(n)' => backend = "prisma" \/ OneWriter \/ \A m \in Calls \ {n} : Holds(m) \intersect Mentions(Users) = {}
<1>1. /\ Runs(n) /\ Running(n) /\ ~AllRun(n) /\ ~Opens(n) /\ Free(n) /\ LockedMentionsOK(n)
      /\ UNCHANGED <<backend, topic, db>>
      /\ call'[n].base = call[n].base /\ call'[n].work = Over(Now(n).writes, call[n].work)
      /\ call'[n].st = call[n].st + 1
  BY DEF Executed, Runs, OthersStay, MentionInv
<1>2. /\ FirstAt \in {1, 2} /\ call[n].st \in 1..(FirstAt + 2) /\ call[n].st # FirstAt + 2 /\ call[n].st \geq FirstAt
      /\ call[n].st = FirstAt => Statement(n) = (IF backend = "mysql" THEN "lockMentions" ELSE "insertMentions")
      /\ call[n].st = FirstAt + 1 => Statement(n) = (IF backend = "mysql" THEN "scanMentions" ELSE "pruneMentions")
      /\ Arg(n) \subseteq Users
  BY <1>1, MentionRuns
<1>3. /\ FirstAt' = FirstAt /\ Arg(n)' = Arg(n) /\ Holds(n)' = DOMAIN Now(n).writes \union Holds(n)
      /\ (Swept(n)' => call[n].st + 1 > FirstAt + 1)
  BY <1>1 DEF Executed, Identity, FirstAt, Arg, Holds, Over, Swept
<1>4. Holds(n) \subseteq Mentions(Users) /\ (backend = "mysql" /\ call[n].st \geq 2 => Mentions(Arg(n)) \subseteq Holds(n))
  BY <1>1 DEF LockedMentionsOK
<1>5. backend = "mysql" => FirstAt = 1
  BY DEF FirstAt
<1>6. CASE call[n].st = FirstAt
  <2>1. ~Swept(n)'
    BY <1>2, <1>3, <1>6
  <2>2. CASE backend = "mysql"
    <3>1. Now(n) = LockMentions(n)
      BY <1>2, <1>6, <2>2 DEF Now, Result
    <3>2. DOMAIN Now(n).writes = Mentions(Arg(n))
      BY <3>1 DEF LockMentions, Sql
    <3> QED  BY <1>2, <1>3, <1>4, <2>1, <3>2 DEF LockedMentionsOK, SweptOK, Mentions
  <2>3. CASE backend # "mysql"
    <3>1. Now(n) = InsertMentions(n)
      BY <1>2, <1>6, <2>3 DEF Now, Result
    <3>2. DOMAIN Now(n).writes \subseteq Mentions(Users)
      BY <1>2, <3>1 DEF InsertMentions, Sql, Mentions
    <3> QED  BY <1>1, <1>3, <1>4, <2>1, <2>3, <3>2 DEF LockedMentionsOK, SweptOK
  <2> QED  BY <2>2, <2>3
<1>7. CASE call[n].st = FirstAt + 1
  <2>1. Statement(n) = (IF backend = "mysql" THEN "scanMentions" ELSE "pruneMentions")
    BY <1>2, <1>7
  <2>2. backend = "mysql" => Now(n) = ScanMentions(n)
    BY <2>1 DEF Now, Result
  <2>3. backend # "mysql" => Now(n) = PruneMentions(n)
    BY <2>1 DEF Now, Result
  <2>4. Now(n).writes = [c \in Dropped(n) |-> FALSE]
    <3>1. CASE backend = "mysql"
      BY <2>2, <3>1 DEF ScanMentions, Sql
    <3>2. CASE backend # "mysql"
      BY <2>3, <3>2 DEF PruneMentions, Sql
    <3> QED  BY <3>1, <3>2
  <2>5. Dropped(n) \subseteq Mentions(Users) /\ DOMAIN Now(n).writes = Dropped(n)
    BY <2>4 DEF Dropped, Mentions
  <2>6. ASSUME NEW u \in Users \ Arg(n) PROVE ~See(n, MentionRow(u))'
    <3>1. CASE MentionRow(u) \in Dropped(n)
      BY <1>1, <2>4, <2>5, <3>1 DEF See, Over
    <3>2. CASE MentionRow(u) \notin Dropped(n)
      <4>1. ~Mentioned(n, u)
        BY <2>6, <3>2 DEF Dropped, Mentions, MentionRow
      <4>2. ~See(n, MentionRow(u))
        BY <4>1 DEF Mentioned, MentionRow
      <4>3. See(n, MentionRow(u))' = See(n, MentionRow(u))
        BY <1>1, <2>5, <3>2 DEF See, Over
      <4> QED  BY <4>2, <4>3
    <3> QED  BY <3>1, <3>2
  <2>7. SweptOK(n)'
    BY <1>3, <2>6 DEF SweptOK
  <2>8. LockedMentionsOK(n)'
    BY <1>1, <1>3, <1>4, <1>5, <1>7, <2>5 DEF LockedMentionsOK
  <2>9. ASSUME backend = "mysql", NEW m \in Calls \ {n} PROVE Holds(m) \intersect Mentions(Users) = {}
    <3>1. Now(n).waits = Mentions(Users \ Arg(n))
      BY <2>2, <2>9 DEF ScanMentions, Sql
    <3>2. Now(n).waits \intersect Holds(m) = {}
      BY <1>1, <2>9 DEF Free, WaitsFor
    <3>3. Mentions(Arg(n)) \subseteq Holds(n)
      BY <1>4, <1>5, <1>7, <2>9
    <3>4. Mentions(Arg(n)) \intersect Holds(m) = {}
      BY <2>9, <3>3 DEF BaseInv, HeldByOne
    <3>5. Mentions(Users) \subseteq Mentions(Arg(n)) \union Mentions(Users \ Arg(n))
      BY DEF Mentions
    <3> QED  BY <3>1, <3>2, <3>4, <3>5
  <2>10. topic = "mention"
    BY <1>1, MentionRuns
  <2>11. backend = "prisma" \/ OneWriter \/ backend = "mysql"
    BY <2>10 DEF Exempt, OneWriter, BaseInv, Backends
  <2> QED  BY <2>7, <2>8, <2>9, <2>11
<1> QED  BY <1>2, <1>6, <1>7

LEMMA MentionMoves ==
  ASSUME BaseInv, MentionInv, NEW n \in Calls, Stepped(n), <<backend, topic>> \notin Exempt
  PROVE  /\ SweptOK(n)' /\ LockedMentionsOK(n)'
         /\ Swept(n)' => Executed(n) /\ call[n].op = "mention"
<1>0. PICK first \in {1, 2} : FirstAt' = first
  BY DEF FirstAt
<1>1. CASE Executed(n)
  <2>1. call'[n].op = call[n].op
    BY <1>1 DEF Executed, Identity
  <2>2. CASE call[n].op = "mention"
    BY <1>1, <2>2, MentionExecutes
  <2>3. CASE call[n].op # "mention"
    BY <2>1, <2>3 DEF Swept, SweptOK, LockedMentionsOK
  <2> QED  BY <2>2, <2>3
<1>2. CASE Opened(n)
  <2>1. /\ Running(n) /\ Opens(n) /\ UNCHANGED <<backend, topic>> /\ call'[n].op = call[n].op
        /\ call'[n].st = call[n].st + 1 /\ Holds(n)' = Holds(n) /\ FirstAt' = FirstAt
    BY <1>2 DEF Opened, OthersStay, Identity, Holds, FirstAt
  <2>2. CASE call[n].op = "mention"
    <3>1. FirstAt = 2 /\ call[n].st = 1
      BY <2>1, <2>2, MentionRuns
    <3>2. Holds(n) = {}
      BY <3>1, SeeFresh
    <3>3. ~Swept(n)'
      BY <2>1, <3>1 DEF Swept
    <3>4. backend' # "mysql"
      BY <2>1, <3>1 DEF FirstAt
    <3> QED  BY <2>1, <3>2, <3>3, <3>4 DEF SweptOK, LockedMentionsOK
  <2>3. CASE call[n].op # "mention"
    BY <2>1, <2>3 DEF Swept, SweptOK, LockedMentionsOK
  <2> QED  BY <2>2, <2>3
<1>3. CASE ~Executed(n) /\ ~Opened(n)
  <2>1. call'[n].phase # "running" \/ call'[n].st = 1
    BY <1>3 DEF Stepped, Started, LandedAlone, LandedWhole, Landed, Again, Stopped
  <2>2. CASE call'[n].phase # "running"
    BY <2>2 DEF Swept, SweptOK, LockedMentionsOK, Running
  <2>3. CASE call'[n].st = 1
    <3>1. call'[n].work = <<>>
      BY <2>3, CallMoves DEF CallOK
    <3>2. Holds(n)' = {}
      BY <3>1, EmptyWork DEF Holds
    <3>3. ~(1 > first + 1)
      BY <1>0
    <3>4. ~Swept(n)'
      BY <1>0, <2>3, <3>3 DEF Swept
    <3> QED  BY <2>3, <3>2, <3>4 DEF SweptOK, LockedMentionsOK
  <2> QED  BY <2>1, <2>2, <2>3
<1> QED  BY <1>1, <1>2, <1>3

LEMMA MentionStep ==
  ASSUME BaseInv, MentionInv, NEW n \in Calls, Stepped(n) PROVE MentionInv'
<1>1. UNCHANGED <<backend, topic>>
  BY DEF Stepped, Started, Opened, Executed, LandedAlone, LandedWhole, Landed, Again, Stopped, OthersStay
<1> SUFFICES ASSUME <<backend, topic>> \notin Exempt
             PROVE  (\A m \in Calls : SweptOK(m)' /\ LockedMentionsOK(m)') /\ OneSwept'
  BY <1>1 DEF MentionInv
<1>2. \A m \in Calls : SweptOK(m)' /\ LockedMentionsOK(m)'
  BY MentionsStay, MentionMoves
<1>3. ASSUME NEW m \in Calls \ {n} PROVE call'[m] = call[m] /\ Holds(m)' = Holds(m) /\ Swept(m)' = Swept(m)
  <2>1. call'[m] = call[m] /\ UNCHANGED <<backend, topic>>
    BY OthersKeep
  <2> QED  BY <2>1 DEF Holds, Swept, Running, FirstAt
<1>4. ASSUME backend # "prisma", NEW m \in Calls \ {n}, Swept(m), Swept(n)'
      PROVE  Holds(m) = {} \/ Holds(n)' = {}
  <2>1. Executed(n) /\ call[n].op = "mention"
    BY <1>4, MentionMoves
  <2>2. OneWriter \/ \A k \in Calls \ {n} : Holds(k) \intersect Mentions(Users) = {}
    BY <1>4, <2>1, MentionExecutes
  <2>3. CASE OneWriter
    <3>1. OneHolds' /\ OneWriter'
      BY <1>1, <2>3, HeldMoves DEF OneWriter
    <3> QED  BY <1>3, <1>4, <3>1 DEF OneHolds
  <2>4. CASE \A k \in Calls \ {n} : Holds(k) \intersect Mentions(Users) = {}
    <3>1. LockedMentionsOK(m)
      BY DEF MentionInv
    <3>2. Holds(m) \subseteq Mentions(Users)
      BY <1>4, <3>1 DEF LockedMentionsOK, Swept
    <3> QED  BY <2>4, <3>2
  <2> QED  BY <2>2, <2>3, <2>4
<1>5. OneSwept'
  <2> SUFFICES ASSUME backend # "prisma", NEW m \in Calls, NEW k \in Calls, m # k, Swept(m)', Swept(k)'
               PROVE  Holds(m)' = {} \/ Holds(k)' = {}
    BY <1>1 DEF OneSwept
  <2>1. CASE m # n /\ k # n
    BY <1>3, <2>1 DEF MentionInv, OneSwept
  <2>2. CASE m = n
    BY <1>3, <1>4, <2>2
  <2>3. CASE k = n
    BY <1>3, <1>4, <2>3
  <2> QED  BY <2>1, <2>2, <2>3
<1> QED  BY <1>2, <1>5

LEMMA MentionInit == ASSUME SqlInit PROVE MentionInv
<1>1. \A n \in Calls : call[n].op = "none"
  BY DEF SqlInit, NoCall
<1> QED  BY <1>1 DEF MentionInv, OneSwept, Swept, SweptOK, LockedMentionsOK

LEMMA MentionKeeps ==
  ASSUME BaseInv, MessageInv, MentionInv,
         NEW n \in Calls, NEW new, NEW note, Lands(n, new, note), topic = "mention"
  PROVE  MeetsContract
<1> SUFFICES ASSUME <<backend, topic>> \notin Exempt, DOMAIN new # {} PROVE MeetsContract
  BY NothingLands DEF MeetsContract
<1>1. Running(n) /\ call[n].op = "mention"
  BY OperationOf DEF Lands, Running, Operations
<1>2. Swept(n) /\ new = call[n].work /\ Ground(n) = db
  BY <1>1, MentionsLand
<1>3. Holds(n) # {} /\ SweptOK(n) /\ LockedMentionsOK(n)
  BY <1>2 DEF Holds, MentionInv
<1>4. /\ \A c \in DOMAIN new : db'[c] = new[c]
      /\ \A c \in DOMAIN db : c \notin DOMAIN new => db'[c] = db[c]
  BY Undisturbed
<1>5. ASSUME NEW u \in Users \ Arg(n) PROVE ~db'[MentionRow(u)]
  <2>1. ~See(n, MentionRow(u))
    BY <1>2, <1>3 DEF SweptOK
  <2>2. MentionRow(u) \in DOMAIN db
    BY DEF BaseInv, Rows, MentionRow
  <2>3. db'[MentionRow(u)] = See(n, MentionRow(u))
    <3>1. CASE MentionRow(u) \in Holds(n)
      BY <1>2, <1>4, <3>1, SeeGround DEF Holds
    <3>2. CASE MentionRow(u) \notin Holds(n)
      BY <1>2, <1>4, <2>2, <3>2, SeeGround DEF Holds
    <3> QED  BY <3>1, <3>2
  <2> QED  BY <2>1, <2>3
<1>6. PICK U : U = {u \in Users : db'[MentionRow(u)]}
  OBVIOUS
<1>7. U \in {{}} \union {{u} : u \in Users}
  <2>1. Arg(n) \in {{}} \union {{u} : u \in Users}
    BY <1>1, MentionRuns
  <2>2. U \subseteq Arg(n)
    BY <1>5, <1>6
  <2> QED  BY <2>1, <2>2
<1>8. Stored'["mentions"] = U
  BY <1>6 DEF Stored, MentionRow
<1>9. \A g \in Parts \ {"mentions"} : Kept(g)
  <2>1. \A g \in Parts \ {"mentions"} : "mention" \notin PartTables(g)
    BY DEF Parts, PartTables
  <2>2. \A c \in DOMAIN new : c[1] = "mention"
    BY <1>1, <1>2, <1>3 DEF LockedMentionsOK, Mentions, Holds
  <2> QED  BY <2>1, <2>2, PartStands
<1>10. Stored' = [Stored EXCEPT !["mentions"] = U]
  BY <1>8, <1>9, OnePart DEF Parts
<1>11. Contract!SetMessageMentions(U)
  BY <1>10 DEF Contract!SetMessageMentions
<1> QED  BY <1>7, <1>11 DEF MeetsContract, Contract!Next

-----------------------------------------------------------------------------
(* What the calls of a behaviour keep between them.                        *)

SqlInv ==
  /\ BaseInv /\ MessageInv /\ WroteInv /\ OwnInv /\ InviteInv /\ ReportInv
  /\ PairInv /\ BanInv /\ MentionInv

LEMMA SqlInvInit == SqlInit => SqlInv
  BY BaseInit, MessageInit, WroteInit, OwnInit, InviteInit, ReportInit, PairInit, BanInit, MentionInit
     DEF SqlInv

LEMMA Stutters ==
  ASSUME SqlInv, UNCHANGED sqlVars PROVE SqlInv'
<1> USE DEF sqlVars
<1>1. BaseInv'
  BY DEF SqlInv, BaseInv, CallOK, HeldByOne, OneHolds, OneWriter, Holds, Running, Asked, AutoCommits,
         Program, Transaction
<1>2. MessageInv'
  BY ZenonT(40) DEF SqlInv, MessageInv, SendOK, UpdateOK, Updating, SentOK, Answered, FirstAt, Patched, Ground,
         Running, Holds, Note, Arg
<1>3. WroteInv'
  BY DEF SqlInv, WroteInv, Running
<1>4. OwnInv'
  BY DEF SqlInv, OwnInv, Running, Owned
<1>5. InviteInv'
  BY DEF SqlInv, InviteInv, Redeemed, Answered, Note
<1>6. ReportInv'
  BY DEF SqlInv, ReportInv, ReportOK, Reported, Reminded, NoReviews, Running, Ended, Answered, Note
<1>7. PairInv'
  BY DEF SqlInv, PairInv, DirectOK, GroupOK, Bundled, Running, Claiming, Claimed, FirstAt, Holds, Note, Ground
<1>8. BanInv'
  BY DEF SqlInv, BanInv, BansOwned, BanOK, LockedBanOK, BanWork, Seen, NoneActive, Guarded, LandAt,
         Running, Holds, Note, Arg, See
<1>9. MentionInv'
  BY DEF SqlInv, MentionInv, SweptOK, LockedMentionsOK, OneSwept, Swept, Running, Holds, FirstAt, See, Arg
<1> QED  BY <1>1, <1>2, <1>3, <1>4, <1>5, <1>6, <1>7, <1>8, <1>9 DEF SqlInv

LEMMA SqlInvStep ==
  ASSUME SqlInv, [SqlNext]_sqlVars PROVE SqlInv'
<1>1. CASE SqlNext
  <2>1. PICK n \in Calls : Stepped(n)
    BY <1>1, BaseShaped, StepEffect DEF SqlInv
  <2> QED  BY <2>1, BaseStep, MessageStep, WroteStep, OwnStep, InviteStep, ReportStep, PairStep,
              BanStep, MentionStep DEF SqlInv
<1> QED  BY <1>1, Stutters

\* In every reachable state of every adapter the calls keep to the invariant
\* that the two results below rest on.
THEOREM SqlInvariance == SqlSpec => []SqlInv
<1> QED  BY SqlInvInit, SqlInvStep, PTL DEF SqlSpec

LEMMA AnswersFollow == ASSUME SqlInv PROVE AnswersAreTrue
<1>1. ASSUME NEW n \in Answered("direct")
      PROVE  /\ Note(n).id = db[PairRow]
             /\ Note(n).whole \/ <<backend, "direct">> \in Lax
             /\ Note(n).created => n = db[PairRow]
  <2>1. n \in Calls /\ call[n].op = "direct" /\ call[n].phase = "done" /\ DirectOK(n) /\ backend \in Backends
    BY <1>1 DEF Answered, SqlInv, PairInv, BaseInv
  <2>2. /\ Note(n).id = db[PairRow] /\ (Bundled => Note(n).whole = TRUE)
        /\ Note(n).created \in BOOLEAN /\ (Note(n).created = TRUE => db[PairRow] = n)
    BY <2>1 DEF DirectOK
  <2>3. Bundled \/ <<backend, "direct">> \in Lax
    BY DEF Bundled, Lax
  <2> QED  BY <2>2, <2>3
<1>2. Cardinality({n \in Answered("direct") : Note(n).created}) \leq 1
  <2>1. {n \in Answered("direct") : Note(n).created} \subseteq {db[PairRow]}
    BY <1>1
  <2>2. PICK S : S = {n \in Answered("direct") : Note(n).created}
    OBVIOUS
  <2>3. S = {} \/ S = {db[PairRow]}
    BY <2>1, <2>2
  <2>4. Cardinality(S) = 0 \/ Cardinality(S) = 1
    BY <2>3, FS_EmptySet, FS_Singleton
  <2> QED  BY <2>2, <2>4
<1>3. \A m, n \in Answered("send") : Note(m) = Note(n) => m = n
  BY DEF SqlInv, MessageInv, SentOK
<1>4. LET redeemed == Cardinality({n \in Answered("consume") : Note(n)})
      IN  redeemed \leq MaxUses /\ (db[Uses] # None => db[Uses] = redeemed)
  BY DEF SqlInv, InviteInv, Redeemed
<1>5. ASSUME NEW n \in Answered("ban") PROVE db[Ban(Note(n))] # NoBan
  <2>1. n \in Calls /\ Seen(n) /\ ~Running(n)
    BY <1>5 DEF Answered, SqlInv, BanInv, BanOK, Running
  <2>2. \A c : See(n, c) = db[c]
    BY <2>1, SeeFresh DEF SqlInv
  <2> QED  BY <2>1, <2>2 DEF Seen
<1>6. ASSUME NEW n \in Answered("report") PROVE Reported(Note(n)) /\ (NoReviews /\ Reminded(n) => Note(n) # n)
  BY <1>6 DEF Answered, SqlInv, ReportInv, ReportOK
<1>7. /\ \A n \in Answered("report") : db[Report(Note(n))] # NoReport
      /\ (\A k \in Calls : call[k].op # "review") =>
           \A n \in Answered("report") : Answered("report") \intersect call[n].heard # {} => Note(n) # n
  BY <1>6 DEF Reported, NoReviews, Reminded
<1>8. \A op \in {"read", "role"} : \A n \in Answered(op) : call[n].wrote \/ <<backend, op>> \in Lax
  BY DEF SqlInv, WroteInv, Answered
<1> QED  BY <1>1, <1>2, <1>3, <1>4, <1>5, <1>7, <1>8 DEF AnswersAreTrue

\* An answer of an adapter can be acted on: the conversation returned is the
\* pair's and was created by one call at most, no two messages get one seq, the
\* uses of an invite are as many as the callers it admitted, the ban and the
\* report answered are there, a report made again opens no other, and
\* an acknowledged role or read mark was written (findReport, readBack, consume).
THEOREM AnswersTrue == SqlSpec => []AnswersAreTrue
<1>1. SqlInv => AnswersAreTrue
  BY AnswersFollow
<1> QED  BY <1>1, SqlInvariance, PTL

-----------------------------------------------------------------------------
(* Every commit is an operation of the contract.                           *)

LEMMA AbsentRows ==
  ASSUME SqlInit
  PROVE  \E left \in Left(topic) :
           /\ \A c \in Rows : c \notin DOMAIN left \/ c[1] \notin TablesOf(topic) => db[c] = Absent(c[1])
           /\ \A c \in DOMAIN left : db[c] = left[c]
           /\ \A c \in DOMAIN left : c[1] \in TablesOf(topic)
  BY LeftRows, LeftTables DEF SqlInit

LEMMA PairAtFirst ==
  ASSUME SqlInit
  PROVE  /\ Stored.pair \in {Contract!NoPair, [id |-> 0, whole |-> TRUE]}
         /\ Stored.rooms = <<>> /\ Stored.links = {}
<1>1. BaseInv /\ PairInv /\ OwnInv
  BY BaseInit, PairInit, OwnInit
<1>2. \A n \in Calls : call[n].wrote = FALSE
  BY DEF SqlInit, NoCall
<1>3. \A n \in Calls : ~Owned(n)
  BY <1>1, <1>2 DEF OwnInv
<1>4. Present("room") = {} /\ {n \in Calls : db[<<"link", n>>]} = {}
  BY <1>3 DEF Present, Owned
<1>5. Stored.rooms = [n \in {} |-> db[<<"roomMembers", n>>]] /\ Stored.links = {}
  BY <1>4 DEF Stored
<1>6. Stored.rooms = <<>>
  BY <1>5
<1>7. PICK left \in Left(topic) :
           /\ \A c \in Rows : c \notin DOMAIN left \/ c[1] \notin TablesOf(topic) => db[c] = Absent(c[1])
           /\ \A c \in DOMAIN left : db[c] = left[c]
  BY AbsentRows
<1>8. /\ PairRow # PairMembers /\ {PairRow, PairMembers} \subseteq Rows
      /\ PairRow[1] = "pair" /\ PairMembers[1] = "pairMembers"
  BY DEF Rows, PairRow, PairMembers
<1>11. Absent("pair") = None /\ Absent("pairMembers") = FALSE
  BY DEF Absent
<1>9. CASE left = Over(Write(PairRow, 0), Write(PairMembers, TRUE))
  <2>1. DOMAIN left = {PairRow, PairMembers} /\ left[PairRow] = 0 /\ left[PairMembers] = TRUE
    BY <1>8, <1>9 DEF Over, Write
  <2>2. db[PairRow] = 0 /\ db[PairMembers] = TRUE
    BY <1>7, <2>1
  <2>3. Stored.pair = [id |-> 0, whole |-> TRUE]
    BY <2>2 DEF Stored
  <2> QED  BY <1>5, <1>6, <2>3
<1>10. CASE left = <<>> \/ topic # "pair"
  <2>1. topic # "pair" => "pair" \notin TablesOf(topic) /\ "pairMembers" \notin TablesOf(topic)
    BY DEF SqlInit, Topics, TablesOf
  <2>2. db[PairRow] = None /\ db[PairMembers] = FALSE
    BY <1>7, <1>8, <1>10, <1>11, <2>1, EmptyWork
  <2>3. Stored.pair = Contract!NoPair
    BY <2>2 DEF Stored, Contract!NoPair, Contract!None, None
  <2> QED  BY <1>5, <1>6, <2>3
<1> QED  BY <1>7, <1>9, <1>10 DEF Left

LEMMA RosterAtFirst ==
  ASSUME SqlInit
  PROVE  Stored.roster \in [Users -> [role : {"out", "member", "admin"}, read : BOOLEAN]]
<1>1. PICK left \in Left(topic) :
           /\ \A c \in Rows : c \notin DOMAIN left \/ c[1] \notin TablesOf(topic) => db[c] = Absent(c[1])
           /\ \A c \in DOMAIN left : db[c] = left[c]
  BY AbsentRows
<1>2. ASSUME NEW u \in Users PROVE db[<<"roster", u>>] \in {Outside, [role |-> "member", read |-> FALSE]}
  <2>1. <<"roster", u>> \in Rows /\ Absent("roster") = Outside
    BY DEF Rows, Absent
  <2>2. CASE topic = "roster"
    <3>1. left \in [{<<"roster", v>> : v \in Users} -> {Outside, [role |-> "member", read |-> FALSE]}]
      BY <2>2 DEF Left
    <3> QED  BY <1>1, <3>1
  <2>3. CASE topic # "roster"
    <3>1. "roster" \notin TablesOf(topic)
      BY <2>3 DEF SqlInit, Topics, TablesOf
    <3> QED  BY <1>1, <2>1, <3>1
  <2> QED  BY <2>2, <2>3
<1>3. {Outside, [role |-> "member", read |-> FALSE]} \subseteq [role : {"out", "member", "admin"}, read : BOOLEAN]
  BY DEF Outside
<1>4. Stored.roster = [u \in Users |-> db[<<"roster", u>>]]
  BY DEF Stored
<1> QED  BY <1>2, <1>3, <1>4

LEMMA LogAtFirst ==
  ASSUME SqlInit
  PROVE  /\ Len(Stored.found) = Len(Stored.log)
         /\ \A q \in DOMAIN Stored.log : Stored.found[q] = Contract!Searchable(Stored.log[q])
<1>1. PICK left \in Left(topic) :
           /\ \A c \in Rows : c \notin DOMAIN left \/ c[1] \notin TablesOf(topic) => db[c] = Absent(c[1])
           /\ \A c \in DOMAIN left : db[c] = left[c]
  BY AbsentRows
<1>2. /\ Stored.log = [q \in Sent |-> db[<<"message", q>>]]
      /\ Stored.found = [q \in Sent |-> db[<<"tokens", q>>]]
  BY DEF Stored
<1>3. db[LastSeq] \in Nat
  BY MessageInit DEF MessageInv
<1>4. Len(Stored.found) = db[LastSeq] /\ Len(Stored.log) = db[LastSeq] /\ DOMAIN Stored.log = 1..db[LastSeq]
  BY <1>2, <1>3 DEF Sent
<1>5. CASE topic = "message" /\ left # <<>>
  <2>1. PICK b \in Bodies : left = Over(Write(LastSeq, 1),
                             Over(Write(<<"message", 1>>, [body |-> b, gone |-> FALSE]),
                                  Write(<<"tokens", 1>>, {b})))
    BY <1>5 DEF Left
  <2>2. /\ DOMAIN left = {LastSeq, <<"message", 1>>, <<"tokens", 1>>} /\ left[LastSeq] = 1
        /\ left[<<"message", 1>>] = [body |-> b, gone |-> FALSE] /\ left[<<"tokens", 1>>] = {b}
    BY <2>1 DEF Over, Write, LastSeq
  <2>3. db[LastSeq] = 1 /\ db[<<"message", 1>>] = [body |-> b, gone |-> FALSE] /\ db[<<"tokens", 1>>] = {b}
    BY <1>1, <2>2
  <2>4. Contract!Searchable([body |-> b, gone |-> FALSE]) = {b}
    BY DEF Contract!Searchable
  <2>5. DOMAIN Stored.log = {1} /\ Stored.log[1] = [body |-> b, gone |-> FALSE] /\ Stored.found[1] = {b}
    BY <1>2, <1>4, <2>3 DEF Sent
  <2> QED  BY <1>4, <2>4, <2>5
<1>6. CASE topic # "message" \/ left = <<>>
  <2>1. topic # "message" => "lastSeq" \notin TablesOf(topic)
    BY DEF SqlInit, Topics, TablesOf
  <2>2. LastSeq \in Rows /\ LastSeq[1] = "lastSeq" /\ Absent("lastSeq") = 0
    BY DEF Rows, LastSeq, Absent
  <2>3. db[LastSeq] = 0
    BY <1>1, <1>6, <2>1, <2>2, EmptyWork
  <2> QED  BY <1>4, <2>3
<1> QED  BY <1>5, <1>6

LEMMA MarksAtFirst ==
  ASSUME SqlInit
  PROVE  /\ {Stored.block, Stored.mute} \subseteq {None, 0}
         /\ DOMAIN Stored.bans \subseteq {0} /\ DOMAIN Stored.reports \subseteq {0}
         /\ Stored.uses \in 0..MaxUses
<1>1. PICK left \in Left(topic) :
           /\ \A c \in Rows : c \notin DOMAIN left \/ c[1] \notin TablesOf(topic) => db[c] = Absent(c[1])
           /\ \A c \in DOMAIN left : db[c] = left[c]
           /\ \A c \in DOMAIN left : c[1] \in TablesOf(topic)
  BY AbsentRows
<1>2. {Stored.block, Stored.mute} \subseteq {None, 0}
  <2>1. {Block, Mute} \subseteq Rows /\ Block[1] = "block" /\ Mute[1] = "mute" /\ Absent("block") = None /\ Absent("mute") = None
    BY DEF Rows, Block, Mute, Absent
  <2>2. CASE topic = "block"
    <3>1. left \in [{Block, Mute} -> {None, 0}]
      BY <2>2 DEF Left
    <3>2. db[Block] \in {None, 0} /\ db[Mute] \in {None, 0}
      BY <1>1, <3>1
    <3> QED  BY <3>2 DEF Stored
  <2>3. CASE topic # "block"
    <3>1. "block" \notin TablesOf(topic) /\ "mute" \notin TablesOf(topic)
      BY <2>3 DEF SqlInit, Topics, TablesOf
    <3>2. db[Block] = None /\ db[Mute] = None
      BY <1>1, <2>1, <3>1
    <3> QED  BY <3>2 DEF Stored
  <2> QED  BY <2>2, <2>3
<1>3. ASSUME NEW i \in RowIds, i # 0 PROVE db[Ban(i)] = NoBan /\ db[Report(i)] = NoReport
  <2>1. /\ Ban(i) \in Rows /\ Report(i) \in Rows /\ Ban(i)[1] = "ban" /\ Report(i)[1] = "report"
        /\ Ban(i) # Ban(0) /\ Report(i) # Report(0) /\ Absent("ban") = NoBan /\ Absent("report") = NoReport
    BY <1>3 DEF Rows, Ban, Report, Absent
  <2>2. Ban(i) \notin DOMAIN left
    <3>1. topic = "ban" => DOMAIN left \subseteq {Ban(0)}
      BY EmptyWork DEF Left, Write
    <3>2. topic # "ban" => "ban" \notin TablesOf(topic)
      BY DEF SqlInit, Topics, TablesOf
    <3> QED  BY <1>1, <2>1, <3>1, <3>2
  <2>3. Report(i) \notin DOMAIN left
    <3>1. topic = "report" => DOMAIN left \subseteq {Report(0)}
      BY EmptyWork DEF Left, Write
    <3>2. topic # "report" => "report" \notin TablesOf(topic)
      BY DEF SqlInit, Topics, TablesOf
    <3> QED  BY <1>1, <2>1, <3>1, <3>2
  <2> QED  BY <1>1, <2>1, <2>2, <2>3
<1>4. DOMAIN Stored.bans \subseteq {0} /\ DOMAIN Stored.reports \subseteq {0}
  BY <1>3 DEF Stored
<1>5. Stored.uses \in 0..MaxUses
  <2>1. Uses \in Rows /\ Uses[1] = "uses" /\ Absent("uses") = 0
    BY DEF Rows, Uses, Absent
  <2>2. Uses \notin DOMAIN left
    <3>1. topic = "invite" => DOMAIN left \subseteq {Request}
      BY EmptyWork DEF Left, Write
    <3>2. topic # "invite" => "uses" \notin TablesOf(topic)
      BY DEF SqlInit, Topics, TablesOf
    <3> QED  BY <1>1, <2>1, <3>1, <3>2 DEF Uses, Request
  <2>3. db[Uses] = 0
    BY <1>1, <2>1, <2>2
  <2>4. Stored.uses = 0
    BY <2>3 DEF Stored
  <2> QED  BY <2>4, SqlAssumption
<1> QED  BY <1>2, <1>4, <1>5

LEMMA ContractInit == SqlInit => Contract!Init
<1> SUFFICES ASSUME SqlInit PROVE Contract!Init
  OBVIOUS
<1>1. Stored.mentions \subseteq Users /\ Stored.reactions \subseteq Users
  BY DEF Stored
<1> QED  BY <1>1, PairAtFirst, RosterAtFirst, LogAtFirst, MarksAtFirst
         DEF Contract!Init, Contract!None, None

LEMMA ContractStep ==
  ASSUME SqlInv, [SqlNext]_sqlVars
  PROVE  [Contract!Next \/ <<backend, topic>> \in Exempt]_Stored
<1>1. CASE db' = db
  <2>1. Stored' = Stored
    BY <1>1 DEF Stored, Present, Sent
  <2> QED  BY <2>1
<1>2. ASSUME NEW n \in Calls, NEW new, NEW note, Lands(n, new, note) PROVE MeetsContract
  <2>1. topic \in Topics /\ BansOwned
    BY DEF SqlInv, BaseInv, BanInv
  <2> QED  BY <1>2, <2>1, PairKeeps, RosterKeeps, MessageKeeps, MentionKeeps, ReactionKeeps, BlockKeeps,
              BanKeeps, ReportKeeps, InviteKeeps DEF SqlInv, Topics
<1>3. CASE SqlNext
  <2>1. PICK n \in Calls : Stepped(n)
    BY <1>3, BaseShaped, StepEffect DEF SqlInv
  <2>2. db' = db \/ \E new, note : Lands(n, new, note)
    BY <2>1, StepLands DEF SqlInv
  <2> QED  BY <1>1, <1>2, <2>2 DEF MeetsContract
<1>4. CASE UNCHANGED sqlVars
  BY <1>1, <1>4 DEF sqlVars
<1> QED  BY <1>3, <1>4

\* Six adapters, any number of calls, users and crashes: every commit is one
\* operation of the storage contract, but for the eight pairs of an adapter and
\* a topic that Exempt names.
THEOREM AdaptersKeepTheContract == SqlSpec => KeepsTheContract
<1> QED  BY ContractInit, ContractStep, SqlInvariance, PTL DEF SqlSpec, KeepsTheContract

-----------------------------------------------------------------------------
(* Statements write rows of the database and no others.                    *)

InRows(result) == DOMAIN result.writes \subseteq Rows

LEMMA RowForms ==
  ASSUME NEW v, NEW note, NEW p
  PROVE  /\ InRows(Select(note)) /\ InRows(Throws)
         /\ \A c \in Rows : InRows(Put(c, v, note)) /\ InRows(PutIf(p, c, v, note))
<1>1. InRows(Select(note)) /\ InRows(Throws)
  BY EmptyWork DEF InRows, Select, Throws, Sql
<1>2. ASSUME NEW c \in Rows PROVE InRows(Put(c, v, note)) /\ InRows(PutIf(p, c, v, note))
  BY EmptyWork DEF InRows, Put, PutIf, Sql, Write
<1> QED  BY <1>1, <1>2

LEMMA RowsThereAre ==
  /\ {PairRow, PairMembers, Title, LastSeq, Block, Mute, Uses, Request, BanLock} \subseteq Rows
  /\ \A i \in RowIds : Ban(i) \in Rows /\ Report(i) \in Rows
  /\ \A n \in Calls : Gap(n) \in Rows
  /\ \A n \in Calls : {<<"link", n>>, <<"room", n>>, <<"roomMembers", n>>} \subseteq Rows
  /\ \A q \in Seqs : {<<"message", q>>, <<"tokens", q>>} \subseteq Rows
  /\ \A u \in Users : {<<"roster", u>>, <<"mention", u>>, <<"reaction", u>>} \subseteq Rows
<1>1. {PairRow, PairMembers, Title, LastSeq, Block, Mute, Uses, Request, BanLock} \subseteq Rows
  <2>1. 0 \in RowIds
    BY SqlAssumption DEF RowIds
  <2> QED
    BY <2>1 DEF Rows, PairRow, PairMembers, Title, LastSeq, Block, Mute, Uses, Request, BanLock
<1>6. \A n \in Calls : Gap(n) \in Rows
  <2>1. Calls \subseteq RowIds
    BY SqlAssumption DEF Calls, RowIds
  <2> QED  BY <2>1 DEF Rows, Gap
<1>2. \A i \in RowIds : Ban(i) \in Rows /\ Report(i) \in Rows
  BY DEF Rows, Ban, Report
<1>3. \A n \in Calls : {<<"link", n>>, <<"room", n>>, <<"roomMembers", n>>} \subseteq Rows
  BY DEF Rows
<1>4. \A q \in Seqs : {<<"message", q>>, <<"tokens", q>>} \subseteq Rows
  BY DEF Rows
<1>5. \A u \in Users : {<<"roster", u>>, <<"mention", u>>, <<"reaction", u>>} \subseteq Rows
  BY DEF Rows
<1> QED  BY <1>1, <1>2, <1>3, <1>4, <1>5, <1>6

LEMMA MessageStatementRows ==
  ASSUME SqlInv, NEW n \in Calls, Runs(n), topic = "message", db[LastSeq] + 1 \in Seqs
  PROVE  InRows(Now(n))
<1>1. /\ Running(n) /\ call[n].op \in {"send", "edit", "delete"} /\ ~AllRun(n) /\ ~Opens(n)
      /\ SendOK(n) /\ UpdateOK(n)
  BY OperationOf DEF Runs, Running, Operations, SqlInv, MessageInv
<1>2. LastSeq \in Rows /\ 1 \in Seqs
  BY RowsThereAre, SqlAssumption DEF Seqs
<1>3. CASE call[n].op = "send"
  <2>1. Transaction(n) = <<"bump", "insertMessage", "indexMessage">> /\ call[n].st \in 1..4
    BY <1>1, <1>3, SendRuns DEF SqlInv
  <2>2. call[n].st \in {1, 2, 3}
    BY <1>1, <2>1 DEF AllRun
  <2>3. CASE call[n].st = 1
    <3>1. Statement(n) = "bump"
      BY <2>1, <2>3 DEF Statement
    <3>2. Now(n) = Bump(n)
      BY <3>1 DEF Now, Result
    <3> QED  BY <1>2, <3>2, RowForms DEF Bump
  <2>4. CASE call[n].st \in {2, 3}
    <3>1. Note(n) \in Seqs
      BY <1>1, <1>3, <2>4 DEF SendOK
    <3>2. <<"message", Note(n)>> \in Rows /\ <<"tokens", Note(n)>> \in Rows
      BY <3>1, RowsThereAre
    <3>3. Statement(n) = "insertMessage" \/ Statement(n) = "indexMessage"
      BY <2>1, <2>4 DEF Statement
    <3>4. Now(n) = InsertMessage(n) \/ Now(n) = IndexMessage(n)
      BY <3>3 DEF Now, Result
    <3> QED  BY <3>2, <3>4, RowForms DEF InsertMessage, IndexMessage
  <2> QED  BY <2>2, <2>3, <2>4
<1>4. CASE call[n].op \in {"edit", "delete"}
  <2>1. Statement(n) = "patch" \/ Statement(n) = "reindex"
    <3>1. FirstAt \in {1, 2} /\ call[n].st \in 1..(FirstAt + 2) /\ call[n].st # FirstAt + 2 /\ call[n].st \geq FirstAt
          /\ (call[n].st = FirstAt => Statement(n) = "patch")
          /\ (call[n].st = FirstAt + 1 => Statement(n) = "reindex")
      BY <1>1, <1>4, UpdateRuns DEF Updating, SqlInv
    <3> QED  BY <3>1
  <2>2. FirstMessage \in Rows /\ <<"tokens", 1>> \in Rows
    BY <1>2, RowsThereAre DEF FirstMessage
  <2>3. Now(n) = Patch(n) \/ Now(n) = Reindex(n)
    BY <2>1 DEF Now, Result
  <2>4. InRows(Patch(n))
    BY <2>2, RowForms DEF Patch
  <2>5. InRows(Reindex(n))
    BY <2>2, RowForms DEF Reindex
  <2> QED  BY <2>3, <2>4, <2>5
<1> QED  BY <1>1, <1>3, <1>4

LEMMA BanStatementRows ==
  ASSUME SqlInv, NEW n \in Calls, Runs(n), topic = "ban" PROVE InRows(Now(n))
<1>1. Statement(n) \in StatementsOf("ban") /\ Running(n)
  BY RunsWell DEF Runs, SqlInv
<1>2. n \in RowIds /\ {0, 1} \subseteq RowIds
  BY SqlAssumption DEF Calls, RowIds
<1>3. Ban(n) \in Rows /\ Bans \subseteq Rows /\ BanLock \in Rows /\ Gap(n) \in Rows
  BY <1>2, RowsThereAre DEF Bans
<1>4. CASE Statement(n) = "findBan"
  BY <1>4, RowForms DEF Now, Result, FindBan
<1>5. CASE Statement(n) = "landBan"
  <2>1. Now(n) = LandBan(n)
    BY <1>5 DEF Now, Result
  <2> QED  BY <1>3, <2>1, EmptyWork DEF LandBan, NewBan, InRows, Sql, Write
<1>6. CASE Statement(n) = "guardedBan"
  <2>1. Now(n) = GuardedBan(n)
    BY <1>6 DEF Now, Result
  <2> QED  BY <1>3, <2>1, EmptyWork DEF GuardedBan, NewBan, InRows, Sql, Write
<1>7. CASE Statement(n) = "answerBan"
  BY <1>7, RowForms DEF Now, Result, AnswerBan, FindBan
<1>8. CASE Statement(n) = "lockBans"
  <2>1. Now(n) = LockBans(n)
    BY <1>8 DEF Now, Result
  <2> QED  BY <1>3, <2>1 DEF LockBans, Scanned, InRows, Sql
<1>9. CASE Statement(n) = "takeBanLock"
  <2>1. Now(n) = TakeBanLock(n)
    BY <1>9 DEF Now, Result
  <2> QED  BY <1>3, <2>1, RowForms DEF TakeBanLock
<1>10. CASE Statement(n) \in {"findTarget", "revokeActive", "revokeAny"}
  <2>1. call[n].op = "revoke"
    <3>1. call[n].op # "ban"
      <4> SUFFICES ASSUME call[n].op = "ban" PROVE FALSE
        OBVIOUS
      <4>1. Program(n) = Programs[backend].ban /\ backend \in Backends
        BY DEF Program, SqlInv, BaseInv
      <4>2. \A i \in 1..Len(Program(n)) : \A j \in 1..Len(Program(n)[i]) :
              Program(n)[i][j] \notin {"findTarget", "revokeActive", "revokeAny"}
        <5>1. CASE backend = "drizzle"
          BY <4>1, <5>1, BanPrograms
        <5>2. CASE backend \in {"sqlite", "turso"}
          BY <4>1, <5>2, BanPrograms
        <5>3. CASE backend = "mysql"
          BY <4>1, <5>3, BanPrograms
        <5>4. CASE backend = "prisma"
          BY <4>1, <5>4, BanPrograms DEF Snapshot
        <5>5. CASE backend = "supabase"
          BY <4>1, <5>5, BanPrograms
        <5> QED  BY <4>1, <5>1, <5>2, <5>3, <5>4, <5>5 DEF Backends
      <4>3. call[n].tx \in 1..Len(Program(n)) /\ call[n].st \in 1..Len(Transaction(n))
        BY <1>1, RunsWell DEF Runs, SqlInv
      <4> QED  BY <1>10, <4>2, <4>3 DEF Statement, Transaction
    <3> QED  BY <1>1, <3>1, BanRuns DEF SqlInv
  <2>2. Arg(n).ban \in {0, 1}
    BY <1>1, <2>1, BanRuns DEF SqlInv
  <2>3. Target(n) \in Rows
    BY <1>2, <2>2, RowsThereAre DEF Target
  <2>4. Now(n) = FindTarget(n) \/ Now(n) = RevokeActive(n) \/ Now(n) = RevokeAny(n)
    BY <1>10 DEF Now, Result
  <2>5. InRows(FindTarget(n))
    BY RowForms DEF FindTarget
  <2>6. InRows(RevokeActive(n))
    BY <2>3, RowForms DEF RevokeActive
  <2>7. InRows(RevokeAny(n))
    BY <2>3, RowForms DEF RevokeAny
  <2> QED  BY <2>4, <2>5, <2>6, <2>7
<1> QED  BY <1>1, <1>4, <1>5, <1>6, <1>7, <1>8, <1>9, <1>10 DEF StatementsOf

LEMMA PersonStatementRows ==
  ASSUME SqlInv, NEW n \in Calls, Runs(n), topic \in {"roster", "mention", "reaction"}
  PROVE  InRows(Now(n))
<1>1. Running(n) /\ Statement(n) \in StatementsOf(topic)
  BY RunsWell DEF Runs, SqlInv
<1>2. CASE topic = "roster"
  <2>1. AutoCommits(n)
    BY <1>1, <1>2, RosterRuns DEF SqlInv
  <2>2. Statement(n) = Transaction(n)[1]
    BY <1>1, <2>1 DEF Statement, SqlInv, BaseInv, CallOK
  <2>3. \/ Statement(n) \in {"join", "leave", "promote", "promoteOrThrow", "markRead",
                             "markReadOrThrow", "checkSeat"} /\ Arg(n) \in Users
        \/ Statement(n) = "retitle" \/ Statement(n) = "reload"
    BY <1>1, <1>2, <2>2, RosterRuns DEF SqlInv
  <2>4. Title \in Rows
    BY RowsThereAre
  <2>5. CASE Statement(n) = "retitle"
    BY <2>4, <2>5, RowForms DEF Now, Result, Retitle
  <2>6. CASE Statement(n) = "reload"
    BY <2>6, RowForms DEF Now, Result, Reload
  <2>7. CASE Arg(n) \in Users /\ Statement(n) \notin {"retitle", "reload"}
    <3>1. Seat(n) \in Rows
      BY <2>7, RowsThereAre DEF Seat
    <3>2. InRows(Join(n)) /\ InRows(Unseat(n)) /\ InRows(Promote(n)) /\ InRows(MarkRead(n)) /\ InRows(Throws)
      BY <3>1, RowForms DEF Join, Unseat, Promote, MarkRead
    <3>3. InRows(CheckSeat(n)) /\ InRows(Strictly(n, Promote(n))) /\ InRows(Strictly(n, MarkRead(n)))
      BY <3>2, RowForms DEF CheckSeat, Strictly
    <3>4. Now(n) \in {Join(n), Unseat(n), Promote(n), MarkRead(n), CheckSeat(n),
                      Strictly(n, Promote(n)), Strictly(n, MarkRead(n))}
      BY <2>3, <2>7 DEF Now, Result
    <3> QED  BY <3>2, <3>3, <3>4
  <2> QED  BY <2>3, <2>5, <2>6, <2>7
<1>3. CASE topic = "mention"
  <2>1. call[n].op \in {"mention"}
    BY <1>1, <1>3, OperationOf DEF Running, Operations, SqlInv
  <2>2. PICK r \in Requests("mention") : call[n].op = r[1] /\ call[n].arg = r[2]
    BY <1>1, <1>3 DEF SqlInv, Running, BaseInv, CallOK, Asked
  <2>3. Arg(n) \subseteq Users
    BY <2>2 DEF Requests, Arg
  <2>4. Mentions(Users) \subseteq Rows
    BY RowsThereAre DEF Mentions
  <2>5. InRows(InsertMentions(n)) /\ InRows(LockMentions(n))
    BY <2>3, <2>4 DEF InsertMentions, LockMentions, InRows, Sql, Mentions
  <2>6. InRows(PruneMentions(n)) /\ InRows(ScanMentions(n))
    BY <2>4 DEF PruneMentions, ScanMentions, InRows, Sql, Mentions, Dropped
  <2>7. Now(n) \in {InsertMentions(n), LockMentions(n), PruneMentions(n), ScanMentions(n)}
    BY <1>1, <1>3 DEF Now, Result, StatementsOf
  <2> QED  BY <2>5, <2>6, <2>7
<1>4. CASE topic = "reaction"
  <2>1. AutoCommits(n)
    BY <1>1, <1>4, ReactionRuns DEF SqlInv
  <2>2. Statement(n) = Transaction(n)[1]
    BY <1>1, <2>1 DEF Statement, SqlInv, BaseInv, CallOK
  <2>3. (Statement(n) \in {"react", "unreact"} /\ Arg(n) \in Users) \/ Statement(n) = "readReactions"
    BY <1>1, <1>4, <2>2, ReactionRuns DEF SqlInv
  <2>4. CASE Statement(n) = "readReactions"
    BY <2>4, RowForms DEF Now, Result, ReadReactions
  <2>5. CASE Statement(n) \in {"react", "unreact"} /\ Arg(n) \in Users
    <3>1. <<"reaction", Arg(n)>> \in Rows
      BY <2>5, RowsThereAre
    <3>2. Now(n) = React(n) \/ Now(n) = Unreact(n)
      BY <2>5 DEF Now, Result
    <3> QED  BY <3>1, <3>2, RowForms DEF React, Unreact
  <2> QED  BY <2>3, <2>4, <2>5
<1> QED  BY <1>2, <1>3, <1>4

LEMMA PlainStatementRows ==
  ASSUME SqlInv, NEW n \in Calls, Runs(n), topic \in {"pair", "block", "report", "invite"}
  PROVE  InRows(Now(n))
<1>1. Statement(n) \in StatementsOf(topic)
  BY RunsWell DEF SqlInv, Runs
<1>2. n \in RowIds /\ 0 \in RowIds
  BY SqlAssumption DEF Calls, RowIds
<1>3. CASE topic = "pair"
  <2>1. {PairRow, PairMembers, <<"room", n>>, <<"roomMembers", n>>} \subseteq Rows
    BY RowsThereAre
  <2>2. InRows(ClaimPair(n)) /\ InRows(JoinPair(n))
    BY <2>1, RowForms DEF ClaimPair, JoinPair
  <2>3. InRows(AnswerPair(n)) /\ InRows(AnswerPairById(n)) /\ InRows(Reload(n))
    BY RowForms DEF AnswerPair, AnswerPairById, Reload
  <2>4. InRows(InsertRoom(n)) /\ InRows(InsertRoomMembers(n))
    BY <2>1, RowForms DEF InsertRoom, InsertRoomMembers
  <2>5. Now(n) \in {ClaimPair(n), JoinPair(n), AnswerPair(n), AnswerPairById(n), InsertRoom(n),
                    InsertRoomMembers(n), Reload(n)}
    BY <1>1, <1>3 DEF Now, Result, StatementsOf
  <2> QED  BY <2>2, <2>3, <2>4, <2>5
<1>4. CASE topic = "block"
  <2>1. Block \in Rows /\ Mute \in Rows
    BY RowsThereAre
  <2>2. \A c \in Rows : InRows(Impose(n, c)) /\ InRows(ImposeAgain(n, c)) /\ InRows(Lift(n, c))
    BY RowForms DEF Impose, ImposeAgain, Lift
  <2>3. \A c \in Rows : InRows(ReadBack(n, c))
    BY RowForms DEF ReadBack
  <2>4. \E c \in {Block, Mute} : Now(n) \in {Impose(n, c), ImposeAgain(n, c), Lift(n, c), ReadBack(n, c)}
    <3>1. CASE Statement(n) = "block"
      BY <3>1 DEF Now, Result
    <3>2. CASE Statement(n) = "blockAgain"
      BY <3>2 DEF Now, Result
    <3>3. CASE Statement(n) = "unblock"
      BY <3>3 DEF Now, Result
    <3>4. CASE Statement(n) = "readBlock"
      BY <3>4 DEF Now, Result
    <3>5. CASE Statement(n) = "mute"
      BY <3>5 DEF Now, Result
    <3>6. CASE Statement(n) = "muteAgain"
      BY <3>6 DEF Now, Result
    <3>7. CASE Statement(n) = "unmute"
      BY <3>7 DEF Now, Result
    <3>8. CASE Statement(n) = "readMute"
      BY <3>8 DEF Now, Result
    <3> QED  BY <1>1, <1>4, <3>1, <3>2, <3>3, <3>4, <3>5, <3>6, <3>7, <3>8 DEF StatementsOf
  <2> QED  BY <2>1, <2>2, <2>3, <2>4
<1>5. CASE topic = "report"
  <2>1. Report(n) \in Rows /\ Report(0) \in Rows
    BY <1>2, RowsThereAre
  <2>2. InRows(FindReport(n)) /\ InRows(ReadReport(n)) /\ InRows(FindReviewed(n))
    BY RowForms DEF FindReport, ReadReport, FindReviewed
  <2>3. InRows(InsertReport(n)) /\ InRows(Review(n))
    BY <2>1, RowForms DEF InsertReport, Review
  <2>4. Now(n) \in {FindReport(n), ReadReport(n), FindReviewed(n), InsertReport(n), Review(n)}
    BY <1>1, <1>5 DEF Now, Result, StatementsOf
  <2> QED  BY <2>2, <2>3, <2>4
<1>6. CASE topic = "invite"
  <2>1. {<<"link", n>>, Uses, Request} \subseteq Rows
    BY RowsThereAre
  <2>2. InRows(InsertInvite(n)) /\ InRows(DeleteInvite(n)) /\ InRows(Consume(n)) /\ InRows(Ask(n))
    BY <2>1, RowForms DEF InsertInvite, DeleteInvite, Consume, Ask
  <2>3. InRows(Resolve(n)) /\ InRows(ReadRequest(n)) /\ InRows(Select("ok"))
    BY <2>1, RowForms DEF Resolve, ReadRequest
  <2>4. InRows(ResolveIfAny(n))
    BY <2>3, RowForms DEF ResolveIfAny
  <2>5. Now(n) \in {InsertInvite(n), DeleteInvite(n), Consume(n), Ask(n), Resolve(n), ReadRequest(n),
                    Select("ok"), ResolveIfAny(n)}
    BY <1>1, <1>6 DEF Now, Result, StatementsOf
  <2> QED  BY <2>2, <2>3, <2>4, <2>5
<1> QED  BY <1>3, <1>4, <1>5, <1>6

\* The sequence numbers are no more than the sends that were answered, and the
\* one that was there before.
RowsInv ==
  /\ DOMAIN db = Rows /\ \A n \in Calls : Holds(n) \subseteq Rows
  /\ db[LastSeq] \leq 1 + Cardinality(Answered("send"))

LEMMA SomeSends ==
  /\ \A op : IsFiniteSet(Answered(op)) /\ Cardinality(Answered(op)) \in Nat
  /\ \A op : \A n \in Calls : n \notin Answered(op) => Cardinality(Answered(op)) \leq MaxCalls - 1
<1>1. IsFiniteSet(Calls) /\ Cardinality(Calls) = MaxCalls
  <2>1. MaxCalls \in Nat
    BY SqlAssumption
  <2>2. IsFiniteSet(1..MaxCalls) /\ Cardinality(1..MaxCalls) = MaxCalls
    BY <2>1, FS_Interval
  <2> QED  BY <2>2 DEF Calls
<1>2. \A op : Answered(op) \subseteq Calls
  BY DEF Answered
<1>3. ASSUME NEW op, NEW n \in Calls, n \notin Answered(op) PROVE Cardinality(Answered(op)) \leq MaxCalls - 1
  <2>1. Answered(op) \subseteq Calls \ {n}
    BY <1>2, <1>3
  <2>2. IsFiniteSet(Calls \ {n}) /\ Cardinality(Calls \ {n}) = MaxCalls - 1
    BY <1>1, FS_RemoveElement
  <2> QED  BY <2>1, <2>2, FS_Subset
<1> QED  BY <1>1, <1>2, <1>3, FS_Subset, FS_CardinalityType

LEMMA StatementRows ==
  ASSUME SqlInv, RowsInv, NEW n \in Calls, Runs(n) PROVE InRows(Now(n))
<1>1. topic \in Topics
  BY DEF SqlInv, BaseInv
<1>2. n \notin Answered("send")
  BY DEF Runs, Running, Answered
<1>3. Cardinality(Answered("send")) \leq MaxCalls - 1 /\ Cardinality(Answered("send")) \in Nat
  BY <1>2, SomeSends
<1>4. db[LastSeq] \in Nat
  BY DEF SqlInv, MessageInv
<1>5. db[LastSeq] \leq 1 + Cardinality(Answered("send"))
  BY DEF RowsInv
<1>6. db[LastSeq] + 1 \in Seqs
  BY <1>3, <1>4, <1>5, SqlAssumption DEF Seqs
<1> QED  BY <1>1, <1>6, MessageStatementRows, BanStatementRows, PersonStatementRows, PlainStatementRows
         DEF Topics

LEMMA RowsInit == SqlInit => RowsInv
<1> SUFFICES ASSUME SqlInit PROVE RowsInv
  OBVIOUS
<1>1. PICK left \in Left(topic) :
           /\ \A c \in Rows : c \notin DOMAIN left => db[c] = Absent(c[1])
           /\ \A c \in DOMAIN left : db[c] = left[c]
           /\ DOMAIN db = DOMAIN left \union Rows
  BY LeftRows
<1>2. \A n \in Calls : call[n] = NoCall
  BY DEF SqlInit
<1>3. 0 \in RowIds /\ 1 \in Seqs
  BY SqlAssumption DEF RowIds, Seqs
<1>4. DOMAIN left \subseteq Rows /\ (LastSeq \in DOMAIN left => left[LastSeq] = 1)
  <2>1. CASE topic = "pair"
    <3>1. DOMAIN left \subseteq {PairRow, PairMembers}
      BY <2>1, EmptyWork DEF Left, Over, Write
    <3> QED  BY <3>1, RowsThereAre DEF PairRow, PairMembers, LastSeq
  <2>2. CASE topic = "roster"
    <3>1. left \in [{<<"roster", u>> : u \in Users} -> {Outside, [role |-> "member", read |-> FALSE]}]
      BY <2>2 DEF Left
    <3>2. DOMAIN left = {<<"roster", u>> : u \in Users}
      BY <3>1
    <3> QED  BY <3>2, RowsThereAre DEF LastSeq
  <2>3. CASE topic = "message"
    <3>1. CASE left = <<>>
      BY <3>1, EmptyWork
    <3>2. CASE left # <<>>
      <4>1. PICK b \in Bodies : left = Over(Write(LastSeq, 1),
                             Over(Write(<<"message", 1>>, [body |-> b, gone |-> FALSE]),
                                  Write(<<"tokens", 1>>, {b})))
        BY <2>3, <3>2 DEF Left
      <4>2. DOMAIN left = {LastSeq, <<"message", 1>>, <<"tokens", 1>>} /\ left[LastSeq] = 1
        BY <4>1 DEF Over, Write
      <4> QED  BY <1>3, <4>2, RowsThereAre
    <3> QED  BY <3>1, <3>2
  <2>4. CASE topic = "mention"
    <3>1. left \in [Mentions(Users) -> BOOLEAN]
      BY <2>4 DEF Left
    <3>2. DOMAIN left = {<<"mention", u>> : u \in Users}
      BY <3>1 DEF Mentions
    <3> QED  BY <3>2, RowsThereAre DEF LastSeq
  <2>5. CASE topic = "reaction"
    <3>1. left \in [{<<"reaction", u>> : u \in Users} -> BOOLEAN]
      BY <2>5 DEF Left
    <3>2. DOMAIN left = {<<"reaction", u>> : u \in Users}
      BY <3>1
    <3> QED  BY <3>2, RowsThereAre DEF LastSeq
  <2>6. CASE topic = "block"
    BY <2>6, RowsThereAre DEF Left, LastSeq, Block, Mute
  <2>7. CASE topic = "ban"
    <3>1. DOMAIN left \subseteq {Ban(0)}
      BY <2>7, EmptyWork DEF Left, Write
    <3> QED  BY <1>3, <3>1, RowsThereAre DEF Ban, LastSeq
  <2>8. CASE topic = "report"
    <3>1. DOMAIN left \subseteq {Report(0)}
      BY <2>8, EmptyWork DEF Left, Write
    <3> QED  BY <1>3, <3>1, RowsThereAre DEF Report, LastSeq
  <2>9. CASE topic = "invite"
    <3>1. DOMAIN left \subseteq {Request}
      BY <2>9, EmptyWork DEF Left, Write
    <3> QED  BY <3>1, RowsThereAre DEF Request, LastSeq
  <2> QED  BY <2>1, <2>2, <2>3, <2>4, <2>5, <2>6, <2>7, <2>8, <2>9 DEF SqlInit, Topics
<1>5. LastSeq \in Rows /\ LastSeq[1] = "lastSeq" /\ Absent("lastSeq") = 0
  BY RowsThereAre DEF LastSeq, Absent
<1>6. db[LastSeq] \in {0, 1}
  BY <1>1, <1>4, <1>5
<1>7. db[LastSeq] \leq 1 + Cardinality(Answered("send"))
  <2>1. Cardinality(Answered("send")) \in Nat
    BY SomeSends
  <2> QED  BY <1>6, <2>1
<1>8. \A n \in Calls : Holds(n) = {}
  BY <1>2, EmptyWork DEF Holds, NoCall
<1>9. DOMAIN db = Rows
  BY <1>1, <1>4
<1> QED  BY <1>7, <1>8, <1>9 DEF RowsInv

LEMMA SeqsCounted ==
  ASSUME SqlInv, RowsInv, NEW n \in Calls, Stepped(n)
  PROVE  (db[LastSeq] \leq 1 + Cardinality(Answered("send")))'
<1>1. /\ \A m \in Answered("send") \ {n} : m \in Answered("send")'
      /\ \A m \in Answered("send")' : m # n => m \in Answered("send")
      /\ n \notin Answered("send")
      /\ n \in Answered("send")' =>
           \E new, note : Lands(n, new, note) /\ LastTransaction(n) /\ call[n].op = "send" /\ Note(n)' = note
  BY AnsweredMoves DEF SqlInv
<1>2. IsFiniteSet(Answered("send")) /\ Cardinality(Answered("send")) \in Nat
      /\ db[LastSeq] \leq 1 + Cardinality(Answered("send")) /\ db[LastSeq] \in Nat
  BY SomeSends DEF RowsInv, SqlInv, MessageInv
<1>3. CASE n \in Answered("send")'
  <2>1. PICK new, note : Lands(n, new, note) /\ LastTransaction(n) /\ call[n].op = "send" /\ Note(n)' = note
    BY <1>1, <1>3
  <2>2. db'[LastSeq] = db[LastSeq] + 1
    BY <2>1, MessagesLand DEF SqlInv, Updating
  <2>3. Answered("send")' = Answered("send") \union {n}
    BY <1>1, <1>3
  <2>4. Cardinality(Answered("send")') = Cardinality(Answered("send")) + 1
    BY <1>1, <1>2, <2>3, FS_AddElement
  <2> QED  BY <1>2, <2>2, <2>4
<1>4. CASE n \notin Answered("send")'
  <2>1. Answered("send")' = Answered("send")
    BY <1>1, <1>4
  <2>2. db'[LastSeq] = db[LastSeq]
    <3>1. ASSUME NEW new, NEW note, Lands(n, new, note) PROVE db'[LastSeq] = db[LastSeq]
      <4>1. CASE call[n].op = "send" /\ LastTransaction(n)
        <5>1. n \in Answered("send")'
          BY <3>1, <4>1 DEF Lands, Landed, Identity, Answered
        <5> QED  BY <1>4, <5>1
      <4>2. CASE ~(call[n].op = "send" /\ LastTransaction(n))
        BY <3>1, <4>2, MessagesLand DEF SqlInv
      <4> QED  BY <4>1, <4>2
    <3> QED  BY <3>1, StepLands DEF SqlInv
  <2> QED  BY <1>2, <2>1, <2>2
<1> QED  BY <1>3, <1>4

LEMMA RowsStep ==
  ASSUME SqlInv, RowsInv, [SqlNext]_sqlVars PROVE RowsInv'
<1>1. ASSUME NEW n \in Calls, Stepped(n) PROVE RowsInv'
  <2>1. ASSUME NEW m \in Calls \ {n} PROVE Holds(m)' \subseteq Rows
    BY <1>1, OthersKeep DEF SqlInv, RowsInv, Holds
  <2>2. Holds(n)' \subseteq Rows
    <3>1. CASE Executed(n)
      <4>1. InRows(Now(n))
        BY <3>1, StatementRows DEF Executed
      <4> QED  BY <3>1, <4>1 DEF Executed, RowsInv, InRows, Holds, Over
    <3>2. CASE ~Executed(n)
      BY <1>1, <3>2, EmptyWork DEF Stepped, Started, Opened, LandedAlone, LandedWhole, Landed, Again, Stopped,
              Holds, RowsInv
    <3> QED  BY <3>1, <3>2
  <2>3. DOMAIN db' = Rows
    <3>1. ASSUME NEW new, NEW note, Lands(n, new, note) PROVE DOMAIN db' = Rows
      <4>1. DOMAIN new \subseteq Rows
        <5>1. CASE Runs(n) /\ new = Now(n).writes
          BY <5>1, StatementRows DEF InRows
        <5>2. CASE new = call[n].work
          BY <5>2 DEF RowsInv, Holds
        <5> QED  BY <3>1, <5>1, <5>2 DEF Lands
      <4>2. DOMAIN db' = DOMAIN new \union DOMAIN db
        BY <3>1, Undisturbed DEF SqlInv
      <4> QED  BY <4>1, <4>2 DEF RowsInv
    <3> QED  BY <1>1, <3>1, StepLands DEF SqlInv, RowsInv
  <2>4. (db[LastSeq] \leq 1 + Cardinality(Answered("send")))'
    BY <1>1, SeqsCounted
  <2>5. \A m \in Calls : Holds(m)' \subseteq Rows
    BY <2>1, <2>2
  <2> QED  BY <2>3, <2>4, <2>5 DEF RowsInv
<1>2. CASE SqlNext
  BY <1>1, <1>2, BaseShaped, StepEffect DEF SqlInv
<1>3. CASE UNCHANGED sqlVars
  BY <1>3 DEF sqlVars, RowsInv, Holds, Answered
<1> QED  BY <1>2, <1>3

\* The database has the rows it began with, whatever is written, and a
\* transaction holds none but these.
THEOREM RowsTyped == SqlSpec => []SqlTypeOK
<1>1. SqlInv /\ RowsInv => SqlTypeOK
  BY DEF SqlInv, BaseInv, CallOK, RowsInv, SqlTypeOK
<1>2. SqlInv /\ RowsInv /\ [SqlNext]_sqlVars => RowsInv'
  BY RowsStep
<1> QED  BY <1>1, <1>2, RowsInit, SqlInvariance, PTL DEF SqlSpec

-----------------------------------------------------------------------------
(* Lists that are read page by page: the names of this part are Paging's.  *)

Positions == [id : Nat, at : Nat]

\* The forms that lists have, and what goes with them: only a list that grows at
\* its front has a row cursor, and one whose reads are filtered has none.
ListOK ==
  /\ list.form \in {Keyset, OldestFirst, RowCursor, OldestRenewed}
  /\ Filtered => list.form = Keyset
  /\ list.form = OldestRenewed => list.of = "blocks"

RowsOK == rows \in [Ids -> [in : BOOLEAN, at : Stamps]]
-----------------------------------------------------------------------------
(* The order of a list, and what a page is in it.                           *)

\* Keys are ordered linearly, and rows have keys of their own.
LEMMA Order ==
  ASSUME NEW k \in Positions, NEW l \in Positions, NEW m \in Positions
  PROVE  /\ ~Ahead(k, k)
         /\ Ahead(k, l) /\ Ahead(l, m) => Ahead(k, m)
         /\ k = l \/ Ahead(k, l) \/ Ahead(l, k)
  BY DEF Ahead, Less, Positions

LEMMA Keys ==
  ASSUME RowsOK, NEW i \in Ids, NEW j \in Ids
  PROVE  /\ Key(i) \in Positions /\ Key(i) # Start /\ Key(i).id = i
         /\ Key(i) = Key(j) => i = j
  <1>1. rows[i].at \in Nat /\ i \in Nat
    BY PagingAssumption DEF RowsOK
  <1> QED  BY <1>1 DEF Key, Positions, Start

\* What comes before a row in a set of rows.
Before(S, i) == {j \in S : Ahead(Key(j), Key(i))}

LEMMA RowsAreOrdered ==
  ASSUME RowsOK, NEW S \in SUBSET Ids, NEW i \in S, NEW j \in S
  PROVE  /\ i = j \/ i \in Before(S, j) \/ j \in Before(S, i)
         /\ i \notin Before(S, i)
         /\ j \in Before(S, i) => Before(S, j) \subseteq Before(S, i) /\ i \notin Before(S, j)
  <1>1. \A h \in S : Key(h) \in Positions
    BY Keys
  <1>2. i = j \/ Ahead(Key(i), Key(j)) \/ Ahead(Key(j), Key(i))
    BY <1>1, Keys, Order
  <1>3. \A h, p, q \in S : Ahead(Key(h), Key(p)) /\ Ahead(Key(p), Key(q)) => Ahead(Key(h), Key(q))
    BY <1>1, Order
  <1>4. \A h \in S : ~Ahead(Key(h), Key(h))
    BY <1>1, Order
  <1> QED  BY <1>2, <1>3, <1>4 DEF Before

LEMMA FiniteRows ==
  ASSUME NEW S \in SUBSET Ids
  PROVE  /\ IsFiniteSet(S) /\ Cardinality(S) \in Nat
         /\ \A T \in SUBSET S : /\ Cardinality(T) \in Nat /\ Cardinality(T) <= Cardinality(S)
                                /\ Cardinality(T) = Cardinality(S) => T = S
  <1>1. IsFiniteSet(S)
    BY PagingAssumption, FS_Subset
  <1>2. ASSUME NEW T \in SUBSET S
        PROVE  /\ Cardinality(T) \in Nat /\ Cardinality(T) <= Cardinality(S)
               /\ Cardinality(T) = Cardinality(S) => T = S
    BY <1>1, FS_Subset, FS_CardinalityType
  <1> QED  BY <1>1, <1>2, FS_CardinalityType

LEMMA TwoSets ==
  ASSUME NEW S, IsFiniteSet(S), NEW T, IsFiniteSet(T), S \intersect T = {}
  PROVE  Cardinality(S \union T) = Cardinality(S) + Cardinality(T)
  <1>1. Cardinality(S \intersect T) = 0 /\ Cardinality(S) \in Nat /\ Cardinality(T) \in Nat
    BY FS_EmptySet, FS_CardinalityType
  <1>2. Cardinality(S \union T) = Cardinality(S) + Cardinality(T) - Cardinality(S \intersect T)
    BY FS_Union
  <1> QED  BY <1>1, <1>2

\* Among finitely many sets of rows there is a smallest one.
LEMMA SmallestSet ==
  ASSUME NEW S \in SUBSET Ids, NEW F \in SUBSET (SUBSET S), F # {}
  PROVE  \E X \in F : \A Y \in F : Y \subseteq X => Y = X
  <1>1. IsWellFoundedOn(StrictSubsetOrdering(S), FiniteSubsetsOf(S))
    BY FS_StrictSubsetOrderingWellFounded
  <1>2. F \subseteq FiniteSubsetsOf(S)
    BY FiniteRows, FS_FiniteSubsetsOfFinite
  <1>3. \E X \in F : \A Y \in F : ~(<<Y, X>> \in StrictSubsetOrdering(S))
    BY <1>1, <1>2, WFMin
  <1> QED  BY <1>3 DEF StrictSubsetOrdering

\* Rows that are there have a first and a last among them.
LEMMA FirstOne ==
  ASSUME RowsOK, NEW S \in SUBSET Ids, S # {}
  PROVE  \E i \in S : Before(S, i) = {}
  <1> DEFINE F == {Before(S, i) : i \in S}
  <1>1. F \in SUBSET (SUBSET S) /\ F # {}
    BY DEF Before
  <1>2. PICK i \in S :
          \A j \in S : Before(S, j) \subseteq Before(S, i) => Before(S, j) = Before(S, i)
    <2>1. \A j \in S : Before(S, j) \in F
      OBVIOUS
    <2>2. \A X \in F : \E i \in S : X = Before(S, i)
      OBVIOUS
    <2> HIDE DEF F
    <2>3. PICK X \in F : \A Y \in F : Y \subseteq X => Y = X
      BY <1>1, SmallestSet
    <2> QED  BY <2>1, <2>2, <2>3
  <1>3. ASSUME NEW j \in Before(S, i)
        PROVE  FALSE
    <2>1. j \in S
      BY DEF Before
    <2> QED  BY <1>2, <1>3, <2>1, RowsAreOrdered
  <1> QED  BY <1>3

LEMMA LastOne ==
  ASSUME RowsOK, NEW S \in SUBSET Ids, S # {}
  PROVE  Last(S) \in S /\ \A j \in S : j = Last(S) \/ Ahead(Key(j), Key(Last(S)))
  <1> DEFINE Others(i) == S \ Before(S, i)
             F == {Others(i) : i \in S}
  <1>1. F \in SUBSET (SUBSET S) /\ F # {}
    OBVIOUS
  <1>2. PICK i \in S : \A j \in S : Others(j) \subseteq Others(i) => Others(j) = Others(i)
    <2>1. \A j \in S : Others(j) \in F
      OBVIOUS
    <2>2. \A X \in F : \E i \in S : X = Others(i)
      OBVIOUS
    <2> HIDE DEF F, Others
    <2>3. PICK X \in F : \A Y \in F : Y \subseteq X => Y = X
      BY <1>1, SmallestSet
    <2> QED  BY <2>1, <2>2, <2>3
  <1>3. ASSUME NEW j \in S
        PROVE  j = i \/ j \in Before(S, i)
    <2>1. ASSUME i \in Before(S, j)
          PROVE  FALSE
      <3>1. Before(S, i) \subseteq Before(S, j) /\ i \notin Before(S, i)
        BY <2>1, RowsAreOrdered
      <3> QED  BY <1>2, <2>1, <3>1
    <2> QED  BY <2>1, RowsAreOrdered
  <1>4. \A j \in S : j = i \/ Ahead(Key(j), Key(i))
    BY <1>3 DEF Before
  <1> QED  BY <1>4 DEF Last

\* The first n rows of a set: none that is left comes before one of them.
LEMMA FirstIsAhead ==
  ASSUME RowsOK, NEW S \in SUBSET Ids, NEW n \in Nat
  PROVE  /\ First(S, n) \subseteq S
         /\ \A i \in S \ First(S, n) : First(S, n) \subseteq Before(S, i)
  <1>1. \A i \in S : Cardinality(Before(S, i)) \in Nat
    BY FiniteRows DEF Before
  <1>2. First(S, n) = {i \in S : Cardinality(Before(S, i)) < n}
    BY DEF First, Before
  <1>3. ASSUME NEW i \in S \ First(S, n), NEW j \in First(S, n)
        PROVE  j \in Before(S, i)
    <2>1. i \in S /\ j \in S /\ Cardinality(Before(S, j)) < n /\ ~(Cardinality(Before(S, i)) < n)
      BY <1>2
    <2>2. i # j
      BY <2>1
    <2>3. ASSUME i \in Before(S, j)
          PROVE  FALSE
      <3>1. Before(S, i) \subseteq Before(S, j) /\ Before(S, j) \in SUBSET Ids
        BY <2>1, <2>3, RowsAreOrdered DEF Before
      <3>2. Cardinality(Before(S, i)) <= Cardinality(Before(S, j))
        BY <3>1, FiniteRows
      <3> QED  BY <1>1, <2>1, <3>2
    <2> QED  BY <2>1, <2>2, <2>3, RowsAreOrdered
  <1> QED  BY <1>2, <1>3

\* They are at most n, and fewer only if these are all.
LEMMA FirstSize ==
  ASSUME RowsOK, NEW S \in SUBSET Ids, NEW n \in Nat
  PROVE  /\ Cardinality(First(S, n)) \in 0..n
         /\ Cardinality(First(S, n)) < n => First(S, n) = S
  <1> DEFINE F == First(S, n)
  <1>1. \A i \in S : Cardinality(Before(S, i)) \in Nat
    BY FiniteRows DEF Before
  <1>2. F = {i \in S : Cardinality(Before(S, i)) < n}
    BY DEF First, Before
  <1>3. F \in SUBSET Ids /\ F \subseteq S /\ Cardinality(F) \in Nat
    BY <1>2, FiniteRows
  <1> HIDE DEF F
  <1>4. Cardinality(F) <= n
    <2>1. CASE F = {}
      BY <2>1, FS_EmptySet
    <2>2. CASE F # {}
      <3> DEFINE l == Last(F)
      <3>1. l \in F /\ \A j \in F : j = l \/ Ahead(Key(j), Key(l))
        BY <1>3, <2>2, LastOne
      <3> HIDE DEF l
      <3>2. F \ {l} \subseteq Before(S, l)
        BY <1>3, <3>1 DEF Before
      <3>3. Before(S, l) \in SUBSET Ids
        BY DEF Before
      <3>4. Cardinality(F \ {l}) <= Cardinality(Before(S, l))
        BY <3>2, <3>3, FiniteRows
      <3>5. IsFiniteSet(F)
        BY <1>3, FiniteRows
      <3>6. Cardinality(F \ {l}) = Cardinality(F) - 1
        BY <3>1, <3>5, FS_RemoveElement
      <3>7. l \in S /\ Cardinality(Before(S, l)) < n /\ Cardinality(Before(S, l)) \in Nat
        BY <1>1, <1>2, <3>1
      <3> QED  BY <1>3, <3>4, <3>6, <3>7
    <2> QED  BY <2>1, <2>2
  <1>5. ASSUME Cardinality(F) < n, F # S
        PROVE  FALSE
    <2>1. S \ F \in SUBSET Ids /\ S \ F # {}
      BY <1>3, <1>5
    <2>2. PICK i \in S \ F : Before(S \ F, i) = {}
      BY <2>1, FirstOne
    <2>3. Before(S, i) \subseteq F
      BY <2>2 DEF Before
    <2>4. Cardinality(Before(S, i)) <= Cardinality(F)
      BY <1>3, <2>3, FiniteRows
    <2>5. Cardinality(Before(S, i)) \in Nat /\ ~(Cardinality(Before(S, i)) < n)
      BY <1>1, <1>2, <2>2
    <2> QED  BY <1>3, <1>5, <2>4, <2>5
  <1> QED  BY <1>3, <1>4, <1>5 DEF F
-----------------------------------------------------------------------------
(* The invariant.                                                           *)

Cursors == {Start} \union [id : Ids, at : Nat]

WalkOK ==
  /\ walk \in [phase : {"before", "reading", "over"}, cursor : Cursors,
               skip : Nat, got : Nat, scans : Nat]
  /\ walk.got < PageSize
  /\ list.of # "files" => walk.skip = 0
  /\ walk.phase = "before" => walk.cursor = Start /\ walk.skip = 0

SeenOK ==
  /\ seen \in [steady : SUBSET Ids, given : SUBSET Ids, twice : SUBSET Ids, lost : BOOLEAN]
  /\ walk.phase = "before" => seen.given = {} /\ seen.twice = {} /\ seen.lost = FALSE

Typing ==
  /\ ListOK /\ RowsOK /\ WalkOK /\ SeenOK
  /\ hidden \in SUBSET Ids /\ (hidden = {} \/ Filtered)

\* Where the next page starts.
Position == IF list.form.cursor = "key" THEN walk.cursor ELSE Key(walk.cursor.id)
Beyond(i) == walk.cursor = Start \/ Ahead(Position, Key(i))
Window == Rest(walk.cursor) \ hidden

\* A row that has stayed and was not given yet is still to come, and behind the
\* files that the next read skips.
StayersAhead ==
  Reading => /\ seen.steady \subseteq Listed \ hidden
             /\ \A i \in seen.steady \ seen.given :
                  /\ Beyond(i)
                  /\ list.of = "files" => Cardinality(Before(Window, i)) >= walk.skip

\* What was given is behind the cursor, except the files that it counts.
GivenBehind ==
  Reading /\ ~seen.lost =>
    IF list.of = "files"
    THEN seen.given \subseteq Listed /\ Cardinality(seen.given \intersect Window) <= walk.skip
    ELSE \A i \in seen.steady \intersect seen.given :
           walk.cursor # Start /\ ~Ahead(walk.cursor, Key(i))

IInv == Typing /\ StayersAhead /\ GivenBehind /\ StayersAreGiven /\ OnceUnlessLost
-----------------------------------------------------------------------------
(* Initially, and by a first read.                                          *)

LEMMA Forms ==
  ASSUME list \in Lists
  PROVE  ListOK
  <1> DEFINE F == {Keyset, OldestFirst, RowCursor, OldestRenewed}
             L == [of : {"conversations", "messages", "search", "blocks", "reports", "bans",
                         "files"}, form : F]
  <1>1. ASSUME NEW name, NEW forms, list \in Listing(name, forms)
        PROVE  list.of = name /\ list.form \in forms
    BY <1>1 DEF Listing
  <1>2. CASE list \in Listing("conversations", {MemoryConversations, DrizzleConversations,
               SqliteConversations, TursoConversations, MysqlConversations, PrismaConversations,
               SupabaseConversations})
    <2>1. list.of = "conversations" /\ list.form \in {Keyset, RowCursor}
      BY <1>1, <1>2 DEF MemoryConversations, DrizzleConversations, SqliteConversations,
         TursoConversations, MysqlConversations, PrismaConversations, SupabaseConversations
    <2> QED  BY <2>1 DEF ListOK, Filtered, Keyset, RowCursor, OldestRenewed, OldestFirst
  <1>3. CASE list \in Listing("messages", {MemoryMessages, DrizzleMessages, SqliteMessages,
               TursoMessages, MysqlMessages, PrismaMessages, SupabaseMessages})
    <2>1. list.of = "messages" /\ list.form \in {Keyset, RowCursor}
      BY <1>1, <1>3 DEF MemoryMessages, DrizzleMessages, SqliteMessages, TursoMessages,
         MysqlMessages, PrismaMessages, SupabaseMessages
    <2> QED  BY <2>1 DEF ListOK, Filtered, Keyset, RowCursor, OldestRenewed, OldestFirst
  <1>4. CASE list \in Listing("search", {MemorySearch, DrizzleSearch, SqliteSearch, TursoSearch,
               MysqlSearch, PrismaSearch, SupabaseSearch})
    <2>1. list.of = "search" /\ list.form = Keyset
      BY <1>1, <1>4 DEF MemorySearch, DrizzleSearch, SqliteSearch, TursoSearch, MysqlSearch,
         PrismaSearch, SupabaseSearch
    <2> QED  BY <2>1 DEF ListOK, Filtered, Keyset, RowCursor, OldestRenewed, OldestFirst
  <1>5. CASE list \in Listing("blocks", {MemoryBlocks, DrizzleBlocks, SqliteBlocks, TursoBlocks,
               MysqlBlocks, PrismaBlocks, SupabaseBlocks, MemoryMutes, DrizzleMutes, SqliteMutes,
               TursoMutes, MysqlMutes, PrismaMutes, SupabaseMutes})
    <2>1. list.of = "blocks" /\ list.form \in F
      BY <1>1, <1>5 DEF MemoryBlocks, DrizzleBlocks, SqliteBlocks, TursoBlocks, MysqlBlocks,
         PrismaBlocks, SupabaseBlocks, MemoryMutes, DrizzleMutes, SqliteMutes, TursoMutes,
         MysqlMutes, PrismaMutes, SupabaseMutes
    <2> QED  BY <2>1 DEF ListOK, Filtered
  <1>6. CASE list \in Listing("reports", {MemoryReports, DrizzleReports, SqliteReports,
               TursoReports, MysqlReports, PrismaReports, SupabaseReports})
    <2>1. list.of = "reports" /\ list.form \in {OldestFirst, RowCursor}
      BY <1>1, <1>6 DEF MemoryReports, DrizzleReports, SqliteReports, TursoReports, MysqlReports,
         PrismaReports, SupabaseReports
    <2> QED  BY <2>1 DEF ListOK, Filtered, Keyset, RowCursor, OldestRenewed, OldestFirst
  <1>7. CASE list \in Listing("bans", {MemoryBans, DrizzleBans, SqliteBans, TursoBans,
               MysqlBans, PrismaBans, SupabaseBans})
    <2>1. list.of = "bans" /\ list.form \in {OldestFirst, RowCursor}
      BY <1>1, <1>7 DEF MemoryBans, DrizzleBans, SqliteBans, TursoBans, MysqlBans, PrismaBans,
         SupabaseBans
    <2> QED  BY <2>1 DEF ListOK, Filtered, Keyset, RowCursor, OldestRenewed, OldestFirst
  <1>8. CASE list \in Listing("files", {Keyset})
    <2>1. list.of = "files" /\ list.form = Keyset
      BY <1>1, <1>8
    <2> QED  BY <2>1 DEF ListOK, Filtered, Keyset, RowCursor, OldestRenewed, OldestFirst
  <1> QED  BY <1>2, <1>3, <1>4, <1>5, <1>6, <1>7, <1>8 DEF Lists

LEMMA Initially == Init => IInv
  <1> SUFFICES ASSUME Init PROVE IInv
    OBVIOUS
  <1>1. ListOK /\ RowsOK
    BY Forms DEF Init, RowsOK
  <1>2. WalkOK /\ SeenOK /\ hidden \in SUBSET Ids /\ (hidden = {} \/ Filtered)
    BY PagingAssumption DEF Init, WalkOK, SeenOK, Cursors
  <1>3. StayersAhead /\ GivenBehind /\ StayersAreGiven /\ OnceUnlessLost
    BY DEF Init, StayersAhead, GivenBehind, StayersAreGiven, OnceUnlessLost, Reading
  <1> QED  BY <1>1, <1>2, <1>3 DEF IInv, Typing

LEMMA BeginStep == IInv /\ Begin => IInv'
  <1> SUFFICES ASSUME IInv, Begin PROVE IInv'
    OBVIOUS
  <1>1. Listed \in SUBSET Ids /\ Listed' = Listed
    BY DEF Listed, Begin
  <1>2. /\ walk' = [walk EXCEPT !.phase = "reading"]
        /\ seen' = [seen EXCEPT !.steady = Listed \ hidden]
        /\ walk.cursor = Start /\ walk.skip = 0
        /\ seen.given = {} /\ seen.twice = {} /\ seen.lost = FALSE
        /\ list' = list /\ rows' = rows /\ hidden' = hidden
    BY DEF Begin, IInv, Typing, WalkOK, SeenOK
  <1>3. Typing'
    BY <1>1, <1>2 DEF IInv, Typing, WalkOK, SeenOK, ListOK, RowsOK, Filtered
  <1>4. /\ seen'.steady = Listed \ hidden /\ seen'.given = {} /\ seen'.twice = {}
        /\ walk'.cursor = Start /\ walk'.skip = 0 /\ walk'.phase = "reading"
    BY <1>2 DEF IInv, Typing, WalkOK, SeenOK
  <1>5. \A S \in SUBSET Ids : Cardinality(S) \in Nat
    BY FiniteRows
  <1>6. Window' \in SUBSET Ids
    BY <1>1, <1>4 DEF Window, Rest
  <1>7. \A i : (Before(Window, i))' \in SUBSET Ids
    BY <1>6 DEF Before
  <1>8. StayersAhead'
    BY <1>1, <1>2, <1>4, <1>5, <1>7 DEF StayersAhead, Beyond
  <1>9. GivenBehind'
    <2>1. seen'.given \intersect Window' = {} /\ Cardinality({}) = 0
      BY <1>4, FS_EmptySet
    <2> QED  BY <1>4, <2>1 DEF GivenBehind
  <1> QED  BY <1>3, <1>4, <1>8, <1>9 DEF IInv, StayersAreGiven, OnceUnlessLost
-----------------------------------------------------------------------------
(* A change of one row.                                                     *)

Row == [in : BOOLEAN, at : Stamps]

\* What the proofs use of a change: where a row cursor is where the row is, no row
\* gets older, and files only come.
Harmless(c, row) ==
  /\ list.form.cursor = "row" => row.at >= rows[c].at
  /\ list.of = "files" => c \notin Listed /\ row.in

LEMMA OtherRowsStay ==
  ASSUME Typing, NEW c \in Ids, NEW row \in Row, Changed(c, row)
  PROVE  /\ Typing'
         /\ list' = list /\ hidden' = hidden /\ walk' = walk
         /\ seen'.steady = seen.steady \ {c} /\ seen'.given = seen.given
         /\ seen'.twice = seen.twice /\ seen'.lost = seen.lost
         /\ Key(c)' = [id |-> c, at |-> row.at] /\ rows'[c] = row
         /\ \A i \in Ids \ {c} : Key(i)' = Key(i) /\ (i \in Listed' <=> i \in Listed)
  <1>1. /\ rows' = [rows EXCEPT ![c] = row] /\ seen' = [seen EXCEPT !.steady = @ \ {c}]
        /\ list' = list /\ hidden' = hidden /\ walk' = walk /\ walk.phase = "reading"
    BY DEF Changed, Reading
  <1>2. RowsOK' /\ rows'[c] = row /\ \A i \in Ids \ {c} : rows'[i] = rows[i]
    BY <1>1 DEF Typing, RowsOK, Row
  <1>3. /\ SeenOK' /\ seen'.steady = seen.steady \ {c} /\ seen'.given = seen.given
        /\ seen'.twice = seen.twice /\ seen'.lost = seen.lost
    BY <1>1 DEF Typing, SeenOK
  <1>4. ListOK' /\ WalkOK' /\ (hidden \in SUBSET Ids /\ (hidden = {} \/ Filtered))'
    BY <1>1 DEF Typing, ListOK, Filtered, WalkOK
  <1> QED  BY <1>1, <1>2, <1>3, <1>4 DEF Typing, Key, Listed

LEMMA StillBeyond ==
  ASSUME Typing, NEW c \in Ids, NEW row \in Row, Changed(c, row), Harmless(c, row),
         NEW i \in Ids \ {c}, Beyond(i)
  PROVE  Beyond(i)'
  <1>1. list' = list /\ walk' = walk /\ Key(i)' = Key(i) /\ Key(c)' = [id |-> c, at |-> row.at]
    BY OtherRowsStay
  <1>2. CASE walk.cursor = Start
    BY <1>1, <1>2 DEF Beyond
  <1>3. CASE walk.cursor # Start /\ list.form.cursor = "key"
    <2>1. Ahead(walk.cursor, Key(i))
      BY <1>3 DEF Beyond, Position
    <2> QED  BY <1>1, <1>3, <2>1 DEF Beyond, Position, Ahead
  <1>4. CASE walk.cursor # Start /\ list.form.cursor # "key"
    <2>0. PICK h \in Ids : h = walk.cursor.id
      BY <1>4 DEF Typing, WalkOK, Cursors
    <2>1. list.form = RowCursor
      BY <1>4 DEF Typing, WalkOK, Cursors, ListOK, Keyset, OldestFirst, OldestRenewed
    <2>2. list.form.newest /\ list.form.cursor = "row"
      BY <2>1 DEF RowCursor
    <2>3. Ahead(Key(h), Key(i))
      BY <1>4, <2>0 DEF Beyond, Position
    <2>4. /\ Key(h) = [id |-> h, at |-> rows[h].at] /\ rows[h].at \in Nat
          /\ Key(i) = [id |-> i, at |-> rows[i].at] /\ rows[i].at \in Nat
          /\ row.at \in Nat /\ h \in Nat /\ i \in Nat
      BY <2>1, PagingAssumption DEF Key, Typing, RowsOK, Row
    <2>5. Key(h)' = Key(h) \/ (h = c /\ row.at >= rows[h].at)
      BY <2>1, <2>2, OtherRowsStay DEF Harmless
    <2>6. Ahead(Key(h), Key(i))'
      <3>1. CASE Key(h)' = Key(h)
        BY <1>1, <2>3, <3>1 DEF Ahead
      <3>2. CASE h = c /\ row.at >= rows[h].at
        <4>1. Less(Key(i), Key(h))
          BY <2>2, <2>3 DEF Ahead
        <4>2. Less(Key(i), [id |-> c, at |-> row.at])
          BY <2>4, <3>2, <4>1 DEF Less
        <4>3. Key(h)' = [id |-> c, at |-> row.at]
          BY <1>1, <3>2
        <4>4. Less(Key(i), Key(h))' = Less(Key(i), [id |-> c, at |-> row.at])
          BY <1>1, <4>3 DEF Less
        <4> QED  BY <1>1, <2>2, <4>2, <4>4 DEF Ahead
      <3> QED  BY <2>5, <3>1, <3>2
    <2> QED  BY <1>1, <1>4, <2>0, <2>6 DEF Beyond, Position
  <1> QED  BY <1>2, <1>3, <1>4

\* A file that comes is not one of those that were given, and moves none of them.
LEMMA FilesStay ==
  ASSUME Typing, NEW c \in Ids, NEW row \in Row, Changed(c, row), Harmless(c, row),
         list.of = "files"
  PROVE  /\ Window' \in SUBSET Ids /\ Window \in SUBSET Ids
         /\ Listed \subseteq Listed' /\ c \notin Listed
         /\ \A i \in Ids \ {c} : i \in Window' <=> i \in Window
         /\ c \notin Window
         /\ \A i \in Ids \ {c} : Before(Window, i) \subseteq Before(Window, i)'
  <1>1. /\ list' = list /\ hidden' = hidden /\ walk' = walk /\ rows'[c] = row
        /\ \A i \in Ids \ {c} : Key(i)' = Key(i) /\ (i \in Listed' <=> i \in Listed)
    BY OtherRowsStay
  <1>2. c \notin Listed /\ row.in /\ list.form.cursor = "key"
    BY DEF Harmless, Typing, ListOK, Filtered, Keyset
  <1>3. Listed \in SUBSET Ids /\ Listed' \in SUBSET Ids /\ Listed \subseteq Listed'
    BY <1>1, <1>2 DEF Listed
  <1>4. /\ Window = {i \in Listed \ hidden : walk.cursor = Start \/ Ahead(walk.cursor, Key(i))}
        /\ Window' = {i \in Listed' \ hidden :
                      walk.cursor = Start \/ Ahead(walk.cursor, Key(i))'}
    BY <1>1, <1>2 DEF Window, Rest, After
  <1>5. \A i \in Ids \ {c} : Ahead(walk.cursor, Key(i))' <=> Ahead(walk.cursor, Key(i))
    BY <1>1 DEF Ahead
  <1>6. \A i, j \in Ids \ {c} : Ahead(Key(j), Key(i))' <=> Ahead(Key(j), Key(i))
    BY <1>1 DEF Ahead
  <1>7. \A i \in Ids \ {c} : i \in Window' <=> i \in Window
    BY <1>1, <1>4, <1>5
  <1>8. c \notin Window /\ Window \in SUBSET Ids /\ Window' \in SUBSET Ids
    BY <1>2, <1>3, <1>4
  <1> QED  BY <1>2, <1>3, <1>6, <1>7, <1>8 DEF Before

LEMMA ChangeStep ==
  ASSUME IInv, NEW c \in Ids, NEW row \in Row, Changed(c, row), Harmless(c, row)
  PROVE  IInv'
  <1>0. Typing /\ StayersAhead /\ GivenBehind /\ StayersAreGiven /\ OnceUnlessLost /\ Reading
    BY DEF IInv, Changed
  <1>1. /\ Typing'
        /\ list' = list /\ hidden' = hidden /\ walk' = walk
        /\ seen'.steady = seen.steady \ {c} /\ seen'.given = seen.given
        /\ seen'.twice = seen.twice /\ seen'.lost = seen.lost
        /\ \A i \in Ids \ {c} : Key(i)' = Key(i) /\ (i \in Listed' <=> i \in Listed)
    BY <1>0, OtherRowsStay
  <1>2. seen.steady \in SUBSET Ids /\ seen.given \in SUBSET Ids
    BY <1>0 DEF Typing, SeenOK
  <1>3. StayersAhead'
    <2>1. seen'.steady \subseteq (Listed \ hidden)'
      BY <1>0, <1>1, <1>2 DEF StayersAhead
    <2>2. ASSUME NEW i \in seen'.steady \ seen'.given
          PROVE  Beyond(i)' /\ (list'.of = "files" =>
                                  (Cardinality(Before(Window, i)) >= walk.skip)')
      <3>1. /\ i \in Ids \ {c} /\ Beyond(i)
            /\ list.of = "files" => Cardinality(Before(Window, i)) >= walk.skip
        BY <1>0, <1>1, <1>2 DEF StayersAhead
      <3>2. Beyond(i)'
        BY <1>0, <3>1, StillBeyond
      <3>3. ASSUME list.of = "files"
            PROVE  (Cardinality(Before(Window, i)) >= walk.skip)'
        <4>1. /\ Before(Window, i)' \in SUBSET Ids
              /\ Before(Window, i) \in SUBSET (Before(Window, i)')
          BY <1>0, <3>1, <3>3, FilesStay DEF Before
        <4>2. /\ Cardinality(Before(Window, i)) \in Nat
              /\ Cardinality(Before(Window, i)') \in Nat
              /\ Cardinality(Before(Window, i)) <= Cardinality(Before(Window, i)')
          BY <4>1, FiniteRows
        <4>3. walk.skip \in Nat
          BY <1>0 DEF Typing, WalkOK
        <4> QED  BY <1>1, <3>1, <3>3, <4>2, <4>3
      <3> QED  BY <1>1, <3>2, <3>3
    <2> QED  BY <2>1, <2>2 DEF StayersAhead
  <1>4. GivenBehind'
    <2>1. CASE seen.lost
      BY <1>1, <2>1 DEF GivenBehind
    <2>2. CASE ~seen.lost /\ list.of = "files"
      <3>1. seen.given \subseteq Listed /\ Cardinality(seen.given \intersect Window) <= walk.skip
        BY <1>0, <2>2 DEF GivenBehind
      <3>2. /\ seen.given \subseteq Listed' /\ c \notin seen.given
            /\ seen.given \intersect Window' = seen.given \intersect Window
        BY <1>0, <1>2, <2>2, <3>1, FilesStay
      <3> QED  BY <1>1, <2>2, <3>1, <3>2 DEF GivenBehind
    <2>3. CASE ~seen.lost /\ list.of # "files"
      <3>1. ASSUME NEW i \in seen'.steady \intersect seen'.given
            PROVE  (walk.cursor # Start /\ ~Ahead(walk.cursor, Key(i)))'
        <4>1. i \in Ids \ {c} /\ walk.cursor # Start /\ ~Ahead(walk.cursor, Key(i))
          BY <1>0, <1>1, <1>2, <2>3 DEF GivenBehind
        <4> QED  BY <1>1, <4>1 DEF Ahead
      <3> QED  BY <1>1, <2>3, <3>1 DEF GivenBehind
    <2> QED  BY <2>1, <2>2, <2>3
  <1>5. StayersAreGiven' /\ OnceUnlessLost'
    BY <1>0, <1>1 DEF StayersAreGiven, OnceUnlessLost, Reading
  <1> QED  BY <1>1, <1>3, <1>4, <1>5 DEF IInv

LEMMA RowsChange ==
  ASSUME IInv, NEW i \in Ids, Enter(i) \/ Leave(i) \/ Move(i)
  PROVE  IInv'
  <1>1. /\ rows \in [Ids -> Row] /\ \A j \in Ids : rows[j] \in Row /\ rows[j].at \in Nat
        /\ \A at \in Stamps : at \in Nat
    BY PagingAssumption DEF IInv, Typing, RowsOK, Row
  <1>2. ListOK
    BY DEF IInv, Typing
  <1>3. CASE Enter(i)
    <2>1. PICK at \in Stamps : Comes(i, at) /\ Changed(i, [in |-> TRUE, at |-> at])
      BY <1>3 DEF Enter
    <2>2. list.form.cursor = "row" => at >= rows[i].at
      BY <1>1, <1>2, <2>1 DEF Comes, Newest, ListOK, Filtered, Keyset
    <2>3. Harmless(i, [in |-> TRUE, at |-> at]) /\ [in |-> TRUE, at |-> at] \in Row
      BY <1>3, <2>2 DEF Harmless, Enter, Row
    <2> QED  BY <2>1, <2>3, ChangeStep
  <1>4. CASE Leave(i)
    <2> DEFINE row == [rows[i] EXCEPT !.in = FALSE]
    <2>1. Changed(i, row) /\ list.of # "files"
      BY <1>4 DEF Leave
    <2>2. row \in Row /\ row.at = rows[i].at
      BY <1>1 DEF Row
    <2>3. Harmless(i, row)
      BY <1>1, <2>1, <2>2 DEF Harmless
    <2> QED  BY <2>1, <2>2, <2>3, ChangeStep
  <1>5. CASE Move(i)
    <2>1. PICK at \in Stamps : /\ list.of = "search" \/ Newest(at)
                               /\ Changed(i, [rows[i] EXCEPT !.at = at])
      BY <1>5 DEF Move
    <2> DEFINE row == [rows[i] EXCEPT !.at = at]
    <2>2. row \in Row /\ row.at = at
      BY <1>1 DEF Row
    <2>3. list.of # "files"
      <3>1. list.of \in {"conversations", "search"} \/ list.form.again
        BY <1>5 DEF Move
      <3> QED  BY <1>2, <3>1 DEF ListOK, Filtered, Keyset
    <2>4. list.form.cursor = "row" => at >= rows[i].at
      BY <1>1, <1>2, <2>1 DEF Newest, ListOK, Filtered, Keyset
    <2>5. Harmless(i, row)
      BY <2>2, <2>3, <2>4 DEF Harmless
    <2> QED  BY <2>1, <2>2, <2>5, ChangeStep
  <1> QED  BY <1>3, <1>4, <1>5
-----------------------------------------------------------------------------
(* A read.                                                                  *)

\* What a read leaves: the rows after the last one of its page, and no others.
LEMMA PageOfRest ==
  ASSUME Typing, NEW n \in Nat \ {0}, NEW rest, rest = Rest(walk.cursor),
         NEW page, page = First(rest, n), NEW next, next = CursorAfter(page, rest)
  PROVE  /\ rest \in SUBSET Listed /\ rest \in SUBSET Ids /\ page \in SUBSET rest
         /\ next \in Cursors
         /\ next = Start => page = rest
         /\ next # Start => /\ \E l \in page : next = Key(l)
                            /\ Rest(next) = rest \ page
                            /\ \A i \in rest \ page : Ahead(next, Key(i))
                            /\ \A i \in page : ~Ahead(next, Key(i))
  <1>1. RowsOK /\ walk.cursor \in Cursors
    BY DEF Typing, WalkOK
  <1>2. Listed \in SUBSET Ids /\ rest \in SUBSET Listed /\ rest \in SUBSET Ids
    BY DEF Listed, Rest, After
  <1>3. page \in SUBSET rest /\ \A i \in rest \ page : page \subseteq Before(rest, i)
    BY <1>1, <1>2, FirstIsAhead
  <1>4. CASE page = rest
    <2>1. next = Start
      BY <1>4 DEF CursorAfter
    <2> QED  BY <1>2, <1>3, <1>4, <2>1 DEF Cursors
  <1>5. CASE page # rest
    <2>1. page # {}
      BY <1>1, <1>2, <1>5, FirstSize, FS_EmptySet
    <2>2. page \in SUBSET Ids
      BY <1>2, <1>3
    <2>3. PICK l \in page : l = Last(page) /\ \A j \in page : j = l \/ Ahead(Key(j), Key(l))
      BY <1>1, <2>1, <2>2, LastOne
    <2>4. next = Key(l) /\ l \in Ids /\ l \in Listed
      BY <1>2, <1>3, <1>5, <2>3 DEF CursorAfter
    <2>5. \A i \in Ids : Key(i) \in Positions /\ Key(i) # Start /\ Key(i).id = i
      BY <1>1, Keys
    <2>6. next \in Cursors /\ next # Start
      <3>1. rows[l].at \in Nat
        BY <1>1, <2>4, PagingAssumption DEF RowsOK
      <3> QED  BY <2>4, <2>5, <3>1 DEF Cursors, Key
    <2>7. \A i \in rest \ page : Ahead(Key(l), Key(i))
      BY <1>3 DEF Before
    <2>8. \A i \in page : ~Ahead(Key(l), Key(i))
      BY <2>2, <2>3, <2>5, Order
    <2>9. \A i \in Listed : Ahead(Key(l), Key(i)) => i \in rest
      <3> SUFFICES ASSUME NEW i \in Listed, Ahead(Key(l), Key(i)) PROVE i \in rest
        OBVIOUS
      <3>1. CASE rest = Listed
        BY <3>1
      <3>2. CASE \E k \in Positions : rest = After(k)
        <4>1. PICK k \in Positions : rest = After(k)
          BY <3>2
        <4>2. Ahead(k, Key(l)) /\ i \in Ids
          BY <1>2, <1>3, <2>3, <4>1 DEF After
        <4>3. Ahead(k, Key(i))
          BY <2>4, <2>5, <4>2, Order
        <4> QED  BY <4>1, <4>3 DEF After
      <3>3. rest = Listed \/ \E k \in Positions : rest = After(k)
        <4>1. walk.cursor # Start => walk.cursor \in Positions
          BY <1>1, PagingAssumption DEF Cursors, Positions
        <4> QED  BY <1>2, <2>5, <4>1 DEF Rest
      <3> QED  BY <3>1, <3>2, <3>3
    <2>10. After(Key(l)) = rest \ page
      BY <1>2, <2>7, <2>8, <2>9 DEF After
    <2>11. Rest(next) = rest \ page
      BY <2>4, <2>5, <2>6, <2>10 DEF Rest
    <2> QED  BY <1>2, <1>3, <2>3, <2>4, <2>6, <2>7, <2>8, <2>11
  <1> QED  BY <1>4, <1>5

LEMMA GivesThese ==
  ASSUME Typing, Reading, NEW page \in SUBSET Ids, NEW cursor \in Cursors, NEW skip \in Nat,
         NEW got \in Nat, got < PageSize, NEW scans \in Nat, NEW lost \in BOOLEAN,
         list.of # "files" => skip = 0, Gives(page, cursor, skip, got, scans, lost)
  PROVE  /\ Typing'
         /\ list' = list /\ rows' = rows /\ hidden' = hidden
         /\ walk'.phase = (IF cursor = Start /\ skip = 0 THEN "over" ELSE "reading")
         /\ walk'.cursor = cursor /\ walk'.skip = skip
         /\ seen'.steady = seen.steady /\ seen'.given = seen.given \union page
         /\ seen'.twice = seen.twice \union (seen.given \intersect page)
         /\ seen'.lost = (seen.lost \/ lost)
  <1>1. /\ walk' = [phase |-> IF cursor = Start /\ skip = 0 THEN "over" ELSE "reading",
                    cursor |-> cursor, skip |-> skip, got |-> got, scans |-> scans]
        /\ list' = list /\ rows' = rows /\ hidden' = hidden
    BY DEF Gives
  <1>2. WalkOK' /\ ListOK' /\ RowsOK' /\ (hidden \in SUBSET Ids /\ (hidden = {} \/ Filtered))'
    BY <1>1 DEF Typing, WalkOK, ListOK, RowsOK, Filtered
  <1>3. /\ seen'.steady = seen.steady /\ seen'.given = seen.given \union page
        /\ seen'.twice = seen.twice \union (seen.given \intersect page)
        /\ seen'.lost = (seen.lost \/ lost)
        /\ seen' \in [steady : SUBSET Ids, given : SUBSET Ids, twice : SUBSET Ids, lost : BOOLEAN]
    <2>1. seen' = [seen EXCEPT !.given = @ \union page,
                              !.twice = @ \union (seen.given \intersect page),
                              !.lost = @ \/ lost]
      BY DEF Gives
    <2> QED  BY <2>1 DEF Typing, SeenOK
  <1>4. SeenOK'
    BY <1>1, <1>3 DEF SeenOK
  <1> QED  BY <1>1, <1>2, <1>3, <1>4 DEF Typing

\* A read changes neither the list nor the order.
LEMMA ListStays ==
  ASSUME list' = list, rows' = rows, hidden' = hidden
  PROVE  /\ Listed' = Listed
         /\ \A i : Key(i)' = Key(i)
         /\ \A k, l : Ahead(k, l)' <=> Ahead(k, l)
         /\ \A S, i : Before(S, i)' = Before(S, i)
         /\ \A k : Rest(k)' = Rest(k)
  <1>1. Listed' = Listed
    BY DEF Listed
  <1>2. \A i : Key(i)' = Key(i)
    BY DEF Key
  <1>3. \A k, l : Ahead(k, l)' <=> Ahead(k, l)
    BY DEF Ahead
  <1>4. \A S, i : Before(S, i)' = Before(S, i)
    BY <1>2, <1>3 DEF Before, Ahead
  <1>5. \A k : After(k)' = After(k)
    BY <1>1, <1>2, <1>3 DEF After, Ahead
  <1>6. \A i : (After(Key(i)))' = After(Key(i))
    BY <1>1, <1>2 DEF After, Ahead
  <1> QED  BY <1>1, <1>2, <1>3, <1>4, <1>5, <1>6 DEF Rest
LEMMA AfterRead ==
  ASSUME list' = list, rows' = rows, NEW i \in Ids, Typing,
         walk'.cursor = Start \/ (\E l \in Ids : walk'.cursor = Key(l)),
         walk'.cursor # Start => Ahead(walk'.cursor, Key(i))
  PROVE  Beyond(i)'
  <1>1. \A j : Key(j)' = Key(j)
    BY DEF Key
  <1>2. CASE walk'.cursor = Start
    BY <1>2 DEF Beyond
  <1>3. CASE walk'.cursor # Start
    <2>1. PICK l \in Ids : walk'.cursor = Key(l)
      BY <1>3
    <2>2. Key(l).id = l
      BY DEF Key
    <2>3. Position' = walk'.cursor
      BY <1>1, <2>1, <2>2 DEF Position, Key
    <2>4. Ahead(walk.cursor, Key(i))'
      BY <1>1, <1>3 DEF Ahead
    <2> QED  BY <2>3, <2>4 DEF Beyond, Ahead
  <1> QED  BY <1>2, <1>3

\* A row that stayed is in what is left of the list.
LEMMA StayersRemain ==
  ASSUME Typing, StayersAhead, Reading, NEW i \in seen.steady \ seen.given
  PROVE  i \in Rest(walk.cursor) \ hidden /\ i \in Ids
  <1>1. i \in Listed \ hidden /\ Beyond(i) /\ i \in Ids
    BY DEF StayersAhead, Listed
  <1> QED  BY <1>1 DEF Beyond, Position, Rest, After

\* A page of a list that is not the list of files.
LEMMA PlainRead ==
  ASSUME IInv, Reading, list.of # "files", NEW n \in Nat \ {0},
         NEW rest, rest = Rest(walk.cursor), NEW page, page = First(rest, n),
         NEW got \in Nat, got < PageSize, NEW scans \in Nat, NEW lost \in BOOLEAN,
         CursorLost => lost,
         Gives(page \ hidden, CursorAfter(page, rest), 0, got, scans, lost)
  PROVE  IInv'
  <1>0. Typing /\ StayersAhead /\ GivenBehind /\ StayersAreGiven /\ OnceUnlessLost
    BY DEF IInv
  <1> DEFINE next == CursorAfter(page, rest)
  <1>1. PICK to : to = next
    OBVIOUS
  <1>2. /\ rest \in SUBSET Listed /\ rest \in SUBSET Ids /\ page \in SUBSET rest
        /\ to \in Cursors
        /\ to = Start => page = rest
        /\ to # Start => /\ \E l \in page : to = Key(l)
                         /\ Rest(to) = rest \ page
                         /\ \A i \in rest \ page : Ahead(to, Key(i))
                         /\ \A i \in page : ~Ahead(to, Key(i))
    BY <1>0, <1>1, PageOfRest
  <1>3. Gives(page \ hidden, to, 0, got, scans, lost)
    BY <1>1
  <1>4. /\ Typing'
        /\ list' = list /\ rows' = rows /\ hidden' = hidden
        /\ walk'.phase = (IF to = Start THEN "over" ELSE "reading")
        /\ walk'.cursor = to /\ walk'.skip = 0
        /\ seen'.steady = seen.steady /\ seen'.given = seen.given \union (page \ hidden)
        /\ seen'.twice = seen.twice \union (seen.given \intersect (page \ hidden))
        /\ seen'.lost = (seen.lost \/ lost)
    <2>1. page \ hidden \in SUBSET Ids
      BY <1>2
    <2> HIDE DEF next
    <2>2. PICK g : g = page \ hidden
      OBVIOUS
    <2>3. PICK skip \in Nat : skip = 0
      OBVIOUS
    <2>4. Gives(g, to, skip, got, scans, lost) /\ g \in SUBSET Ids
      BY <1>3, <2>1, <2>2, <2>3
    <2>5. /\ Typing'
          /\ list' = list /\ rows' = rows /\ hidden' = hidden
          /\ walk'.phase = (IF to = Start /\ skip = 0 THEN "over" ELSE "reading")
          /\ walk'.cursor = to /\ walk'.skip = skip
          /\ seen'.steady = seen.steady /\ seen'.given = seen.given \union g
          /\ seen'.twice = seen.twice \union (seen.given \intersect g)
          /\ seen'.lost = (seen.lost \/ lost)
      BY <1>0, <1>2, <2>3, <2>4, GivesThese
    <2> QED  BY <2>2, <2>3, <2>5
  <1> HIDE DEF next
  <1>5. /\ Listed' = Listed /\ \A i : Key(i)' = Key(i)
        /\ \A k, l : Ahead(k, l)' <=> Ahead(k, l)
    BY <1>4, ListStays
  <1>6. \A i \in seen.steady \ seen.given : i \in rest \ hidden /\ i \in Ids
    BY <1>0, StayersRemain
  <1>7. seen.steady \subseteq Listed \ hidden
    BY <1>0 DEF StayersAhead
  <1>8. StayersAhead'
    <2>1. ASSUME NEW i \in seen'.steady \ seen'.given
          PROVE  Beyond(i)'
      <3>1. i \in rest \ page /\ i \in Ids
        BY <1>4, <1>6
      <3>2. to = Start \/ \E l \in Ids : to = Key(l)
        BY <1>2
      <3>3. to # Start => Ahead(to, Key(i))
        BY <1>2, <3>1
      <3> QED  BY <1>0, <1>4, <3>1, <3>2, <3>3, AfterRead
    <2> QED  BY <1>4, <1>5, <1>7, <2>1 DEF StayersAhead
  <1>9. StayersAreGiven'
    <2>1. CASE to = Start
      BY <1>2, <1>4, <1>6, <2>1 DEF StayersAreGiven
    <2>2. CASE to # Start
      BY <1>4, <2>2 DEF StayersAreGiven
    <2> QED  BY <2>1, <2>2
  \* Where no row cursor was lost, this page starts after what was given before.
  <1>10. ASSUME ~seen'.lost
         PROVE  /\ \A i \in seen.steady \intersect seen.given :
                     /\ walk.cursor # Start /\ ~Ahead(walk.cursor, Key(i)) /\ i \notin rest
                /\ walk.cursor # Start => rest = After(walk.cursor)
    <2>1. ~seen.lost /\ ~CursorLost
      BY <1>4, <1>10
    <2>2. \A i \in seen.steady \intersect seen.given :
            walk.cursor # Start /\ ~Ahead(walk.cursor, Key(i))
      BY <1>0, <2>1 DEF GivenBehind
    <2>3. walk.cursor # Start => rest = After(walk.cursor)
      BY <1>0, <2>1 DEF CursorLost, Rest, Typing, ListOK, Keyset, OldestFirst, RowCursor,
                        OldestRenewed
    <2> QED  BY <2>2, <2>3 DEF After
  <1>11. OnceUnlessLost'
    <2>1. CASE seen'.lost
      BY <2>1 DEF OnceUnlessLost
    <2>2. CASE ~seen'.lost
      <3>1. seen.twice \intersect seen.steady = {}
        BY <1>0, <1>4, <2>2 DEF OnceUnlessLost
      <3>2. seen.given \intersect seen.steady \intersect page = {}
        BY <1>2, <1>10, <2>2
      <3> QED  BY <1>4, <3>1, <3>2 DEF OnceUnlessLost
    <2> QED  BY <2>1, <2>2
  <1>12. GivenBehind'
    <2>1. ASSUME ~seen'.lost, to # Start, NEW i \in seen'.steady \intersect seen'.given
          PROVE  ~Ahead(to, Key(i))
      <3>1. CASE i \in page
        BY <1>2, <2>1, <3>1
      <3>2. CASE i \notin page
        <4>1. /\ walk.cursor # Start /\ ~Ahead(walk.cursor, Key(i))
              /\ rest = After(walk.cursor)
          BY <1>4, <1>10, <2>1, <3>2
        <4>2. PICK l \in page : to = Key(l)
          BY <1>2, <2>1
        <4>3. Ahead(walk.cursor, Key(l)) /\ l \in Ids
          BY <1>2, <4>1, <4>2 DEF After
        <4>4. i \in Ids
          BY <1>4, <1>7 DEF Listed
        <4>5. /\ walk.cursor \in Positions /\ Key(l) \in Positions /\ Key(i) \in Positions
          BY <1>0, <4>1, <4>3, <4>4, Keys, PagingAssumption
             DEF Typing, WalkOK, Cursors, Positions
        <4> QED  BY <4>1, <4>2, <4>3, <4>5, Order
      <3> QED  BY <3>1, <3>2
    <2>2. CASE to = Start
      BY <1>4, <2>2 DEF GivenBehind, Reading
    <2>3. CASE to # Start
      <3>1. ASSUME ~seen'.lost, NEW i \in seen'.steady \intersect seen'.given
            PROVE  (walk.cursor # Start /\ ~Ahead(walk.cursor, Key(i)))'
        BY <1>4, <1>5, <2>1, <2>3, <3>1 DEF Ahead
      <3> QED  BY <1>4, <3>1 DEF GivenBehind
    <2> QED  BY <2>2, <2>3
  <1> QED  BY <1>4, <1>8, <1>9, <1>11, <1>12 DEF IInv

LEMMA ReadPageStep == IInv /\ ReadPage => IInv'
  <1> SUFFICES ASSUME IInv, ReadPage PROVE IInv'
    OBVIOUS
  <1>1. PICK rest, page : /\ rest = Rest(walk.cursor) /\ page = First(rest, PageSize)
                          /\ Gives(page, CursorAfter(page, rest), 0, 0, 0, CursorLost)
    BY DEF ReadPage
  <1>2. PICK lost \in BOOLEAN : lost <=> CursorLost
    OBVIOUS
  <1>3. Reading /\ list.of # "files" /\ page \ hidden = page
    BY DEF ReadPage, Filtered, IInv, Typing
  <1>4. lost = CursorLost
    BY <1>2 DEF CursorLost
  <1>5. Gives(page \ hidden, CursorAfter(page, rest), 0, 0, 0, lost)
    BY <1>1, <1>3, <1>4
  <1> QED  BY <1>1, <1>2, <1>3, <1>5, PagingAssumption, PlainRead

LEMMA ReadSearchStep == IInv /\ ReadSearch => IInv'
  <1> SUFFICES ASSUME IInv, ReadSearch PROVE IInv'
    OBVIOUS
  <1> DEFINE gotten(page) == walk.got + Cardinality(page \ hidden)
  <1>1. PICK rest, page :
          /\ rest = Rest(walk.cursor) /\ page = First(rest, PageSize - walk.got)
          /\ Gives(page \ hidden, CursorAfter(page, rest), 0,
                   IF gotten(page) < PageSize THEN gotten(page) ELSE 0, 0, FALSE)
    BY DEF ReadSearch
  <1>2. Reading /\ list.of # "files" /\ ~CursorLost
    BY DEF ReadSearch, IInv, Typing, ListOK, Filtered, CursorLost, Keyset
  <1>3. walk.got \in Nat /\ walk.got < PageSize /\ PageSize \in Nat
    BY PagingAssumption DEF IInv, Typing, WalkOK
  <1>4. PageSize - walk.got \in Nat \ {0}
    BY <1>3
  <1>5. Cardinality(page \ hidden) \in Nat
    <2>1. page \in SUBSET Ids
      BY <1>1 DEF First, Rest, After, Listed
    <2> QED  BY <2>1, FiniteRows
  <1>6. PICK got \in Nat : /\ got < PageSize
                           /\ got = IF gotten(page) < PageSize THEN gotten(page) ELSE 0
    BY <1>3, <1>5
  <1>7. Gives(page \ hidden, CursorAfter(page, rest), 0, got, 0, FALSE)
    BY <1>1, <1>6
  <1> QED  BY <1>1, <1>2, <1>4, <1>6, <1>7, PlainRead
-----------------------------------------------------------------------------
(* A read of Filepack's list.                                               *)

\* What ReadFiles makes of what is left of the list.
Divides(rest, page, matches, skipped, taken, used) ==
  /\ rest = Rest(walk.cursor) /\ page = First(rest, ScanSize)
  /\ matches = page \ hidden /\ skipped = First(matches, walk.skip)
  /\ taken = First(matches \ skipped, PageSize - walk.got)
  /\ used = Cardinality(skipped) + Cardinality(taken)

Full(taken) == walk.got + Cardinality(taken) = PageSize
Lost(skipped) == ~(skipped \subseteq seen.given) \/ Cardinality(skipped) < walk.skip

\* And what that comes to: the files that are skipped and taken come before each one
\* that stayed and is left; such a one is in the read only if more matches are left
\* than the page takes.
Division(rest, page, matches, skipped, taken, used) ==
  /\ rest \in SUBSET Ids /\ page \in SUBSET rest /\ rest \in SUBSET Listed
  /\ skipped \in SUBSET matches /\ taken \in SUBSET (matches \ skipped)
  /\ Cardinality(skipped) \in Nat /\ Cardinality(skipped) <= walk.skip
  /\ Cardinality(taken) \in Nat
  /\ used \in Nat /\ Cardinality(skipped \union taken) = used
  /\ walk.got + Cardinality(taken) <= PageSize
  /\ \A i \in seen.steady \ (seen.given \union taken) :
       /\ skipped \union taken \subseteq Before(rest \ hidden, i)
       /\ i \in rest \ hidden
       /\ i \in page => /\ walk.got + Cardinality(taken) = PageSize
                        /\ used < Cardinality(matches)

LEMMA FilesOfRead ==
  ASSUME NEW rest, NEW page, NEW matches, NEW skipped, NEW taken, NEW used,
         Typing /\ StayersAhead /\ Reading /\ list.of = "files",
         Divides(rest, page, matches, skipped, taken, used)
  PROVE  Division(rest, page, matches, skipped, taken, used)
  <1>0. /\ rest = Rest(walk.cursor) /\ page = First(rest, ScanSize)
        /\ matches = page \ hidden /\ skipped = First(matches, walk.skip)
        /\ taken = First(matches \ skipped, PageSize - walk.got)
        /\ used = Cardinality(skipped) + Cardinality(taken)
    BY DEF Divides
  <1> USE <1>0
  <1>1. /\ RowsOK /\ walk.skip \in Nat /\ walk.got \in Nat /\ walk.got < PageSize
        /\ PageSize \in Nat /\ ScanSize \in Nat /\ PageSize - walk.got \in Nat
    BY PagingAssumption DEF Typing, WalkOK
  <1>2. rest \in SUBSET Ids /\ rest \in SUBSET Listed
    BY DEF Rest, After, Listed
  <1>3. page \in SUBSET rest /\ \A i \in rest \ page : page \subseteq Before(rest, i)
    BY <1>1, <1>2, FirstIsAhead
  <1>4. matches \in SUBSET Ids
    BY <1>2, <1>3
  <1>5. /\ skipped \in SUBSET matches
        /\ \A i \in matches \ skipped : skipped \subseteq Before(matches, i)
        /\ Cardinality(skipped) \in Nat /\ Cardinality(skipped) <= walk.skip
    <2>1. PICK k \in Nat : k = walk.skip
      BY <1>1
    <2>2. skipped = First(matches, k)
      BY <2>1
    <2>3. Cardinality(skipped) \in 0..k
      BY <1>1, <1>4, <2>2, FirstSize
    <2>4. Cardinality(skipped) \in Nat /\ Cardinality(skipped) <= k
      BY <2>3
    <2>5. /\ skipped \in SUBSET matches
          /\ \A i \in matches \ skipped : skipped \subseteq Before(matches, i)
      BY <1>1, <1>4, <2>2, FirstIsAhead
    <2> QED  BY <2>1, <2>4, <2>5
  <1>6. PICK fresh : fresh = matches \ skipped
    OBVIOUS
  <1>7. PICK room \in Nat : room = PageSize - walk.got
    BY <1>1
  <1>8. taken = First(fresh, room) /\ fresh \in SUBSET Ids
    BY <1>4, <1>6, <1>7
  <1>9. /\ taken \in SUBSET fresh
        /\ \A i \in fresh \ taken : taken \subseteq Before(fresh, i)
        /\ Cardinality(taken) \in 0..room /\ (Cardinality(taken) < room => taken = fresh)
    BY <1>1, <1>8, FirstIsAhead, FirstSize
  <1>10. /\ Cardinality(taken) \in Nat /\ Cardinality(skipped) \in Nat
         /\ walk.got + Cardinality(taken) <= PageSize /\ used \in Nat
    <2>1. Cardinality(taken) \in 0..room
      BY <1>9
    <2>2. Cardinality(taken) \in Nat /\ Cardinality(taken) <= room
      BY <2>1
    <2> QED  BY <1>1, <1>5, <1>7, <2>2
  <1>11. Cardinality(skipped \union taken) = used
    <2>1. IsFiniteSet(skipped) /\ IsFiniteSet(taken)
      BY <1>4, <1>5, <1>8, <1>9, FiniteRows
    <2>2. skipped \intersect taken = {}
      BY <1>6, <1>9
    <2> QED  BY <1>10, <2>1, <2>2, TwoSets
  <1>12. ASSUME NEW i \in seen.steady \ (seen.given \union taken)
         PROVE  /\ skipped \union taken \subseteq Before(rest \ hidden, i)
                /\ i \in rest \ hidden
                /\ i \in page => /\ walk.got + Cardinality(taken) = PageSize
                                 /\ used < Cardinality(matches)
    <2>1. i \in rest \ hidden /\ i \in Ids
      BY StayersRemain
    <2>2. CASE i \notin page
      <3>1. page \subseteq Before(rest, i)
        BY <1>3, <2>1, <2>2
      <3>2. matches \subseteq Before(rest \ hidden, i)
        BY <3>1 DEF Before
      <3>3. skipped \union taken \subseteq matches
        BY <1>5, <1>6, <1>9
      <3> QED  BY <2>1, <2>2, <3>2, <3>3
    <2>3. CASE i \in page
      <3>1. i \in matches
        BY <2>1, <2>3
      <3>2. Before(rest \ hidden, i) = Before(matches, i)
        <4>1. ASSUME NEW j \in Before(rest \ hidden, i)
              PROVE  j \in page
          <5>1. j \in rest /\ j \in Before(rest, i) /\ i \in rest
            BY <1>3, <2>3, <4>1 DEF Before
          <5>2. j \in rest \ page => i \in Before(rest, j)
            BY <1>3, <2>3
          <5>3. ~(i \in Before(rest, j))
            BY <1>1, <1>2, <5>1, RowsAreOrdered
          <5> QED  BY <5>1, <5>2, <5>3
        <4> QED  BY <1>3, <4>1 DEF Before
      <3>3. i \notin skipped
        <4>1. i \in skipped => Cardinality(Before(matches, i)) < walk.skip
          BY DEF First, Before
        <4>2. Cardinality(Before(rest \ hidden, i)) >= walk.skip
          BY DEF StayersAhead, Window
        <4>3. Cardinality(Before(matches, i)) \in Nat
          BY <1>4, FiniteRows DEF Before
        <4> QED  BY <1>1, <3>2, <4>1, <4>2, <4>3
      <3>4. i \in fresh \ taken
        BY <1>6, <3>1, <3>3
      <3>5. skipped \subseteq Before(matches, i) /\ taken \subseteq Before(matches, i)
        <4>1. skipped \subseteq Before(matches, i)
          BY <1>5, <3>1, <3>3
        <4>2. taken \subseteq Before(fresh, i)
          BY <1>9, <3>4
        <4> QED  BY <1>6, <4>1, <4>2 DEF Before
      <3>6. walk.got + Cardinality(taken) = PageSize
        BY <1>1, <1>7, <1>9, <3>4
      <3>7. used < Cardinality(matches)
        <4>1. skipped \union taken \in SUBSET matches /\ skipped \union taken # matches
          BY <1>5, <1>6, <1>9, <3>1, <3>3, <3>4, ZenonT(40)
        <4>2. PICK both : both = skipped \union taken
          OBVIOUS
        <4>3. /\ Cardinality(both) \in Nat /\ Cardinality(matches) \in Nat
              /\ Cardinality(both) <= Cardinality(matches)
              /\ Cardinality(both) # Cardinality(matches)
          BY <1>4, <4>1, <4>2, FiniteRows
        <4> QED  BY <1>11, <4>2, <4>3
      <3> QED  BY <2>1, <3>2, <3>5, <3>6, <3>7
    <2> QED  BY <2>2, <2>3
  <1> QED  BY <1>2, <1>3, <1>5, <1>6, <1>9, <1>10, <1>11, <1>12 DEF Division
\* Where the read is not lost, the files it skips are the ones given before.
LEMMA FilesGivenBefore ==
  ASSUME Typing, Reading, GivenBehind, list.of = "files", seen.lost = FALSE,
         NEW rest, rest = Rest(walk.cursor), NEW skipped \in SUBSET (rest \ hidden),
         skipped \subseteq seen.given, Cardinality(skipped) >= walk.skip
  PROVE  seen.given \intersect (rest \ hidden) = skipped
  <1> DEFINE S == seen.given \intersect (rest \ hidden)
  <1>1. Cardinality(S) <= walk.skip /\ walk.skip \in Nat
    BY DEF GivenBehind, Window, Typing, WalkOK
  <1>2. S \in SUBSET Ids /\ skipped \in SUBSET S
    BY DEF Typing, SeenOK
  <1> HIDE DEF S
  <1>3. /\ Cardinality(skipped) \in Nat /\ Cardinality(S) \in Nat
        /\ Cardinality(skipped) <= Cardinality(S)
        /\ Cardinality(skipped) = Cardinality(S) => skipped = S
    BY <1>2, FiniteRows
  <1>4. skipped = S
    BY <1>1, <1>3
  <1> QED  BY <1>4 DEF S

LEMMA ReadFilesStep == IInv /\ ReadFiles => IInv'
  <1> SUFFICES ASSUME IInv, ReadFiles PROVE IInv'
    OBVIOUS
  <1>0. /\ Typing /\ StayersAhead /\ GivenBehind /\ StayersAreGiven /\ OnceUnlessLost
        /\ Reading /\ list.of = "files"
    BY DEF IInv, ReadFiles
  <1>1. PICK rest, page, matches, skipped, taken, used :
          /\ Divides(rest, page, matches, skipped, taken, used)
          /\ IF Full(taken) /\ used < Cardinality(matches)
             THEN Gives(taken, walk.cursor, used, 0, 0, Lost(skipped))
             ELSE Gives(taken, CursorAfter(page, rest), 0,
                    IF Full(taken) \/ walk.scans + 1 = MaxScans THEN 0
                    ELSE walk.got + Cardinality(taken),
                    IF Full(taken) \/ walk.scans + 1 = MaxScans THEN 0 ELSE walk.scans + 1,
                    Lost(skipped))
    BY DEF ReadFiles, Divides, Full, Lost
  <1>2. /\ rest = Rest(walk.cursor) /\ page = First(rest, ScanSize)
        /\ matches = page \ hidden /\ used = Cardinality(skipped) + Cardinality(taken)
    BY <1>1 DEF Divides
  <1>3. PICK lost \in BOOLEAN : lost = Lost(skipped)
    BY DEF Lost
  <1>4. /\ rest \in SUBSET Ids /\ page \in SUBSET rest /\ rest \in SUBSET Listed
        /\ skipped \in SUBSET matches /\ taken \in SUBSET (matches \ skipped)
        /\ Cardinality(skipped) \in Nat /\ Cardinality(skipped) <= walk.skip
        /\ Cardinality(taken) \in Nat
        /\ used \in Nat /\ Cardinality(skipped \union taken) = used
        /\ walk.got + Cardinality(taken) <= PageSize
        /\ \A i \in seen.steady \ (seen.given \union taken) :
             /\ skipped \union taken \subseteq Before(rest \ hidden, i)
             /\ i \in rest \ hidden
             /\ i \in page => /\ walk.got + Cardinality(taken) = PageSize
                              /\ used < Cardinality(matches)
    <2>1. Division(rest, page, matches, skipped, taken, used)
      BY <1>0, <1>1, FilesOfRead
    <2> QED  BY <2>1 DEF Division
  <1>5. /\ used \in Nat /\ used = Cardinality(skipped) + Cardinality(taken)
         /\ Cardinality(skipped) \in Nat /\ Cardinality(skipped) <= walk.skip
         /\ Cardinality(taken) \in Nat /\ walk.got + Cardinality(taken) <= PageSize
    BY <1>4, <1>2
  <1>6. Cardinality(skipped \union taken) = used
    BY <1>4
  <1>7. lost \in BOOLEAN /\ taken \in SUBSET Ids
    BY <1>2, <1>3, <1>4
  <1>8. /\ walk.got \in Nat /\ walk.got < PageSize /\ PageSize \in Nat /\ walk.scans \in Nat
        /\ walk.cursor \in Cursors /\ walk.skip \in Nat /\ RowsOK /\ list.form = Keyset
        /\ seen \in [steady : SUBSET Ids, given : SUBSET Ids, twice : SUBSET Ids, lost : BOOLEAN]
        /\ ScanSize \in Nat \ {0} /\ MaxScans \in Nat
    BY <1>0, PagingAssumption DEF Typing, WalkOK, SeenOK, ListOK, Filtered
  <1>9. seen.steady \subseteq Listed \ hidden /\ Listed \in SUBSET Ids
    BY <1>0 DEF StayersAhead, Listed
  \* What was given before is outside of what this read gives.
  <1>10. ASSUME seen.lost = FALSE, lost = FALSE
        PROVE  /\ seen.given \intersect (rest \ hidden) = skipped
               /\ seen.given \intersect taken = {} /\ seen.given \subseteq Listed
    <2>1. skipped \subseteq seen.given /\ Cardinality(skipped) >= walk.skip
      <3>1. ~Lost(skipped)
        BY <1>3, <1>10
      <3> QED  BY <1>5, <1>8, <3>1 DEF Lost
    <2>2. skipped \in SUBSET (rest \ hidden) /\ taken \subseteq rest \ hidden
      BY <1>2, <1>4
    <2>3. seen.given \intersect (rest \ hidden) = skipped
      BY <1>0, <1>2, <1>10, <2>1, <2>2, FilesGivenBefore
    <2> QED  BY <1>0, <1>4, <1>10, <2>2, <2>3 DEF GivenBehind
  <1>11. ASSUME OnceUnlessLost, seen'.steady = seen.steady,
               seen'.twice = seen.twice \union (seen.given \intersect taken),
               seen'.lost = (seen.lost \/ lost)
        PROVE  OnceUnlessLost'
    <2>1. CASE seen.lost = FALSE /\ lost = FALSE
      BY <1>10, <1>11, <2>1 DEF OnceUnlessLost
    <2>2. CASE ~(seen.lost = FALSE /\ lost = FALSE)
      BY <1>7, <1>8, <1>11, <2>2 DEF OnceUnlessLost
    <2> QED  BY <2>1, <2>2
  \* The page is full and the read has more: the next one starts from the same cursor.
  <1>12. CASE Full(taken) /\ used < Cardinality(matches)
    <2>0. used > 0
      BY <1>5, <1>8, <1>12 DEF Full
    <2>1. Gives(taken, walk.cursor, used, 0, 0, lost)
      BY <1>1, <1>3, <1>12
    <2>2. PICK nil \in Nat : nil = 0
      OBVIOUS
    <2>3. Gives(taken, walk.cursor, used, nil, nil, lost) /\ nil < PageSize
      BY <1>8, <2>1, <2>2
    <2>4. /\ Typing'
          /\ list' = list /\ rows' = rows /\ hidden' = hidden
          /\ walk'.phase = (IF walk.cursor = Start /\ used = 0 THEN "over" ELSE "reading")
          /\ walk'.cursor = walk.cursor /\ walk'.skip = used
          /\ seen'.steady = seen.steady /\ seen'.given = seen.given \union taken
          /\ seen'.twice = seen.twice \union (seen.given \intersect taken)
          /\ seen'.lost = (seen.lost \/ lost)
      <3>1. list.of # "files" => used = 0
        BY <1>0
      <3> QED  BY <1>0, <1>5, <1>7, <1>8, <2>3, <3>1, GivesThese
    <2>5. walk'.phase = "reading"
      BY <2>0, <1>5, <2>4
    <2>6. /\ Listed' = Listed /\ \A i : Key(i)' = Key(i)
          /\ \A k, l : Ahead(k, l)' <=> Ahead(k, l)
          /\ \A S, i : Before(S, i)' = Before(S, i) /\ \A k : Rest(k)' = Rest(k)
      BY <2>4, ListStays
    <2>7. Window = rest \ hidden /\ Window' = rest \ hidden
      BY <1>2, <2>4, <2>6 DEF Window
    <2>8. StayersAhead'
      <3>1. ASSUME NEW i \in seen'.steady \ seen'.given
            PROVE  Beyond(i)' /\ (Cardinality(Before(Window, i)) >= walk.skip)'
        <4>1. i \in seen.steady \ (seen.given \union taken) /\ i \in Ids
          BY <1>9, <2>4
        <4>2. Beyond(i)
          BY <1>0, <4>1 DEF StayersAhead
        <4>3. Beyond(i)'
          BY <1>8, <2>4, <2>6, <4>2 DEF Beyond, Position, Keyset, Ahead
        <4>4. PICK B \in SUBSET Ids : B = Before(rest \ hidden, i)
          BY <1>4 DEF Before
        <4>5. PICK T \in SUBSET B : T = skipped \union taken
          BY <1>4, <4>1, <4>4
        <4>6. Cardinality(T) <= Cardinality(B)
          BY FiniteRows
        <4>7. Before(Window, i)' = B
          BY <2>4, <2>6, <2>7, <4>4 DEF Before, Ahead
        <4>8. Cardinality(B) \in Nat
          BY FiniteRows
        <4> QED  BY <1>4, <2>4, <4>3, <4>5, <4>6, <4>7, <4>8
      <3> QED  BY <1>9, <2>4, <2>6, <3>1 DEF StayersAhead
    <2>9. GivenBehind'
      <3>1. CASE seen.lost = FALSE /\ lost = FALSE
        <4>1. seen'.given \intersect Window' = skipped \union taken
          BY <1>4, <1>2, <1>10, <2>4, <2>7, <3>1
        <4>2. seen'.given \subseteq Listed'
          BY <1>4, <1>2, <1>10, <2>4, <2>6, <3>1
        <4>3. Cardinality(seen'.given \intersect Window') <= walk'.skip
          <5>1. Cardinality(seen'.given \intersect Window') = used
            BY <1>6, <4>1
          <5> QED  BY <1>5, <2>4, <5>1
        <4> QED  BY <1>0, <2>4, <4>2, <4>3 DEF GivenBehind
      <3>2. CASE ~(seen.lost = FALSE /\ lost = FALSE)
        BY <1>7, <1>8, <2>4, <3>2 DEF GivenBehind
      <3> QED  BY <3>1, <3>2
    <2>10. StayersAreGiven' /\ OnceUnlessLost'
      BY <1>0, <1>11, <2>4, <2>5 DEF StayersAreGiven
    <2> QED  BY <2>4, <2>8, <2>9, <2>10 DEF IInv
  \* The read is used up: the next one starts after it.
  <1>13. CASE ~(Full(taken) /\ used < Cardinality(matches))
    <2>1. PICK to, got, scans :
            /\ to = CursorAfter(page, rest)
            /\ got = (IF Full(taken) \/ walk.scans + 1 = MaxScans THEN 0
                      ELSE walk.got + Cardinality(taken))
            /\ scans = (IF Full(taken) \/ walk.scans + 1 = MaxScans THEN 0 ELSE walk.scans + 1)
            /\ Gives(taken, to, 0, got, scans, lost)
      BY <1>1, <1>3, <1>13
    <2>2. got \in Nat /\ got < PageSize /\ scans \in Nat
      <3>1. CASE Full(taken) \/ walk.scans + 1 = MaxScans
        BY <1>8, <2>1, <3>1
      <3>2. CASE ~Full(taken) /\ walk.scans + 1 # MaxScans
        <4>1. got = walk.got + Cardinality(taken) /\ scans = walk.scans + 1
          BY <2>1, <3>2
        <4> QED  BY <1>5, <1>8, <3>2, <4>1 DEF Full
      <3> QED  BY <3>1, <3>2
    <2>3. PICK nil \in Nat : nil = 0
      OBVIOUS
    <2>4. /\ to \in Cursors
          /\ to = Start => page = rest
          /\ to # Start => /\ \E l \in page : to = Key(l)
                           /\ Rest(to) = rest \ page
                           /\ \A i \in rest \ page : Ahead(to, Key(i))
                           /\ \A i \in page : ~Ahead(to, Key(i))
      BY <1>0, <1>2, <1>8, <2>1, PageOfRest
    <2>5. Gives(taken, to, nil, got, scans, lost)
      BY <2>1, <2>3
    <2>6. /\ Typing'
          /\ list' = list /\ rows' = rows /\ hidden' = hidden
          /\ walk'.phase = (IF to = Start /\ nil = 0 THEN "over" ELSE "reading")
          /\ walk'.cursor = to /\ walk'.skip = nil
          /\ seen'.steady = seen.steady /\ seen'.given = seen.given \union taken
          /\ seen'.twice = seen.twice \union (seen.given \intersect taken)
          /\ seen'.lost = (seen.lost \/ lost)
      <3>1. to \in Cursors /\ (list.of # "files" => nil = 0)
        BY <2>3, <2>4
      <3> QED  BY <1>0, <1>7, <2>2, <3>1, <2>5, GivesThese
    <2>7. /\ Listed' = Listed /\ \A i : Key(i)' = Key(i)
          /\ \A k, l : Ahead(k, l)' <=> Ahead(k, l)
          /\ \A S, i : Before(S, i)' = Before(S, i) /\ \A k : Rest(k)' = Rest(k)
      BY <2>6, ListStays
    <2>8. \A i \in seen'.steady \ seen'.given : i \in rest \ page /\ i \in Ids
      <3>1. SUFFICES ASSUME NEW i \in seen'.steady \ seen'.given
                     PROVE  i \in rest \ page /\ i \in Ids
        OBVIOUS
      <3>2. i \in seen.steady \ (seen.given \union taken)
        BY <2>6
      <3>3. i \in page => Full(taken) /\ used < Cardinality(matches)
        BY <1>4, <3>2 DEF Full
      <3> QED  BY <1>4, <1>9, <1>13, <3>2, <3>3
    <2>9. StayersAreGiven'
      <3>1. to = Start => seen'.steady \subseteq seen'.given
        BY <2>4, <2>8
      <3> QED  BY <2>6, <3>1 DEF StayersAreGiven
    <2>10. StayersAhead'
      <3>1. ASSUME NEW i \in seen'.steady \ seen'.given
            PROVE  Beyond(i)' /\ (Cardinality(Before(Window, i)) >= walk.skip)'
        <4>1. i \in rest \ page /\ i \in Ids
          BY <2>8
        <4>2. to = Start \/ \E l \in Ids : to = Key(l)
          BY <1>4, <2>4
        <4>3. to # Start => Ahead(to, Key(i))
          BY <2>4, <4>1
        <4>4. Beyond(i)'
          BY <1>0, <2>6, <4>1, <4>2, <4>3, AfterRead
        <4>5. Before(Window, i)' \in SUBSET Ids
          BY <1>9, <2>7 DEF Before, Window, Rest, After
        <4>6. Cardinality(Before(Window, i)') \in Nat
          BY <4>5, FiniteRows
        <4> QED  BY <2>3, <2>6, <4>4, <4>6
      <3> QED  BY <1>9, <2>6, <2>7, <3>1 DEF StayersAhead
    <2>11. GivenBehind'
      <3>1. CASE to # Start /\ seen.lost = FALSE /\ lost = FALSE
        <4>1. Window' = (rest \ page) \ hidden
          BY <2>4, <2>6, <2>7, <3>1 DEF Window
        <4>2. seen'.given \intersect Window' = {}
          BY <1>4, <1>2, <1>10, <2>6, <3>1, <4>1
        <4>3. seen'.given \subseteq Listed'
          BY <1>4, <1>2, <1>10, <2>6, <2>7, <3>1
        <4>4. Cardinality(seen'.given \intersect Window') <= walk'.skip
          BY <2>3, <2>6, <4>2, FS_EmptySet
        <4> QED  BY <1>0, <2>6, <4>3, <4>4 DEF GivenBehind
      <3>2. CASE to = Start \/ ~(seen.lost = FALSE /\ lost = FALSE)
        BY <1>7, <1>8, <2>3, <2>6, <3>2 DEF GivenBehind, Reading
      <3> QED  BY <3>1, <3>2
    <2>12. OnceUnlessLost'
      BY <1>0, <1>11, <2>6
    <2> QED  BY <2>6, <2>9, <2>10, <2>11, <2>12 DEF IInv
  <1> QED  BY <1>12, <1>13

-----------------------------------------------------------------------------
LEMMA Step == IInv /\ [Next]_vars => IInv'
  <1> SUFFICES ASSUME IInv, [Next]_vars PROVE IInv'
    OBVIOUS
  <1>1. CASE UNCHANGED vars
    <2>1. UNCHANGED <<list, rows, hidden, walk, seen>>
      BY <1>1 DEF vars
    <2> QED  BY <2>1 DEF IInv, Typing, ListOK, Filtered, RowsOK, WalkOK, SeenOK, StayersAhead,
                Beyond, Position, Key, Ahead, Before, Window, Rest, After, Listed, Reading,
                GivenBehind, StayersAreGiven, OnceUnlessLost
  <1> QED  BY <1>1, BeginStep, ReadPageStep, ReadSearchStep, ReadFilesStep, RowsChange DEF Next

LEMMA Invariant == Spec => []IInv
  BY Initially, Step, PTL DEF Spec

\* However rows come, go and move between the reads, whichever ties there are in the
\* order and however pages and reads of Filepack's list divide the rows, a caller that
\* reads a list to its end is given every row that stayed: cursors of every adapter,
\* searchMessages and collectConversationFiles skip none.
THEOREM StayersGiven == Spec => []StayersAreGiven
  BY Invariant, PTL DEF IInv

\* A row that stayed is given twice only after a row cursor's row has left or moved
\* (findIndex), or after files came in front of those that a file cursor counts.
THEOREM RepeatsExplained == Spec => []OnceUnlessLost
  BY Invariant, PTL DEF IInv
==============================================================================
