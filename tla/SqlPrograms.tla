---------------------------- MODULE SqlPrograms ----------------------------
(***************************************************************************)
(* The writes of the six SQL adapters, statement by statement.  A program  *)
(* is a sequence of transactions; a statement outside any is its own.      *)
(*   <<<<a, b>>, <<c>>>>     a and b in one transaction, then c            *)
(* A transaction that opens with Snapshot is SERIALIZABLE and retried, and *)
(* so is one of Restarted, at the isolation it has.                        *)
(***************************************************************************)
Snapshot == "serializable"
Alone(a) == << <<a>> >>
Then(a, b) == << <<a>>, <<b>> >>
Within(t, b) == << t, <<b>> >>

SendTransaction == << <<"bump", "insertMessage", "indexMessage">> >>
UpdateTransaction == << <<"patch", "reindex">> >>
RosterWrites(promote) ==
  [add |-> Then("join", "reload"), remove |-> Then("leave", "reload"),
   role |-> Then(promote, "reload"), title |-> Then("retitle", "reload")]

-----------------------------------------------------------------------------
(* adapter-drizzle: PostgreSQL at its default isolation.                    *)

DrizzleDirect == << <<"claimPair">>, <<"joinPair">>, <<"answerPair">> >>
DrizzleGroup == Within(<<"insertRoom", "insertRoomMembers">>, "reload")
DrizzleRoster == RosterWrites("promote")
DrizzleSend == SendTransaction
DrizzleUpdate == UpdateTransaction
DrizzleRead == Alone("markReadOrThrow")
DrizzleReact ==
  [react |-> Then("react", "readReactions"), unreact |-> Then("unreact", "readReactions")]
DrizzleMention == << <<"insertMentions", "pruneMentions">> >>
DrizzleBlock == [block |-> Then("block", "readBlock"), unblock |-> Alone("unblock")]
DrizzleMute == [mute |-> Then("mute", "readMute"), unmute |-> Alone("unmute")]
DrizzleBan == Within(<<"findBan", "landBan">>, "answerBan")
DrizzleRevoke == Alone("revokeActive")
DrizzleAdmit == [consume |-> Alone("consume"), ask |-> Alone("ask")]
DrizzleResolve == Alone("resolve")
DrizzleReport == << <<"findReport">>, <<"insertReport">>, <<"readReport">> >>
DrizzleReview == Then("findReviewed", "review")
DrizzleInvite == Alone("insertInvite")
DrizzleUninvite == Alone("deleteInvite")
Drizzle ==
  [direct |-> DrizzleDirect, group |-> DrizzleGroup,
   add |-> DrizzleRoster.add, remove |-> DrizzleRoster.remove,
   role |-> DrizzleRoster.role, title |-> DrizzleRoster.title,
   send |-> DrizzleSend, edit |-> DrizzleUpdate, delete |-> DrizzleUpdate,
   read |-> DrizzleRead, mention |-> DrizzleMention,
   react |-> DrizzleReact.react, unreact |-> DrizzleReact.unreact,
   block |-> DrizzleBlock.block, unblock |-> DrizzleBlock.unblock,
   mute |-> DrizzleMute.mute, unmute |-> DrizzleMute.unmute,
   ban |-> DrizzleBan, revoke |-> DrizzleRevoke,
   consume |-> DrizzleAdmit.consume, ask |-> DrizzleAdmit.ask, resolve |-> DrizzleResolve,
   report |-> DrizzleReport, review |-> DrizzleReview,
   invite |-> DrizzleInvite, uninvite |-> DrizzleUninvite]

-----------------------------------------------------------------------------
(* adapter-sqlite: one connection, statements run where they are called.    *)

SqliteDirect == << <<"claimPair">>, <<"joinPair">>, <<"answerPair">> >>
SqliteGroup == Within(<<"insertRoom", "insertRoomMembers">>, "reload")
SqliteRoster == RosterWrites("promote")
SqliteSend == SendTransaction
SqliteUpdate == UpdateTransaction
SqliteRead == Alone("markReadOrThrow")
SqliteReact ==
  [react |-> Then("react", "readReactions"), unreact |-> Then("unreact", "readReactions")]
SqliteMention == << <<"insertMentions", "pruneMentions">> >>
SqliteBlock == [block |-> Then("block", "readBlock"), unblock |-> Alone("unblock")]
SqliteMute == [mute |-> Then("mute", "readMute"), unmute |-> Alone("unmute")]
SqliteBan == Then("guardedBan", "answerBan")
SqliteRevoke == Alone("revokeActive")
SqliteAdmit == [consume |-> Alone("consume"), ask |-> Alone("ask")]
SqliteResolve == Alone("resolve")
SqliteReport == << <<"findReport">>, <<"insertReport">>, <<"readReport">> >>
SqliteReview == Then("findReviewed", "review")
SqliteInvite == Alone("insertInvite")
SqliteUninvite == Alone("deleteInvite")
Sqlite ==
  [direct |-> SqliteDirect, group |-> SqliteGroup,
   add |-> SqliteRoster.add, remove |-> SqliteRoster.remove,
   role |-> SqliteRoster.role, title |-> SqliteRoster.title,
   send |-> SqliteSend, edit |-> SqliteUpdate, delete |-> SqliteUpdate,
   read |-> SqliteRead, mention |-> SqliteMention,
   react |-> SqliteReact.react, unreact |-> SqliteReact.unreact,
   block |-> SqliteBlock.block, unblock |-> SqliteBlock.unblock,
   mute |-> SqliteMute.mute, unmute |-> SqliteMute.unmute,
   ban |-> SqliteBan, revoke |-> SqliteRevoke,
   consume |-> SqliteAdmit.consume, ask |-> SqliteAdmit.ask, resolve |-> SqliteResolve,
   report |-> SqliteReport, review |-> SqliteReview,
   invite |-> SqliteInvite, uninvite |-> SqliteUninvite]

-----------------------------------------------------------------------------
(* adapter-turso: writes queue in the process and wait for libSQL's lock.   *)

\* Bug: the conversation and its participants are inserted without a transaction.
TursoDirectUnbundled == << <<"claimPair">>, <<"joinPair">>, <<"answerPair">> >>
TursoDirect == Within(<<"claimPair", "joinPair">>, "answerPair")
TursoGroup == Within(<<"insertRoom", "insertRoomMembers">>, "reload")
TursoRoster == RosterWrites("promote")
TursoSend == SendTransaction
TursoUpdate == UpdateTransaction
TursoRead == Alone("markReadOrThrow")
TursoReact ==
  [react |-> Then("react", "readReactions"), unreact |-> Then("unreact", "readReactions")]
TursoMention == << <<"insertMentions", "pruneMentions">> >>
TursoBlock == [block |-> Then("block", "readBlock"), unblock |-> Alone("unblock")]
TursoMute == [mute |-> Then("mute", "readMute"), unmute |-> Alone("unmute")]
TursoBan == Then("guardedBan", "answerBan")
TursoRevoke == Alone("revokeActive")
TursoAdmit == [consume |-> Alone("consume"), ask |-> Alone("ask")]
TursoResolve == Alone("resolve")
TursoReport == << <<"findReport">>, <<"insertReport">>, <<"readReport">> >>
TursoReview == Then("findReviewed", "review")
TursoInvite == Alone("insertInvite")
TursoUninvite == Alone("deleteInvite")
Turso ==
  [direct |-> TursoDirect, group |-> TursoGroup,
   add |-> TursoRoster.add, remove |-> TursoRoster.remove,
   role |-> TursoRoster.role, title |-> TursoRoster.title,
   send |-> TursoSend, edit |-> TursoUpdate, delete |-> TursoUpdate,
   read |-> TursoRead, mention |-> TursoMention,
   react |-> TursoReact.react, unreact |-> TursoReact.unreact,
   block |-> TursoBlock.block, unblock |-> TursoBlock.unblock,
   mute |-> TursoMute.mute, unmute |-> TursoMute.unmute,
   ban |-> TursoBan, revoke |-> TursoRevoke,
   consume |-> TursoAdmit.consume, ask |-> TursoAdmit.ask, resolve |-> TursoResolve,
   report |-> TursoReport, review |-> TursoReview,
   invite |-> TursoInvite, uninvite |-> TursoUninvite]

-----------------------------------------------------------------------------
(* adapter-mysql: InnoDB.                                                   *)

MysqlDirect == Within(<<"claimPair", "joinPair">>, "answerPairById")
MysqlGroup == Within(<<"insertRoom", "insertRoomMembers">>, "reload")
MysqlRoster == RosterWrites("promote")
MysqlSend == SendTransaction
MysqlUpdate == UpdateTransaction
MysqlRead == Then("markRead", "checkSeat")
MysqlReact ==
  [react |-> Then("react", "readReactions"), unreact |-> Then("unreact", "readReactions")]
MysqlMention == << <<"lockMentions", "scanMentions">> >>
MysqlBlock == [block |-> Then("block", "readBlock"), unblock |-> Alone("unblock")]
MysqlMute == [mute |-> Then("mute", "readMute"), unmute |-> Alone("unmute")]
MysqlBan == << <<"lockBans", "landBan">> >>
MysqlRevoke == Then("revokeAny", "findTarget")
MysqlAdmit == [consume |-> Alone("consume"), ask |-> Then("ask", "readRequest")]
MysqlResolve == Then("resolveIfAny", "readRequest")
MysqlReport == << <<"findReport">>, <<"insertReport">>, <<"readReport">> >>
MysqlReview == << <<"findReviewed">>, <<"review">>, <<"readReviewed">> >>
MysqlInvite == Then("insertInvite", "readInvite")
MysqlUninvite == Alone("deleteInvite")
Mysql ==
  [direct |-> MysqlDirect, group |-> MysqlGroup,
   add |-> MysqlRoster.add, remove |-> MysqlRoster.remove,
   role |-> MysqlRoster.role, title |-> MysqlRoster.title,
   send |-> MysqlSend, edit |-> MysqlUpdate, delete |-> MysqlUpdate,
   read |-> MysqlRead, mention |-> MysqlMention,
   react |-> MysqlReact.react, unreact |-> MysqlReact.unreact,
   block |-> MysqlBlock.block, unblock |-> MysqlBlock.unblock,
   mute |-> MysqlMute.mute, unmute |-> MysqlMute.unmute,
   ban |-> MysqlBan, revoke |-> MysqlRevoke,
   consume |-> MysqlAdmit.consume, ask |-> MysqlAdmit.ask, resolve |-> MysqlResolve,
   report |-> MysqlReport, review |-> MysqlReview,
   invite |-> MysqlInvite, uninvite |-> MysqlUninvite]

-----------------------------------------------------------------------------
(* adapter-prisma: PostgreSQL, serializable with retries where asked for.   *)

PrismaDirect == Within(<<Snapshot, "claimPair", "joinPair">>, "answerPairById")
PrismaGroup == Within(<<"insertRoom", "insertRoomMembers">>, "reload")
PrismaRoster == RosterWrites("promoteOrThrow")
PrismaSend == SendTransaction
PrismaUpdate == << <<Snapshot, "patch", "reindex">> >>
PrismaRead == Alone("markReadOrThrow")
PrismaReact ==
  [react |-> Then("react", "readReactions"), unreact |-> Then("unreact", "readReactions")]
PrismaMention == << <<Snapshot, "insertMentions", "pruneMentions">> >>
PrismaBlock == [block |-> Alone("blockAgain"), unblock |-> Alone("unblock")]
PrismaMute == [mute |-> Alone("muteAgain"), unmute |-> Alone("unmute")]
PrismaBan == << <<Snapshot, "takeBanLock", "findBan", "landBan">> >>
PrismaRevoke == Alone("revokeAny")
PrismaAdmit == [consume |-> Alone("consume"), ask |-> Alone("ask")]
PrismaResolve == Alone("resolve")
PrismaReport == Then("findReport", "insertReport")
PrismaReview == Then("findReviewed", "review")
PrismaInvite == Alone("insertInvite")
PrismaUninvite == Alone("deleteInvite")
Prisma ==
  [direct |-> PrismaDirect, group |-> PrismaGroup,
   add |-> PrismaRoster.add, remove |-> PrismaRoster.remove,
   role |-> PrismaRoster.role, title |-> PrismaRoster.title,
   send |-> PrismaSend, edit |-> PrismaUpdate, delete |-> PrismaUpdate,
   read |-> PrismaRead, mention |-> PrismaMention,
   react |-> PrismaReact.react, unreact |-> PrismaReact.unreact,
   block |-> PrismaBlock.block, unblock |-> PrismaBlock.unblock,
   mute |-> PrismaMute.mute, unmute |-> PrismaMute.unmute,
   ban |-> PrismaBan, revoke |-> PrismaRevoke,
   consume |-> PrismaAdmit.consume, ask |-> PrismaAdmit.ask, resolve |-> PrismaResolve,
   report |-> PrismaReport, review |-> PrismaReview,
   invite |-> PrismaInvite, uninvite |-> PrismaUninvite]

-----------------------------------------------------------------------------
(* adapter-supabase: PostgREST statements and SQL functions.                *)

SupabaseDirect == Within(<<"claimPair", "joinPair">>, "answerPair")
SupabaseGroup == Within(<<"insertRoom", "insertRoomMembers">>, "reload")
SupabaseRoster == RosterWrites("promoteOrThrow")
SupabaseSend == SendTransaction
SupabaseUpdate == UpdateTransaction
SupabaseRead == Alone("markReadOrThrow")
SupabaseReact ==
  [react |-> Then("react", "readReactions"), unreact |-> Then("unreact", "readReactions")]
SupabaseMention == << <<"pruneMentions", "insertMentions">> >>
SupabaseBlock == [block |-> Then("block", "readBlock"), unblock |-> Alone("unblock")]
SupabaseMute == [mute |-> Then("mute", "readMute"), unmute |-> Alone("unmute")]
SupabaseBan == << <<"takeBanLock", "findBan", "landBan">> >>
SupabaseRevoke == Then("findTarget", "revokeActive")
SupabaseAdmit == [consume |-> Alone("consume"), ask |-> Alone("ask")]
SupabaseResolve == Alone("resolve")
SupabaseReport == Then("findReport", "insertReport")
SupabaseReview == Then("findReviewed", "review")
SupabaseInvite == Alone("insertInvite")
SupabaseUninvite == Alone("deleteInvite")
Supabase ==
  [direct |-> SupabaseDirect, group |-> SupabaseGroup,
   add |-> SupabaseRoster.add, remove |-> SupabaseRoster.remove,
   role |-> SupabaseRoster.role, title |-> SupabaseRoster.title,
   send |-> SupabaseSend, edit |-> SupabaseUpdate, delete |-> SupabaseUpdate,
   read |-> SupabaseRead, mention |-> SupabaseMention,
   react |-> SupabaseReact.react, unreact |-> SupabaseReact.unreact,
   block |-> SupabaseBlock.block, unblock |-> SupabaseBlock.unblock,
   mute |-> SupabaseMute.mute, unmute |-> SupabaseMute.unmute,
   ban |-> SupabaseBan, revoke |-> SupabaseRevoke,
   consume |-> SupabaseAdmit.consume, ask |-> SupabaseAdmit.ask, resolve |-> SupabaseResolve,
   report |-> SupabaseReport, review |-> SupabaseReview,
   invite |-> SupabaseInvite, uninvite |-> SupabaseUninvite]

-----------------------------------------------------------------------------
Restarted == {<<"mysql", "ban">>}

Programs == [drizzle |-> Drizzle, sqlite |-> Sqlite, turso |-> Turso,
             mysql |-> Mysql, prisma |-> Prisma, supabase |-> Supabase]
=============================================================================
