------------------------------- MODULE Paging -------------------------------
(***************************************************************************)
(* Reading a list page by page while it changes: a caller asks for the     *)
(* first page and then for the one after the cursor it was given, until it *)
(* is given none.  Between two reads rows enter the list, leave it or move *)
(* in its order.  Every list of every storage adapter is one of the forms  *)
(* below; the search of the engine and the files of a conversation put     *)
(* several reads into one page, because they leave out rows of the reads.  *)
(***************************************************************************)
EXTENDS Integers, FiniteSets

CONSTANTS
  Ids,          \* the rows, numbered in the order of their ids
  Stamps,       \* what the list is ordered by: time, seq or rank
  PageSize,     \* rows a caller asks for
  ScanSize,     \* files Filepack returns at a time
  MaxScans,     \* reads of Filepack's list for one page
  MaxChanges    \* bound: changes while the list is read

ASSUME PagingAssumption ==
  /\ {MaxChanges} \subseteq Nat
  /\ {PageSize, ScanSize, MaxScans} \subseteq Nat \ {0}
  /\ Ids \subseteq Nat /\ IsFiniteSet(Ids)
  /\ Stamps \subseteq Nat /\ 0 \in Stamps

VARIABLES
  list,      \* the list that is read
  rows,      \* who is in it, and where
  hidden,    \* rows of the reads that are not for this caller
  walk,      \* where the caller has got to
  seen,      \* history: what it was given
  changes    \* how often the list changed

vars == <<list, rows, hidden, walk, seen, changes>>

-----------------------------------------------------------------------------
(* The forms.  A keyset cursor is the order key of the last row returned,   *)
(* and the next page holds the rows after that key.  A row cursor is its    *)
(* id, and the next page holds the rows after it where it is now.           *)

Keyset == [cursor |-> "key", newest |-> TRUE, again |-> FALSE]
OldestFirst == [cursor |-> "key", newest |-> FALSE, again |-> FALSE]
RowCursor == [cursor |-> "row", newest |-> TRUE, again |-> FALSE]
\* A second block or mute writes the time of the first one over.
OldestRenewed == [cursor |-> "key", newest |-> FALSE, again |-> TRUE]

MemoryConversations == RowCursor
MemoryMessages == RowCursor
MemorySearch == Keyset
MemoryBlocks == RowCursor
MemoryMutes == RowCursor
MemoryReports == RowCursor
MemoryBans == RowCursor

DrizzleConversations == Keyset
DrizzleMessages == Keyset
DrizzleSearch == Keyset
DrizzleBlocks == RowCursor
DrizzleMutes == RowCursor
DrizzleReports == RowCursor
DrizzleBans == RowCursor

SqliteConversations == Keyset
SqliteMessages == Keyset
SqliteSearch == Keyset
SqliteBlocks == RowCursor
SqliteMutes == RowCursor
SqliteReports == RowCursor
SqliteBans == RowCursor

TursoConversations == Keyset
TursoMessages == Keyset
TursoSearch == Keyset
TursoBlocks == RowCursor
TursoMutes == RowCursor
TursoReports == RowCursor
TursoBans == RowCursor

MysqlConversations == Keyset
MysqlMessages == Keyset
MysqlSearch == Keyset
MysqlBlocks == OldestFirst
MysqlMutes == OldestFirst
MysqlReports == OldestFirst
MysqlBans == OldestFirst

PrismaConversations == Keyset
PrismaMessages == Keyset
PrismaSearch == Keyset
PrismaBlocks == OldestRenewed
PrismaMutes == OldestRenewed
PrismaReports == OldestFirst
PrismaBans == OldestFirst

SupabaseConversations == Keyset
SupabaseMessages == Keyset
SupabaseSearch == Keyset
SupabaseBlocks == RowCursor
SupabaseMutes == RowCursor
SupabaseReports == RowCursor
SupabaseBans == RowCursor

\* The lists of conversations and channels have one implementation.
Listing(name, forms) == {[of |-> name, form |-> f] : f \in forms}
Lists ==
  Listing("conversations", {MemoryConversations, DrizzleConversations, SqliteConversations,
           TursoConversations, MysqlConversations, PrismaConversations, SupabaseConversations})
  \union Listing("messages", {MemoryMessages, DrizzleMessages, SqliteMessages, TursoMessages,
           MysqlMessages, PrismaMessages, SupabaseMessages})
  \union Listing("search", {MemorySearch, DrizzleSearch, SqliteSearch, TursoSearch,
           MysqlSearch, PrismaSearch, SupabaseSearch})
  \union Listing("blocks", {MemoryBlocks, DrizzleBlocks, SqliteBlocks, TursoBlocks, MysqlBlocks,
           PrismaBlocks, SupabaseBlocks, MemoryMutes, DrizzleMutes, SqliteMutes, TursoMutes,
           MysqlMutes, PrismaMutes, SupabaseMutes})
  \union Listing("reports", {MemoryReports, DrizzleReports, SqliteReports, TursoReports,
           MysqlReports, PrismaReports, SupabaseReports})
  \union Listing("bans", {MemoryBans, DrizzleBans, SqliteBans, TursoBans,
           MysqlBans, PrismaBans, SupabaseBans})
  \union Listing("files", {Keyset})

\* A page of search or of files leaves out rows it has read.
Filtered == list.of \in {"search", "files"}

-----------------------------------------------------------------------------
(* Order and pages.                                                         *)

Start == [id |-> 0, at |-> -1]
Key(i) == [id |-> i, at |-> rows[i].at]
Less(k, l) == k.at < l.at \/ (k.at = l.at /\ k.id < l.id)
Ahead(k, l) == IF list.form.newest THEN Less(l, k) ELSE Less(k, l)

Listed == {i \in Ids : rows[i].in}
After(k) == {i \in Listed : Ahead(k, Key(i))}

\* Bug: the row of the cursor is returned again.
RestFromCursor(cursor) ==
  IF cursor = Start THEN Listed
  ELSE IF list.form.cursor = "key" THEN After(cursor)
  ELSE IF cursor.id \in Listed THEN After(Key(cursor.id)) \union {cursor.id}
  ELSE Listed

\* findIndex of a row that is not there is -1: the list starts over.
Rest(cursor) ==
  IF cursor = Start THEN Listed
  ELSE IF list.form.cursor = "key" THEN After(cursor)
  ELSE IF cursor.id \in Listed THEN After(Key(cursor.id))
  ELSE Listed

First(S, n) == {i \in S : Cardinality({j \in S : Ahead(Key(j), Key(i))}) < n}
Last(S) == CHOOSE i \in S : \A j \in S : j = i \/ Ahead(Key(j), Key(i))

\* A cursor is given out when rows remain.
CursorAfter(page, rest) == IF page # rest THEN Key(Last(page)) ELSE Start

-----------------------------------------------------------------------------
(* The caller.                                                              *)

Reading == walk.phase = "reading"

\* Rows that have stayed where they are since the first page was asked for.
Begin ==
  /\ walk.phase = "before"
  /\ walk' = [walk EXCEPT !.phase = "reading"]
  /\ seen' = [seen EXCEPT !.steady = Listed \ hidden]
  /\ UNCHANGED <<list, rows, hidden, changes>>

\* A read gives the caller these rows; got counts towards the page being filled.
Gives(page, cursor, skip, got, scans, lost) ==
  /\ walk' = [phase |-> IF cursor = Start /\ skip = 0 THEN "over" ELSE "reading",
              cursor |-> cursor, skip |-> skip, got |-> got, scans |-> scans]
  /\ seen' = [seen EXCEPT !.given = @ \union page,
                          !.twice = @ \union (seen.given \intersect page),
                          !.lost = @ \/ lost]
  /\ UNCHANGED <<list, rows, hidden, changes>>

\* The row of the cursor has left the list or moved since the cursor was given.
CursorLost ==
  /\ list.form.cursor = "row" /\ walk.cursor # Start
  /\ walk.cursor.id \notin Listed \/ Key(walk.cursor.id) # walk.cursor

ReadPage ==
  /\ Reading /\ ~Filtered
  /\ LET rest == Rest(walk.cursor)
         page == First(rest, PageSize)
     IN  Gives(page, CursorAfter(page, rest), 0, 0, 0, CursorLost)

\* Bug: every read is of a whole page, of which the page takes what fits.
ReadSearchWhole ==
  /\ Reading /\ list.of = "search"
  /\ LET rest == Rest(walk.cursor)
         page == First(rest, PageSize)
         readable == First(page \ hidden, PageSize - walk.got)
         got == walk.got + Cardinality(readable)
     IN  Gives(readable, CursorAfter(page, rest), 0, IF got < PageSize THEN got ELSE 0, 0, FALSE)

\* Bug: storage is asked again after the last row that was readable.
ReadSearchFromReadable ==
  /\ Reading /\ list.of = "search"
  /\ LET rest == Rest(walk.cursor)
         page == First(rest, PageSize - walk.got)
         readable == page \ hidden
         got == walk.got + Cardinality(readable)
     IN  Gives(readable,
               IF page = rest THEN Start
               ELSE IF readable = {} THEN walk.cursor ELSE Key(Last(readable)),
               0, IF got < PageSize THEN got ELSE 0, 0, FALSE)

\* searchMessages asks storage for the rows that are missing from its page until
\* the page is full or storage has no more.
ReadSearch ==
  /\ Reading /\ list.of = "search"
  /\ LET rest == Rest(walk.cursor)
         page == First(rest, PageSize - walk.got)
         readable == page \ hidden
         got == walk.got + Cardinality(readable)
     IN  Gives(readable, CursorAfter(page, rest), 0, IF got < PageSize THEN got ELSE 0, 0, FALSE)

\* collectConversationFiles: its cursor is where a read of Filepack's list began
\* and how many files of the conversation that read has already given.
ReadFiles ==
  /\ Reading /\ list.of = "files"
  /\ LET rest == Rest(walk.cursor)
         page == First(rest, ScanSize)
         matches == page \ hidden
         skipped == First(matches, walk.skip)
         fresh == matches \ skipped
         taken == First(fresh, PageSize - walk.got)
         full == walk.got + Cardinality(taken) = PageSize
         scans == walk.scans + 1
         lost == ~(skipped \subseteq seen.given) \/ Cardinality(skipped) < walk.skip
         used == Cardinality(skipped) + Cardinality(taken)
     IN  IF full /\ used < Cardinality(matches)
         THEN Gives(taken, walk.cursor, used, 0, 0, lost)
         ELSE Gives(taken, CursorAfter(page, rest), 0,
                    IF full \/ scans = MaxScans THEN 0 ELSE walk.got + Cardinality(taken),
                    IF full \/ scans = MaxScans THEN 0 ELSE scans, lost)

-----------------------------------------------------------------------------
(* Everybody else.                                                          *)

Changed(i, row) ==
  /\ Reading /\ changes < MaxChanges
  /\ changes' = changes + 1
  /\ rows' = [rows EXCEPT ![i] = row]
  /\ seen' = [seen EXCEPT !.steady = @ \ {i}]
  /\ UNCHANGED <<list, hidden, walk>>

\* The clock does not run back: what happens now is not older than what any row,
\* of the list or gone from it, has seen.
Newest(at) == \A j \in Ids : rows[j].at \leq at
\* A message has a seq of its own.
Taken(at) == list.of = "messages" /\ \E j \in Listed : rows[j].at = at

\* A message is edited to match with any rank. A conversation comes back no older
\* than it was, a report with its own time. Other rows come with the newest time.
Comes(i, at) ==
  \/ list.of = "search"
  \/ list.of = "conversations" /\ at \geq rows[i].at
  \/ list.of = "reports" /\ at = rows[i].at
  \/ list.of \in {"messages", "blocks", "bans", "files"} /\ Newest(at) /\ ~Taken(at)

Enter(i) ==
  /\ i \notin Listed
  /\ \E at \in Stamps : Comes(i, at) /\ Changed(i, [in |-> TRUE, at |-> at])

\* Messages keep their place when they are deleted, and files are not deleted.
Leave(i) ==
  /\ list.of \notin {"messages", "files"} /\ i \in Listed
  /\ Changed(i, [rows[i] EXCEPT !.in = FALSE])

\* A message bumps its conversation, an edit changes a rank.
Move(i) ==
  /\ i \in Listed
  /\ list.of \in {"conversations", "search"} \/ list.form.again
  /\ \E at \in Stamps \ {rows[i].at} : /\ list.of = "search" \/ Newest(at)
                                       /\ Changed(i, [rows[i] EXCEPT !.at = at])

-----------------------------------------------------------------------------
Init ==
  /\ list \in Lists
  /\ rows \in [Ids -> [in : BOOLEAN, at : Stamps]]
  /\ list.of = "messages" =>
       \A i, j \in Listed : rows[i].at = rows[j].at => i = j
  /\ \A i \in Ids \ Listed : rows[i].at = 0 \/ list.of \in {"conversations", "reports"}
  /\ hidden \in SUBSET Ids /\ (hidden = {} \/ Filtered)
  /\ walk = [phase |-> "before", cursor |-> Start, skip |-> 0, got |-> 0, scans |-> 0]
  /\ seen = [steady |-> {}, given |-> {}, twice |-> {}, lost |-> FALSE]
  /\ changes = 0

Read == ReadPage \/ ReadSearch \/ ReadFiles

Next ==
  \/ Begin
  \/ ReadPage
  \/ ReadSearch
  \/ ReadFiles
  \/ \E i \in Ids : Enter(i)
  \/ \E i \in Ids : Leave(i)
  \/ \E i \in Ids : Move(i)

\* A caller that wants the whole list asks for the next page.
Spec == Init /\ [][Next]_vars /\ WF_vars(Begin) /\ WF_vars(Read)

-----------------------------------------------------------------------------
TypeOK ==
  /\ list \in Lists
  /\ rows \in [Ids -> [in : BOOLEAN, at : Stamps]]
  /\ walk.phase \in {"before", "reading", "over"}
  /\ walk.got \in 0..PageSize - 1 /\ walk.skip \in 0..ScanSize
  /\ changes \in 0..MaxChanges

\* A caller that reads a list to its end is given every row that was there all
\* along and in its place, whatever else came, went or moved, whether rows have
\* equal times, and whichever rows were left out of the reads.
StayersAreGiven == walk.phase = "over" => seen.steady \subseteq seen.given

\* It is given none of them twice, except after the row its cursor names has
\* left the list or moved, which makes a row cursor start over or go back, and
\* after new files, of whatever conversation, have moved those a file cursor counts
\* or pushed them out of the read it starts from.
OnceUnlessLost == seen.twice \intersect seen.steady # {} => seen.lost

\* Reading a list comes to an end when the list stops changing.
WalksEnd == (walk.phase = "reading") ~> (walk.phase = "over")
=============================================================================
