------------------------------- MODULE Search -------------------------------
(***************************************************************************)
(* The event store as its readers see it (internal/store/sqlite): rows and *)
(* full-text index, written in transactions, migrated when the database is *)
(* opened and trimmed by retention; a client that walks a search page by   *)
(* page; exports that stream from the same pool of read connections.       *)
(*                                                                         *)
(* Abstractions.                                                           *)
(*   - An event is its ID, which orders as IDs do; Stamp is its time, Hits *)
(*     are the events the client's free-text term finds.                   *)
(*   - A table is a function from rowids to events.                        *)
(*   - A cursor, which encodes a timestamp and an ID, is the event.        *)
(*   - A statement of SQLite reads one snapshot and is one step; two       *)
(*     statements are two steps.                                           *)
(***************************************************************************)
EXTENDS Naturals, FiniteSets, Sequences, SequencesExt, Functions

CONSTANTS
    LogIds,        \* event IDs
    LogTime,       \* LogTime[e]: the event's timestamp
    Hits,          \* events that hold the term
    OldRows,       \* rows of a database an earlier version wrote
    OldIndexes,    \* full-text indexes it may have left
    Latest,        \* latestSchemaVersion
    PageSize,      \* the query's limit
    ReadConns,     \* maxReadConns
    ExportSlots,   \* maxConcurrentExports
    Exporters,     \* clients that export
    MaxRestarts    \* bound: restarts of the server

ASSUME SearchAssumption ==
    /\ LogIds \subseteq Nat \ {0}
    /\ LogTime \in [LogIds -> Nat]
    /\ Hits \subseteq LogIds
    /\ \A f \in {OldRows} \cup OldIndexes : DOMAIN f \subseteq Nat \ {0} /\ Range(f) \subseteq LogIds
    /\ IsFiniteSet(DOMAIN OldRows) /\ IsInjective(OldRows)  \* logs.id is the primary key
    /\ Latest \in Nat /\ Latest >= 2
    /\ PageSize \in Nat \ {0} /\ MaxRestarts \in Nat
    /\ ExportSlots \in Nat /\ ReadConns \in Nat /\ ExportSlots < ReadConns

VARIABLES
    \* -- the database ------------------------------------------------------
    version,   \* PRAGMA user_version
    rows,      \* logs: rowid -> event
    index,     \* logs_fts: rowid -> event whose text is indexed there
    \* -- the server --------------------------------------------------------
    opened,    \* has Open returned?
    restarts,
    \* -- the client that walks the pages -----------------------------------
    search,    \* "idle", "asked", "read" (page read, not counted), "done"
    order,     \* "newest" or "oldest"
    cursor,    \* the event to continue after, FirstPage at the start
    page,      \* rows of the page being read
    walked,    \* events received so far
    owed,      \* matches at the start of the walk that have not been purged
    \* -- exports -----------------------------------------------------------
    streaming  \* clients whose export is streaming

dbVars     == <<version, rows, index>>
walkVars   == <<search, order, cursor, page, walked, owed>>
searchVars == <<dbVars, opened, restarts, walkVars, streaming>>

FirstPage == 0
RebuildVersion == 2

-----------------------------------------------------------------------------
(* Opening the database. *)

\* rebuildFTSRowids: every index row is written again under its event's rowid.
RebuildIndex == index' = rows

\* Each migration runs in a transaction of its own, with the new version.
Migrate ==
    /\ ~opened
    /\ version < Latest
    /\ version' = version + 1
    /\ IF version' = RebuildVersion THEN RebuildIndex ELSE UNCHANGED index
    /\ UNCHANGED <<rows, opened, restarts, walkVars, streaming>>

\* A database newer than the binary is refused: nothing opens it.
Open ==
    /\ ~opened
    /\ version = Latest
    /\ opened' = TRUE
    /\ UNCHANGED <<dbVars, restarts, walkVars, streaming>>

\* What a transaction has not committed is rolled back; requests are lost.
Restart ==
    /\ restarts < MaxRestarts
    /\ restarts' = restarts + 1
    /\ opened' = FALSE
    /\ search' = IF search \in {"asked", "read"} THEN "idle" ELSE search
    /\ page' = <<>>
    /\ streaming' = {}
    /\ UNCHANGED <<dbVars, order, cursor, walked, owed>>

-----------------------------------------------------------------------------
(* Writing. *)

\* SQLite gives a new row the rowid after the largest in use.
NextRowid == Max({0} \cup DOMAIN rows) + 1

RowidOf(e) == IF e \in Range(rows) THEN CHOOSE r \in DOMAIN rows : rows[r] = e ELSE NextRowid

Put(table, r, e) == [i \in DOMAIN table \cup {r} |-> IF i = r THEN e ELSE table[i]]

\* The upsert keeps the rowid of an event it has; its index row is deleted and
\* written again.  A batch is a sequence of such steps in one transaction.
AppendRow(e) ==
    /\ opened
    /\ rows' = Put(rows, RowidOf(e), e)
    /\ index' = Put(index, RowidOf(e), e)
    /\ UNCHANGED <<version, opened, restarts, walkVars, streaming>>

\* First the index rows, found through the rows they belong to.
PurgeBoth(old) ==
    /\ index' = [r \in DOMAIN index \ old |-> index[r]]
    /\ rows' = [r \in DOMAIN rows \ old |-> rows[r]]

\* runRetention: events strictly older than the cutoff.
Purge(cutoff) ==
    /\ opened
    /\ LET old == {r \in DOMAIN rows : LogTime[rows[r]] < cutoff} IN
          /\ old # {}
          /\ PurgeBoth(old)
          /\ owed' = owed \ {rows[r] : r \in old}
    /\ UNCHANGED <<version, opened, restarts, search, order, cursor, page, walked, streaming>>

-----------------------------------------------------------------------------
(* Searching. *)

\* The join is on the rowid: the index decides, the row is returned.
Found == {rows[r] : r \in {i \in DOMAIN rows \cap DOMAIN index : index[i] \in Hits}}

After(e, f) ==
    IF order = "oldest"
    THEN LogTime[e] > LogTime[f] \/ (LogTime[e] = LogTime[f] /\ e > f)
    ELSE LogTime[e] < LogTime[f] \/ (LogTime[e] = LogTime[f] /\ e < f)

\* Mutated: the cursor is a timestamp alone.
KeysetByTime(e) ==
    \/ cursor = FirstPage
    \/ IF order = "oldest" THEN LogTime[e] > LogTime[cursor] ELSE LogTime[e] < LogTime[cursor]

Keyset(e) == cursor = FirstPage \/ After(e, cursor)

InOrder(S) == CHOOSE s \in [1..Cardinality(S) -> S] :
                 ToSet(s) = S /\ \A i, j \in DOMAIN s : i < j => After(s[j], s[i])

AtMost(s, n) == SubSeq(s, 1, IF Len(s) < n THEN Len(s) ELSE n)

\* A client starts a walk, or asks for the page after the last one.
StartWalk(o) ==
    /\ opened
    /\ search = "idle" /\ cursor = FirstPage
    /\ search' = "asked"
    /\ order' = o
    /\ owed' = Found
    /\ UNCHANGED <<dbVars, opened, restarts, cursor, page, walked, streaming>>

NextPage ==
    /\ opened
    /\ search = "idle" /\ cursor # FirstPage
    /\ search' = "asked"
    /\ UNCHANGED <<dbVars, opened, restarts, order, cursor, page, walked, owed, streaming>>

\* An export holds its connection until it ends; a search needs one.
ConnFree == Cardinality(streaming) < ReadConns

ReadPage ==
    /\ opened
    /\ search = "asked"
    /\ ConnFree
    /\ page' = AtMost(InOrder({e \in Found : Keyset(e)}), PageSize)
    /\ search' = "read"
    /\ UNCHANGED <<dbVars, opened, restarts, order, cursor, walked, owed, streaming>>

\* The total comes from a statement of its own; only if that succeeds too does
\* the client see the page.  A full page may have a successor.
CountMatches ==
    /\ opened
    /\ search = "read"
    /\ ConnFree
    /\ walked' = walked \o page
    /\ IF Len(page) = PageSize
       THEN search' = "idle" /\ cursor' = Last(page)
       ELSE search' = "done" /\ UNCHANGED cursor
    /\ page' = <<>>
    /\ UNCHANGED <<dbVars, opened, restarts, order, owed, streaming>>

\* A statement fails or runs into readTimeout: the client gets an error and may
\* ask again with the cursor it has.
SearchFails ==
    /\ search \in {"asked", "read"}
    /\ search' = "idle"
    /\ page' = <<>>
    /\ UNCHANGED <<dbVars, opened, restarts, order, cursor, walked, owed, streaming>>

-----------------------------------------------------------------------------
(* Exports.  The rows are those of one statement, and go to nobody else. *)

\* handleExport: a slot, or 429.
SlotFree == Cardinality(streaming) < ExportSlots

StartExport(x) ==
    /\ opened
    /\ x \notin streaming
    /\ SlotFree
    /\ ConnFree
    /\ streaming' = streaming \cup {x}
    /\ UNCHANGED <<dbVars, opened, restarts, walkVars>>

\* The last row is sent, or the statement fails and the connection is aborted,
\* or the client has hung up; the deferred release runs in any case.
EndExport(x) ==
    /\ x \in streaming
    /\ streaming' = streaming \ {x}
    /\ UNCHANGED <<dbVars, opened, restarts, walkVars>>

-----------------------------------------------------------------------------
NoRows == [r \in {} |-> 0]

\* A new database, one of an older version, or one of a newer.
SearchInit ==
    /\ version \in 0..(Latest + 1)
    /\ rows \in IF version = 0 THEN {NoRows, OldRows} ELSE {OldRows}
    /\ index \in IF version < RebuildVersion THEN OldIndexes ELSE {rows}
    /\ rows = NoRows => index = NoRows
    /\ opened = FALSE
    /\ restarts = 0
    /\ search = "idle"
    /\ order = "newest"
    /\ cursor = FirstPage
    /\ page = <<>>
    /\ walked = <<>>
    /\ owed = {}
    /\ streaming = {}

Searching == ReadPage \/ CountMatches

SearchNext ==
    \/ Migrate \/ Open \/ Restart
    \/ \E e \in LogIds : AppendRow(e)
    \/ \E cutoff \in {LogTime[e] : e \in LogIds} : Purge(cutoff)
    \/ \E o \in {"newest", "oldest"} : StartWalk(o)
    \/ NextPage \/ Searching \/ SearchFails
    \/ \E x \in Exporters : StartExport(x) \/ EndExport(x)

SearchSpec == SearchInit /\ [][SearchNext]_searchVars

\* The server opens its database and statements end.  Nothing is assumed of a
\* client that exports: it may read its download as slowly as it likes.
SearchFairness ==
    /\ WF_searchVars(Migrate \/ Open)
    /\ WF_searchVars(Searching)

-----------------------------------------------------------------------------
(* Properties. *)

SearchTypeOK ==
    /\ version \in 0..(Latest + 1)
    /\ \A f \in {rows, index} : DOMAIN f \subseteq Nat \ {0} /\ Range(f) \subseteq LogIds
    /\ opened \in BOOLEAN
    /\ restarts \in 0..MaxRestarts
    /\ search \in {"idle", "asked", "read", "done"}
    /\ order \in {"newest", "oldest"}
    /\ cursor \in LogIds \cup {FirstPage}
    /\ page \in Seq(LogIds) /\ Len(page) <= PageSize
    /\ walked \in Seq(LogIds)
    /\ owed \in SUBSET LogIds
    /\ streaming \subseteq Exporters

\* "Every logs_fts row's rowid equals its logs.rowid" (migrate.go:54-57,
\* sqlite.go:276-279) once the database is open, and no row is indexed twice:
\* whatever version wrote it, and though rowids are used again after a purge.
IndexMatchesRows == opened => index = rows /\ IsInjective(rows)

\* A walk is "stable under concurrent ingest" (query.go:67-69): pages never
\* repeat an event and follow one order, and what matched when the walk began
\* and has not been purged has been delivered when it ends.
WalkIsExact ==
    /\ \A i \in 1..(Len(walked) - 1) : After(walked[i + 1], walked[i])
    /\ search = "done" => owed \subseteq ToSet(walked)

\* A search finds through the index what is stored, and its pages walk through it.
SearchIsExact == IndexMatchesRows /\ WalkIsExact

\* "A long export streaming to a slow client" (sqlite.go:89-91, export.go:14-17)
\* does not keep a search waiting: it is answered or fails.
SearchAnswered ==
    (search = "asked") ~> (search \in {"idle", "done"})
=============================================================================
