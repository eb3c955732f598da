---------------------------- MODULE StorageHealth ----------------------------
(***************************************************************************)
(* The Storage Health & Maintenance category                               *)
(* (categories/storage_health_and_maintenance).  Two checks first ask      *)
(* whether pgstattuple is installed and then measure, estimate, or give    *)
(* up; the last one reads transactions and replication slots.              *)
(*                                                                         *)
(* A table has rows, live and dead, and bytes: those of its live rows,     *)
(* those of its dead ones, and the rest, free space and page overhead.     *)
(* Time is in minutes since the audit's transaction began: now() is that   *)
(* moment for all of the audit.                                            *)
(***************************************************************************)
EXTENDS Integers, Sequences, FiniteSets

CONSTANTS
    RelationDef,    \* [Tables -> [wide, extended]]: has jsonb, text or bytea columns, stored EXTENDED
    IndexDef,       \* [Indexes -> [table, btree, partitioned]]
    StorageStarts,
    NaN,            \* the leaf density of an index without entries
    MinBloatRows,   \* MIN_LIVE_ROWS_FOR_STATS
    MinToast, MinAccess,    \* MIN_TOAST_BYTES, MIN_ACCESS_COUNT
    LongTransaction,        \* LONG_RUNNING_TRANSACTION_THRESHOLD_MINUTES
    RetainedLimit,          \* STALLED_REPLICATION_SLOT_RETAINED_BYTES_THRESHOLD
    Pending, Raised, MaxChanges

\* A database: whether pgstattuple is installed and may be called, tables with
\* their contents and what the counters say of them, indexes, those another
\* session has locked; whether it is a standby, its slots, the time, the transactions
\* of other sessions and whether the role may see them.
VARIABLES database, check, todo, partial, found, past, changes

Tables == DOMAIN RelationDef
Indexes(db) == DOMAIN db.indexes
\* What is known of each of them.  A transaction has a process of its own.
IsDatabase(db) ==
    /\ {"installed", "callable", "locked", "standby", "tables", "counted", "indexes", "slots", "clock",
        "transactions", "monitor"} \subseteq DOMAIN db
    /\ DOMAIN db.tables = Tables
    /\ \A t \in Tables :
          LET table == db.tables[t]
          IN  /\ {"live", "dead", "liveBytes", "deadBytes", "free", "toast", "seq", "idx", "off"} \subseteq DOMAIN table
              /\ {table.live, table.dead, table.liveBytes, table.deadBytes, table.free} \subseteq Nat
    /\ db.counted \in [Tables -> [live: Nat, dead: Nat]]
    /\ db.clock \in Nat
    /\ \A x \in db.transactions : x.ago \in Int
    /\ \A x, y \in db.transactions : x.pid = y.pid => x = y

IndexesOf(t, db) == {i \in Indexes(db) : IndexDef[i].table = t}

-----------------------------------------------------------------------------
(* Bloat: a fifth is worth investigating, two fifths is high.              *)

Reaches(part, whole, fifths) == 5 * part >= fifths * whole

\* The query compares with a fifth, Python with two: with the float 0.40, which is a
\* little more than the Decimal 0.4 an estimate of two fifths is.
Severity(part, whole, method) ==
    IF Reaches(part, whole, 2) /\ (method = "estimated" => 5 * part # 2 * whole) THEN "high" ELSE "medium"

AtLeastOne(n) == IF n = 0 THEN 1 ELSE n

\* ratio: [tables -> <<part, whole>>]
BloatOf(ratio, method) ==
    {<<"table", t, Severity(ratio[t][1], ratio[t][2], method), method>> : t \in
        {u \in DOMAIN ratio : Reaches(ratio[u][1], ratio[u][2], 1)}}

\* The tables with enough rows by the counters.
Sizeable(db) == {t \in Tables : db.counted[t].live >= MinBloatRows}

\* pgstattuple_approx: dead bytes of all the table's bytes, none of an empty file.
TableBytes(t, db) == db.tables[t].liveBytes + db.tables[t].deadBytes + db.tables[t].free
TableBloatMeasured(db) ==
    BloatOf([t \in Sizeable(db) |-> <<db.tables[t].deadBytes, AtLeastOne(TableBytes(t, db))>>], "measured")

\* Mutation: the quotient of two integers.
TableBloatEstimatedWhole(db) ==
    BloatOf([t \in Sizeable(db) |-> <<db.counted[t].dead \div db.counted[t].live, 1>>], "estimated")

\* Dead rows by live rows, as counted.
TableBloatEstimated(db) ==
    BloatOf([t \in Sizeable(db) |-> <<db.counted[t].dead, AtLeastOne(db.counted[t].live)>>], "estimated")

\* pgstatindex, of B-trees.  PostgreSQL takes NaN for greater than any number,
\* Python for neither greater nor equal.
IndexBloatMeasured(db) ==
    {<<"index", i, IF db.indexes[i].density = NaN THEN "medium" ELSE Severity(100 - db.indexes[i].density, 100, "measured"),
       "measured">> : i \in
        {j \in Indexes(db) : /\ IndexDef[j].btree
                             /\ \/ db.indexes[j].density = NaN
                                \/ Reaches(100 - db.indexes[j].density, 100, 1)}}

\* The functions cannot be called by every role, wait for locks until the lock
\* timeout, and do not take partitioned indexes.
MeasuringTablesRaises(db) == ~db.callable \/ Sizeable(db) \cap db.locked # {}
MeasuringIndexesRaises(db) ==
    \/ ~db.callable
    \/ \E i \in Indexes(db) : IndexDef[i].btree /\ (IndexDef[i].partitioned \/ i \in db.locked)

-----------------------------------------------------------------------------
\* pg_relation_size waits for locks as well.
SizesRaise(db) == \E i \in Indexes(db) : {i, IndexDef[i].table} \cap db.locked # {}

IndexLargerThanTable(db) ==
    {<<"ratio", i>> : i \in
        {j \in Indexes(db) : LET bytes == TableBytes(IndexDef[j].table, db)
                             IN  bytes > 0 /\ db.indexes[j].size >= bytes}}

\* idx_scan is null for a table without indexes, and so is the sum.
Hot(t, db) == IndexesOf(t, db) # {} /\ db.tables[t].idx + db.tables[t].seq >= MinAccess
LargeToast(db) == {t \in Tables : RelationDef[t].wide /\ db.tables[t].toast >= MinToast}
LargeToastOnHotTables(db) == {<<"toast", t>> : t \in {u \in LargeToast(db) : Hot(u, db)}}
ExtendedOnLargeColumns(db) == {<<"extended", t>> : t \in {u \in LargeToast(db) : RelationDef[u].extended}}
AutovacuumDisabled(db) == {<<"autovacuum", t>> : t \in {u \in Tables : db.tables[u].off}}

-----------------------------------------------------------------------------
(* The xmin horizon.                                                       *)

\* Mutation: any transaction open at the query counts, however briefly it has been.
LongRunningSinceStart(db) == {<<"transaction", x.pid>> : x \in {y \in db.transactions : db.monitor /\ y.ago + db.clock > 0}}

\* now() - xact_start, now() being when the audit's own transaction began; other
\* roles' xact_start is null without pg_read_all_stats.
LongRunningTransactions(db) ==
    {<<"transaction", x.pid>> : x \in {y \in db.transactions : db.monitor /\ y.ago > LongTransaction}}

StalledSlots(db) ==
    {<<"slot", s.name>> : s \in
        {r \in db.slots : r.restart /\ (~r.active \/ r.retained >= RetainedLimit)}}

\* pg_current_wal_lsn raises on a standby, when there is a slot to ask it for.
SlotsRaise(db) == db.standby /\ \E s \in db.slots : s.restart

-----------------------------------------------------------------------------
Checks == <<"table-bloat", "index-bloat", "index-to-table-size-ratio", "large-toast-on-hot-tables",
            "toast-storage-strategy", "autovacuum-explicitly-disabled", "xmin-horizon-risk">>

Applicable(db) == TRUE

\* is_pgstattuple_available decides what follows it.
Queries(slug, db) ==
    CASE slug = "table-bloat" -> IF db.installed THEN <<"measure-tables">> ELSE <<"estimate-tables">>
      [] slug = "index-bloat" -> IF db.installed THEN <<"measure-indexes">> ELSE <<"not-assessed">>
      [] slug = "xmin-horizon-risk" -> <<"transactions", "slots">>
      [] OTHER -> <<slug>>

Answers(slug, query, db) ==
    {CASE query = "measure-tables" ->
              IF ~db.installed \/ MeasuringTablesRaises(db) THEN Raised ELSE TableBloatMeasured(db)
       [] query = "estimate-tables" -> TableBloatEstimated(db)
       [] query = "measure-indexes" ->
              IF ~db.installed \/ MeasuringIndexesRaises(db) THEN Raised ELSE IndexBloatMeasured(db)
       [] query = "not-assessed" -> {<<"not-assessed">>}
       [] query = "index-to-table-size-ratio" -> IF SizesRaise(db) THEN Raised ELSE IndexLargerThanTable(db)
       [] query = "large-toast-on-hot-tables" -> LargeToastOnHotTables(db)
       [] query = "toast-storage-strategy" -> ExtendedOnLargeColumns(db)
       [] query = "autovacuum-explicitly-disabled" -> AutovacuumDisabled(db)
       [] query = "transactions" -> LongRunningTransactions(db)
       [] query = "slots" -> IF SlotsRaise(db) THEN Raised ELSE StalledSlots(db)}

-----------------------------------------------------------------------------
\* What a finding about bloat, transactions and slots may be.
Findings ==
    ({"table"} \X Tables \X {"medium", "high"} \X {"measured", "estimated"})
    \cup ({"transaction"} \X {x.pid : x \in UNION {db.transactions : db \in StorageStarts}})
    \cup ({"slot"} \X {s.name : s \in UNION {db.slots : db \in StorageStarts}})

-----------------------------------------------------------------------------
(* The client: pgstattuple is dropped or created, a lock taken or released,*)
(* a VACUUM run, time passes, a transaction ends.                          *)

Vacuumed(t, db) ==
    LET table == db.tables[t]
    IN  [db EXCEPT !.tables[t] = [table EXCEPT !.dead = 0, !.deadBytes = 0, !.free = table.free + table.deadBytes],
                   !.counted[t].dead = 0]

Changed(db) ==
    {[db EXCEPT !.installed = ~@]}
    \cup {[db EXCEPT !.locked = IF x \in @ THEN @ \ {x} ELSE @ \cup {x}] : x \in Tables}
    \cup {Vacuumed(t, db) : t \in Tables}
    \cup {[db EXCEPT !.clock = @ + LongTransaction]}
    \cup {[db EXCEPT !.transactions = @ \ {x}] : x \in db.transactions}

INSTANCE CategoryChecks WITH Starts <- StorageStarts

-----------------------------------------------------------------------------
Fresh(t, db) == db.counted[t] = [live |-> db.tables[t].live, dead |-> db.tables[t].dead]

\* Dead rows are on average no wider than live ones.
DeadNoWider(t, db) == db.tables[t].deadBytes * db.tables[t].live <= db.tables[t].liveBytes * db.tables[t].dead

\* What a measurement would report of the table, or worse.
Bloated(t, severity, db) ==
    \E f \in TableBloatMeasured(db) : f[2] = t /\ (severity = "high" => f[3] = "high")

\* The two bloat checks ask for pgstattuple apart and then use it.  Where it is
\* never there, neither is lost, whoever holds a lock and whatever the role may
\* call; what is said to be measured, estimated or not assessed is so for a
\* moment at which it was there, or was not.  A measurement sees bytes, an estimate
\* rows, and of a table whose dead rows are wide the estimate may say less; but with
\* counters up to date and dead rows no wider than live ones, what a measurement
\* would report is reported, at least as severely.
BloatMethodsAgree ==
    /\ found["index-bloat"] # Pending /\ (\A db \in Moments : ~db.installed) =>
          found["index-bloat"] = {<<"not-assessed">>} /\ Told("table-bloat")
    /\ \A slug \in {"table-bloat", "index-bloat"} : Told(slug) =>
          \A f \in found[slug] : \E db \in Moments :
              db.installed <=> (f # <<"not-assessed">> /\ f[4] = "measured")
    /\ Told("table-bloat") /\ (\A db \in Moments : ~db.installed) =>
          \A t \in Tables, severity \in {"medium", "high"} :
              (\A db \in Moments : Fresh(t, db) /\ DeadNoWider(t, db) /\ Bloated(t, severity, db)) =>
                  \E g \in found["table-bloat"] : g[2] = t /\ (severity = "high" => g[3] = "high")

\* A transaction reported has really been open so long, and one that had been
\* when the audit began and stays is reported to a role that may see it; every
\* abandoned slot is reported, and the check is lost only on a standby that has
\* slots.
XminFindingsAreTrue ==
    /\ Told("xmin-horizon-risk") =>
          /\ \A x \in UNION {db.transactions : db \in Moments} :
                /\ <<"transaction", x.pid>> \in found["xmin-horizon-risk"] =>
                      \E db \in Moments : x \in db.transactions /\ x.ago + db.clock > LongTransaction
                /\ x.ago > LongTransaction /\ (\A db \in Moments : db.monitor /\ x \in db.transactions) =>
                      <<"transaction", x.pid>> \in found["xmin-horizon-risk"]
          /\ \A s \in database.slots : s.restart /\ ~s.active => <<"slot", s.name>> \in found["xmin-horizon-risk"]
    /\ found["xmin-horizon-risk"] = Raised => database.standby /\ database.slots # {}

-----------------------------------------------------------------------------
(* What the docs say and the code does not do: none of these holds.        *)

\* queries.py:75-77: the fallback is "dead rows / total rows"; it divides by the
\* live ones.
EstimateIsOfTotal ==
    Told("table-bloat") /\ Steady => \A f \in found["table-bloat"] :
        f[4] = "estimated" => Reaches(database.counted[f[2]].dead,
                                      database.counted[f[2]].live + database.counted[f[2]].dead, 1)

\* checks.py:64-66: "consider a manual VACUUM or tuning at or above" two fifths; an
\* estimate of exactly that is medium.
TwoFifthsIsHigh ==
    Told("table-bloat") /\ Steady => \A f \in found["table-bloat"] :
        f[4] = "estimated" /\ Reaches(database.counted[f[2]].dead, database.counted[f[2]].live, 2) => f[3] = "high"

\* queries.py:11-14: "CREATE EXTENSION alone is enough once it's available"; the
\* functions are granted to few roles, and there is no fallback for the others.
CreateExtensionIsEnough ==
    Steady /\ database.installed /\ database.locked = {} => found["table-bloat"] # Raised

\* queries.py:116: "pgstatindex only supports B-tree indexes", as if the filter on
\* the access method were enough: it does not take a partitioned table's.
IndexFilterIsEnough ==
    Steady /\ database.installed /\ database.callable /\ database.locked = {} => found["index-bloat"] # Raised

\* queries.py:138, avg_leaf_density IS NOT NULL, is to leave out indexes without
\* leaves; their density is NaN, and each is reported as nan% bloated.
EmptyIndexesAreLeftOut ==
    Told("index-bloat") => \A f \in found["index-bloat"] :
        f # <<"not-assessed">> /\ Steady => database.indexes[f[2]].density # NaN

\* queries.py:46: "Minimum idx_scan + seq_scan before a table counts as actually
\* being read"; one without an index never does.
HotTablesAreFlagged ==
    Steady /\ Told("large-toast-on-hot-tables") => \A t \in LargeToast(database) :
        database.tables[t].idx + database.tables[t].seq >= MinAccess
        => <<"toast", t>> \in found["large-toast-on-hot-tables"]

\* checks.py:119: "is any index larger than the table"; one of equal size is
\* reported as larger.
LargerMeansLarger ==
    Steady /\ Told("index-to-table-size-ratio") => \A f \in found["index-to-table-size-ratio"] :
        database.indexes[f[2]].size > TableBytes(IndexDef[f[2]].table, database)

\* queries.py:54: "A non-idle transaction open longer than this is worth
\* surfacing"; one that became so old during the audit is not seen.
LongTransactionsAreSeen ==
    Steady /\ Told("xmin-horizon-risk") => \A x \in database.transactions :
        x.ago + database.clock > LongTransaction => <<"transaction", x.pid>> \in found["xmin-horizon-risk"]
=============================================================================
