-------------------------- MODULE IndexingStrategy --------------------------
(***************************************************************************)
(* The Indexing Strategy category (categories/indexing_strategy): the seven*)
(* checks, run one after the other, over a catalog that a DBA and the      *)
(* workload go on changing: each query sees the database as it is when it  *)
(* runs.                                                                   *)
(*                                                                         *)
(* Every query is an operator on the catalog; a finding is kept as the     *)
(* index, column or table it is about.                                     *)
(***************************************************************************)
EXTENDS Integers, Sequences, FiniteSets, FiniteSetsExt, SequencesExt

CONSTANTS
    Relname,        \* [Tables -> names]: two tables of two schemas may share one
    ColumnDef,      \* [Columns -> [table, name, type, flag, fk]]: flag-shaped name, single-column foreign key
    IndexDef,       \* [Indexes -> [table, keys, include, gin, partial, unique, text]], of all there may ever be
    Expression,     \* in keys: an expression instead of a column (attnum 0)
    StatementDef,   \* [Statements -> [text, where, extracts, compares]]
    Estimates,      \* what ANALYZE may store as n_distinct, fractions in tenths (negative)
    Unknown,        \* no pg_stats row
    NotAsked,       \* this query has not run
    Failed,         \* the check raised an exception
    MinTableBytes, MinSeqScanCount, MinRows, MinWriteCount, MinIndexCount,
    BuildScans,     \* the most scans of its table that the building of an index counts
    Starts,         \* the sets of indexes the client may have to begin with
    Pasts,          \* the statistics a table may have to begin with
    MaxEvents       \* how often the DBA and the workload act

\* A "text" is the set of names that occur in it, as ILIKE '%name%' sees them.
Tables == DOMAIN Relname
Columns == DOMAIN ColumnDef
IndexUniverse == DOMAIN IndexDef
Statements == DOMAIN StatementDef

\* A row of pg_stat_user_tables, as far as it is read.
TableStats == [bytes : Nat, rows : Nat, writes : Nat, seq : Nat]

ASSUME UniverseAssumption ==
    /\ \A c \in Columns : ColumnDef[c].table \in Tables
    /\ \A i \in IndexUniverse :
          /\ IndexDef[i].table \in Tables
          /\ IndexDef[i].keys \in Seq(STRING \cup {Expression}) \ {<<>>}
          /\ IndexDef[i].include \in Seq(STRING)
    /\ \A start \in Starts : start \subseteq IndexUniverse /\ IsFiniteSet(start)
    /\ Pasts \subseteq TableStats /\ BuildScans \in Nat \ {0}

ASSUME BoundsAssumption == {MinTableBytes, MinSeqScanCount, MinRows, MinWriteCount, MinIndexCount} \subseteq Nat

VARIABLES
    indexes,    \* the indexes there are
    scans,      \* [IndexUniverse -> Nat]: pg_stat_user_indexes.idx_scan
    stats,      \* [Tables -> TableStats]: pg_stat_user_tables
    distinct,   \* [Columns -> Estimates or Unknown]: pg_stats.n_distinct
    pgss,       \* pg_stat_statements: "absent", "created" but not preloaded, or "loaded"
    seen,       \* the statements it has recorded
    found,      \* [Queries -> set of subjects, NotAsked or Failed]
    still,      \* (history) nothing has changed since the first query
    events      \* how often the DBA and the workload have acted

catalog == <<indexes, scans, stats, distinct, pgss, seen>>
indexingVars == <<indexes, scans, stats, distinct, pgss, seen, found, still, events>>

-----------------------------------------------------------------------------
(* The queries (queries.py).                                               *)

\* pg_index.indkey: the key columns, then the INCLUDE columns.
indkey(i) == IndexDef[i].keys \o IndexDef[i].include
Leads(i, c) == IndexDef[i].table = ColumnDef[c].table /\ Head(IndexDef[i].keys) = ColumnDef[c].name
On(t) == {i \in indexes : IndexDef[i].table = t}
OnTableOf(c) == On(ColumnDef[c].table)
\* pg_stat_user_tables.idx_scan: the sum over the indexes that exist now.
idx_scan(t) == MapThenSumSet(LAMBDA i : scans[i], On(t))

UnusedIndexes == {i \in indexes : scans[i] = 0 /\ ~IndexDef[i].unique}

\* Mutation: only a foreign key's sole index counts.
ForeignKeysWithOtherIndexes ==
    {c \in Columns : ColumnDef[c].fk /\ ~\E i \in indexes : Leads(i, c) /\ OnTableOf(c) = {i}}

UnindexedForeignKeys == {c \in Columns : ColumnDef[c].fk /\ ~\E i \in indexes : Leads(i, c)}

SeqScanHeavyTables ==
    {t \in Tables : /\ stats[t].bytes >= MinTableBytes
                    /\ stats[t].seq >= MinSeqScanCount
                    /\ stats[t].seq > idx_scan(t)}

\* The join with pg_attribute drops the expressions.
IndexColumns(i) == SelectSeq(indkey(i), LAMBDA k : k # Expression)
CompositeIndexes == {i \in indexes : Len(indkey(i)) >= 2 /\ IndexColumns(i) # <<>>}

\* fetch_queries_mentioning_second_column_not_leading.
SecondNotLeading(i) ==
    LET Matches(q) == /\ q.where
                      /\ {Relname[IndexDef[i].table], IndexColumns(i)[2]} \subseteq q.text
                      /\ IndexColumns(i)[1] \notin q.text
    IN {s \in seen : Matches(StatementDef[s])}

JsonbColumns == {c \in Columns : ColumnDef[c].type = "jsonb"}
JsonbColumnsWithoutGin ==
    {c \in JsonbColumns : ~\E i \in OnTableOf(c) : IndexDef[i].gin /\ ColumnDef[c].name \in IndexDef[i].text}
\* fetch_jsonb_range_query_candidate_count asks for the column's name only.
RangeQueries(c) ==
    LET Matches(q) == ColumnDef[c].name \in q.text /\ q.extracts /\ q.compares
    IN {s \in seen : Matches(StatementDef[s])}

\* GROUP BY t.relname, a.attname: no schema.
LeadingColumn(i) == <<Relname[IndexDef[i].table], Head(IndexDef[i].keys)>>
IndexesSharingLeadingColumn ==
    LET groups == {{j \in indexes : LeadingColumn(j) = LeadingColumn(i)} : i \in {j \in indexes : LeadingColumn(j)[2] # Expression}}
    IN {g \in groups : Cardinality(g) > 1}

\* _HIGH_SELECTIVITY_COLUMN_CANDIDATE_TYPES, as opposed to boolean, jsonb, ...
CandidateTypes == {"scalar"}

\* Mutation: only a leading column counts as indexed, and only alone.
SelectiveWithoutOwnIndex ==
    {c \in Columns : /\ distinct[c] # Unknown /\ stats[ColumnDef[c].table].rows >= MinRows
                     /\ ColumnDef[c].type \in CandidateTypes
                     /\ ~\E i \in OnTableOf(c) : indkey(i) = <<ColumnDef[c].name>>}

ColumnsWithoutIndex ==
    {c \in Columns : /\ distinct[c] # Unknown /\ stats[ColumnDef[c].table].rows >= MinRows
                     /\ ColumnDef[c].type \in CandidateTypes
                     /\ ~\E i \in OnTableOf(c) : ColumnDef[c].name \in ToSet(indkey(i))}

HighWriteTablesWithManyIndexes ==
    {t \in Tables : stats[t].writes >= MinWriteCount /\ On(t) # {} /\ Cardinality(On(t)) >= MinIndexCount}

NonPartialIndexesOnFlagColumns ==
    {i \in indexes :
        /\ ~IndexDef[i].partial
        /\ \E c \in Columns : Leads(i, c) /\ (ColumnDef[c].type = "boolean" \/ ColumnDef[c].flag)}

-----------------------------------------------------------------------------
(* The checks (checks.py).                                                 *)

\* _selectivity_ratio, in tenths.
SelectivityRatio(n, rows) ==
    IF rows <= 0 THEN Unknown ELSE Min({IF n < 0 THEN -n ELSE (10 * n) \div rows, 10})

HighSelectivityColumns ==
    {c \in ColumnsWithoutIndex :
        LET ratio == SelectivityRatio(distinct[c], stats[ColumnDef[c].table].rows) IN ratio # Unknown /\ ratio >= 9}

\* The queries in the order the category runs them: check_unused_indexes is
\* the first four, each later check is one.
Queries == <<"unused", "fk", "seq", "order", "gin", "selective", "redundant", "range", "writes", "partial">>
UnusedIndexesCheck == {"unused", "fk", "seq", "order"}

\* It is q's turn: the queries before it have run, those from it on have not.
Turn(q) ==
    \E n \in DOMAIN Queries :
        Queries[n] = q /\ \A k \in DOMAIN Queries : found[Queries[k]] = NotAsked <=> k >= n
Return(q, subjects) == found' = [found EXCEPT ![q] = subjects]
Query(q, subjects) == Turn(q) /\ Return(q, subjects) /\ UNCHANGED <<catalog, still, events>>

\* check_unused_indexes keeps its findings in one list: an exception in the
\* last part takes the first three with it.
RaiseUnused == found' = [q \in DOMAIN found |-> IF q \in UnusedIndexesCheck THEN Failed ELSE found[q]]
\* The query of a view whose library is not loaded, for at least one row.
Unreadable(rows) == pgss = "created" /\ rows # {}
\* columns[1] when the join left one column.
IndexError(rows) == \E i \in rows : Len(IndexColumns(i)) < 2

FindOrderMismatches ==
    /\ Turn("order")
    /\ IF pgss # "absent" /\ (Unreadable(CompositeIndexes) \/ IndexError(CompositeIndexes))
       THEN RaiseUnused
       ELSE Return("order", IF pgss = "absent" THEN {} ELSE {i \in CompositeIndexes : SecondNotLeading(i) # {}})
    /\ UNCHANGED <<catalog, still, events>>

CheckUnusedIndexes ==
    \/ Query("unused", UnusedIndexes)
    \/ Query("fk", UnindexedForeignKeys)
    \/ Query("seq", SeqScanHeavyTables)
    \/ FindOrderMismatches

CheckGinUsage == Query("gin", JsonbColumnsWithoutGin)
CheckHighSelectivity == Query("selective", HighSelectivityColumns)
CheckRedundantIndexes == Query("redundant", IndexesSharingLeadingColumn)
CheckUnpromotedJsonbRangeQueries ==
    Query("range", IF pgss = "absent" THEN {}
                   ELSE IF Unreadable(JsonbColumns) THEN Failed
                   ELSE {c \in JsonbColumns : RangeQueries(c) # {}})
CheckWriteAmplification == Query("writes", HighWriteTablesWithManyIndexes)
CheckPartialIndexes == Query("partial", NonPartialIndexesOnFlagColumns)

-----------------------------------------------------------------------------
(* The DBA and the workload.                                               *)

CatalogChange ==
    /\ events < MaxEvents /\ events' = events + 1
    /\ still' = (\A q \in DOMAIN found : found[q] = NotAsked)
    /\ UNCHANGED found

\* Building an index reads its table sequentially, and that counts: once, or
\* once per parallel worker, and again to validate one built concurrently.
CreateIndex(i) ==
    /\ i \notin indexes /\ indexes' = indexes \cup {i}
    /\ \E n \in 1..BuildScans : stats' = [stats EXCEPT ![IndexDef[i].table].seq = @ + n]
    /\ CatalogChange /\ UNCHANGED <<scans, distinct, pgss, seen>>

DropIndex(i) ==
    /\ i \in indexes /\ indexes' = indexes \ {i} /\ scans' = [scans EXCEPT ![i] = 0]
    /\ CatalogChange /\ UNCHANGED <<stats, distinct, pgss, seen>>

ScanIndex(i) ==
    /\ i \in indexes /\ scans' = [scans EXCEPT ![i] = @ + 1]
    /\ CatalogChange /\ UNCHANGED <<indexes, stats, distinct, pgss, seen>>

ScanTable(t) ==
    /\ stats' = [stats EXCEPT ![t].seq = @ + 1]
    /\ CatalogChange /\ UNCHANGED <<indexes, scans, distinct, pgss, seen>>

\* An insert, an update (which leaves a dead version behind) or a delete.
Write(t) ==
    /\ \E more \in {-1, 0, 1} :
          /\ stats[t].rows + more >= 0 /\ (more = 0 => stats[t].rows > 0)
          /\ stats' = [stats EXCEPT ![t] =
                [bytes |-> @.bytes + (IF more < 0 THEN 0 ELSE 1), rows |-> @.rows + more,
                 writes |-> @.writes + 1, seq |-> @.seq]]
    /\ CatalogChange /\ UNCHANGED <<indexes, scans, distinct, pgss, seen>>

Analyze(c) ==
    /\ \E n \in Estimates : distinct' = [distinct EXCEPT ![c] = n]
    /\ CatalogChange /\ UNCHANGED <<indexes, scans, stats, pgss, seen>>

RunStatement(s) ==
    /\ pgss = "loaded" /\ seen' = seen \cup {s}
    /\ CatalogChange /\ UNCHANGED <<indexes, scans, stats, distinct, pgss>>

CatalogClient ==
    \/ \E i \in IndexUniverse : CreateIndex(i) \/ DropIndex(i) \/ ScanIndex(i)
    \/ \E t \in Tables : ScanTable(t) \/ Write(t)
    \/ \E c \in Columns : Analyze(c)
    \/ \E s \in Statements : RunStatement(s)

IndexingOver == (\A q \in DOMAIN found : found[q] # NotAsked) /\ UNCHANGED indexingVars

-----------------------------------------------------------------------------
IndexingInit ==
    /\ indexes \in Starts
    /\ scans = [i \in IndexUniverse |-> 0]
    /\ \E past \in Pasts : stats = [t \in Tables |-> past]
    /\ distinct = [c \in Columns |-> Unknown]
    /\ pgss \in {"absent", "created", "loaded"} /\ seen = {}
    /\ found = [q \in ToSet(Queries) |-> NotAsked]
    /\ still = TRUE /\ events = 0

IndexingNext ==
    \/ CheckUnusedIndexes \/ CheckGinUsage \/ CheckHighSelectivity \/ CheckRedundantIndexes
    \/ CheckUnpromotedJsonbRangeQueries \/ CheckWriteAmplification \/ CheckPartialIndexes
    \/ CatalogClient \/ IndexingOver

IndexingSpec == IndexingInit /\ [][IndexingNext]_indexingVars

-----------------------------------------------------------------------------
Answered(q) == found[q] \notin {NotAsked, Failed}

\* Every variable has its type; the four parts of check_unused_indexes have
\* findings to show only together.
IndexingTypeOK ==
    /\ indexes \subseteq IndexUniverse /\ scans \in [IndexUniverse -> 0..MaxEvents]
    /\ \A i \in IndexUniverse \ indexes : scans[i] = 0
    /\ stats \in [Tables -> TableStats]
    /\ distinct \in [Columns -> Estimates \cup {Unknown}]
    /\ seen \subseteq Statements /\ (seen # {} => pgss = "loaded")
    /\ DOMAIN found = ToSet(Queries) /\ events \in 0..MaxEvents
    /\ \A q, p \in UnusedIndexesCheck : found[q] = Failed => found[p] = Failed

\* In a database that holds still, no two checks of one report contradict each
\* other about a column: one said to have no index is not at the same time
\* said to lead an overlapping, a mismatched or a non-partial index, and a
\* foreign key said to have no index at all is also reported as unindexed.  The
\* overlapping ones are told by the table's name without its schema, so that
\* they contradict nothing only where that name is unique.
MissingIsNotPresent ==
    \A c \in Columns :
        LET missing == (Answered("fk") /\ c \in found["fk"]) \/ (Answered("selective") /\ c \in found["selective"])
            alone == \A t \in Tables : Relname[t] = Relname[ColumnDef[c].table] => t = ColumnDef[c].table
        IN still /\ alone =>
             /\ missing /\ Answered("redundant") =>
                   ~\E g \in found["redundant"] : \E i \in g :
                       LeadingColumn(i) = <<Relname[ColumnDef[c].table], ColumnDef[c].name>>
             /\ missing /\ Answered("order") => ~\E i \in found["order"] : Leads(i, c)
             /\ missing /\ Answered("partial") => ~\E i \in found["partial"] : Leads(i, c)
             /\ ColumnDef[c].fk /\ Answered("fk") /\ Answered("selective") /\ c \in found["selective"] => c \in found["fk"]

\* The scans of one index's building would be enough to have the table reported.
NearlySeqScanHeavy(t) ==
    /\ stats[t].bytes >= MinTableBytes
    /\ stats[t].seq + BuildScans >= MinSeqScanCount /\ stats[t].seq + BuildScans > idx_scan(t)

\* Advice backfires only as far as its own work shows.  A new index takes
\* findings about missing indexes away and never makes one appear; what it makes
\* appear is about itself or its table.  Its building is itself a sequential scan
\* that the next audit reads, so that its table, and no other, may become
\* sequential-scan-heavy by it, if it was nearly so already.  Dropping an index
\* the report calls unused does not make its table sequential-scan-heavy, for it
\* takes no index scans out of the table's count.
AdviceIsSafe ==
    [][\A i \in IndexUniverse :
        /\ i \in UnusedIndexes /\ DropIndex(i) => SeqScanHeavyTables' = SeqScanHeavyTables
        /\ CreateIndex(i) =>
            /\ UnindexedForeignKeys' = UnindexedForeignKeys \ {c \in Columns : Leads(i, c)}
            /\ HighSelectivityColumns' \subseteq HighSelectivityColumns
            /\ JsonbColumnsWithoutGin' \subseteq JsonbColumnsWithoutGin
            /\ SeqScanHeavyTables \subseteq SeqScanHeavyTables'
            /\ \A t \in SeqScanHeavyTables' \ SeqScanHeavyTables : t = IndexDef[i].table /\ NearlySeqScanHeavy(t)
            /\ UnusedIndexes' \ UnusedIndexes \subseteq {i}
            /\ HighWriteTablesWithManyIndexes' \ HighWriteTablesWithManyIndexes \subseteq {IndexDef[i].table}
            /\ \A g \in IndexesSharingLeadingColumn' \ IndexesSharingLeadingColumn : i \in g]_indexingVars

-----------------------------------------------------------------------------
(* What the docs say and the code does not do: none of these holds.        *)

\* queries.py:164: the order-mismatch query returns "Composite (2+ column)
\* indexes only", so that the check can read two columns of each.
CompositeHasTwoColumns == found["order"] = Failed => pgss = "created"

\* queries.py:164: "a single-column index has no "order" to mismatch".
OrderNeedsTwoKeys == Answered("order") => \A i \in found["order"] : Len(IndexDef[i].keys) >= 2

\* queries.py:96: the redundant-index query "Groups indexes on the same table".
GroupsAreOfOneTable ==
    Answered("redundant") => \A g \in found["redundant"] : \A i, j \in g : IndexDef[i].table = IndexDef[j].table

\* queries.py:49: "More indexes than this on one table" are a concern.
MoreIndexesThanThis ==
    still /\ Answered("writes") => \A t \in found["writes"] : Cardinality(On(t)) > MinIndexCount
=============================================================================
