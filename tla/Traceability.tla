---------------------------- MODULE Traceability ----------------------------
(***************************************************************************)
(* The Lot & Certification Traceability category                           *)
(* (categories/lot_and_certification_traceability).  Its findings name     *)
(* lots: two checks list candidate columns in one query and read each      *)
(* column's rows in a query of its own, at most LotLimit of them.          *)
(***************************************************************************)
EXTENDS Integers, Sequences, FiniteSets, SequencesExt

CONSTANTS
    TraceDef,       \* [Columns -> [table, lot, cert, jsonb]]: what a column's name and type tell
    CertTables,     \* the tables whose name speaks of certificates
    MatViews,       \* materialized views: pg_stats knows them, information_schema does not
    TraceStarts, Inserts,   \* rows the client may insert: [columns of a table -> values or Null]
    Null, Unknown,  \* no value; no statistics
    LotLimit,       \* LOT_SAMPLE_LIMIT
    MinLotRows,     \* MIN_LIVE_ROWS_FOR_STATS
    Pending, Raised, MaxChanges

\* A database: its columns and their tables' rows, live-row counters and null
\* statistics; the columns with a foreign key; the tables the role has more
\* than SELECT on; the columns with a unique index of their own, and those of
\* them whose index was never completed; CHECK constraints and triggers.
VARIABLES database, check, todo, partial, found, past, changes

Columns == DOMAIN TraceDef
Table(c) == TraceDef[c].table

\* A schema has finitely many columns, and pairs of columns.
FiniteColumns == IsFiniteSet(Columns) /\ IsFiniteSet(Columns \X Columns)

\* The columns in information_schema.columns.
Known(db) == {c \in db.columns : Table(c) \notin MatViews}
LotShaped(columns) == {c \in columns : TraceDef[c].lot}
CertShaped(columns) == {c \in columns : TraceDef[c].cert}

\* The lots a column holds, and the columns whose unique index allows each once.
\* An invalid index keeps nothing unique; nor does a partial one, which reads the same.
Occurrences(l, v, db) == Cardinality({i \in DOMAIN db.rows[Table(l)] : db.rows[Table(l)][i][l] = v})
Lots(l, db) == {db.rows[Table(l)][i][l] : i \in DOMAIN db.rows[Table(l)]} \ {Null}
Repeated(l, db) == {v \in Lots(l, db) : Occurrences(l, v, db) > 1}
Enforced(db) == db.unique \ db.invalid

\* A table's rows, and what is known of each database: a lot column's table has
\* some, each with a value or none for all its columns.
RowsOf(t) == [{c \in Columns : Table(c) = t} -> Int \cup {Null}]
IsDatabase(db) ==
    /\ {"columns", "rows", "foreign", "unique", "invalid"} \subseteq DOMAIN db
    /\ db.columns \subseteq Columns
    /\ \A t \in DOMAIN db.rows : db.rows[t] \in Seq(RowsOf(t))
    /\ \A l \in LotShaped(Columns) : Table(l) \in DOMAIN db.rows /\ (l \in Enforced(db) => Repeated(l, db) = {})

\* Mutation: only the columns' names are looked at.
ColumnSignal(db) == \E c \in Known(db) : TraceDef[c].lot

HasSignal(db) == \E c \in Known(db) : TraceDef[c].lot \/ TraceDef[c].cert \/ Table(c) \in CertTables

-----------------------------------------------------------------------------
\* A tenth of the rows, by the last ANALYZE, have no lot.
PoorlyPopulated(db) ==
    {<<"null", c>> : c \in
        {d \in LotShaped(db.columns) :
            /\ db.nulls[d] # Unknown /\ db.live[Table(d)] >= MinLotRows
            /\ 10 * db.nulls[d].nulls >= db.nulls[d].rows}}

\* Every lot column with every certificate column of its table that has no
\* foreign key information_schema shows to this role.
UnconstrainedLinks(db) ==
    {<<"link", p[1], p[2]>> : p \in
        {q \in LotShaped(Known(db)) \X CertShaped(Known(db)) :
            Table(q[1]) = Table(q[2]) /\ ~(q[2] \in db.foreign /\ Table(q[2]) \in db.privileged)}}

\* ORDER BY two columns: the smaller of the first comes first, and of equal ones
\* the smaller of the second.
Precedes(p, q) == p[1] < q[1] \/ (p[1] = q[1] /\ p[2] < q[2])
OrderBy(pairs) ==
    [n \in 1..Cardinality(pairs) |-> CHOOSE p \in pairs : Cardinality({q \in pairs : Precedes(q, p)}) = n - 1]

First(n, s) == SubSeq(s, 1, IF Len(s) < n THEN Len(s) ELSE n)

\* Mutation: rows without a lot are counted as well.
UnlinkedCertificationAll(l, k, db) ==
    LET rows == db.rows[Table(l)]
        unlinked == {i \in DOMAIN rows : rows[i][k] = Null}
        lots == OrderBy({<<rows[i][l], i>> : i \in {j \in unlinked : rows[j][l] # Null}})
        listed == First(LotLimit, lots)
    IN  IF lots = <<>> THEN {} ELSE {<<"unlinked", l, k, Cardinality(unlinked), [n \in DOMAIN listed |-> listed[n][1]]>>}

\* COUNT(*) OVER () counts the rows the WHERE lets through, before the LIMIT.
UnlinkedCertification(l, k, db) ==
    LET rows == db.rows[Table(l)]
        unlinked == {<<rows[i][l], i>> : i \in {j \in DOMAIN rows : rows[j][k] = Null /\ rows[j][l] # Null}}
        listed == First(LotLimit, OrderBy(unlinked))
    IN  IF unlinked = {} THEN {}
        ELSE {<<"unlinked", l, k, Cardinality(unlinked), [n \in DOMAIN listed |-> listed[n][1]]>>}

\* A unique index counts whether or not its rows were ever checked.
WithoutUnique(db) == {<<"lot", l>> : l \in LotShaped(Known(db)) \ db.unique}

\* The most frequent first, and of equally frequent ones the smaller lots.
DuplicateLots(l, db) ==
    LET repeated == {<<-Occurrences(l, v, db), v>> : v \in {w \in Lots(l, db) : Occurrences(l, w, db) > 1}}
        listed == First(LotLimit, OrderBy(repeated))
    IN  IF repeated = {} THEN {}
        ELSE {<<"duplicates", l, [n \in DOMAIN listed |-> <<listed[n][2], -listed[n][1]>>]>>}

UngovernedCertificates(db) ==
    {<<"ungoverned", c>> : c \in
        {d \in CertShaped(Known(db)) : TraceDef[d].jsonb /\ d \notin db.checks /\ Table(d) \notin db.triggers}}

-----------------------------------------------------------------------------
Checks == <<"lot-columns-poorly-populated", "orphaned-lot-certification-links", "duplicate-lot-numbers",
            "ungoverned-certification-data">>

Applicable(db) == HasSignal(db)

Queries(slug, db) ==
    CASE slug = "orphaned-lot-certification-links" -> SetToSeq(UnconstrainedLinks(db))
      [] slug = "duplicate-lot-numbers" -> SetToSeq(WithoutUnique(db))
      [] OTHER -> <<<<slug>>>>

\* A column dropped since the listing makes its query raise.
Answers(slug, query, db) ==
    {CASE query[1] = "lot-columns-poorly-populated" -> PoorlyPopulated(db)
       [] query[1] = "ungoverned-certification-data" -> UngovernedCertificates(db)
       [] query[1] \in {"link", "lot"} /\ ~(ToSet(Tail(query)) \subseteq db.columns) -> Raised
       [] query[1] = "link" /\ ToSet(Tail(query)) \subseteq db.columns ->
              UnlinkedCertification(query[2], query[3], db)
       [] query[1] = "lot" /\ ToSet(Tail(query)) \subseteq db.columns -> DuplicateLots(query[2], db)}

-----------------------------------------------------------------------------
(* The client: a row is inserted, all of a column is dropped, a foreign    *)
(* key is declared.                                                        *)

Insert(t, row, db) ==
    IF \E l \in Enforced(db) : Table(l) = t /\ row[l] \in Lots(l, db) THEN {}
    ELSE {[db EXCEPT !.rows[t] = Append(@, row)]}
Inserted(db) == UNION {UNION {Insert(t, row, db) : row \in Inserts[t]} : t \in DOMAIN Inserts}
Changed(db) ==
    Inserted(db)
    \cup {[db EXCEPT !.columns = @ \ {c}, !.foreign = @ \ {c}, !.unique = @ \ {c}] : c \in Known(db)}
    \cup {[db EXCEPT !.foreign = @ \cup {c}] : c \in CertShaped(Known(db))}

INSTANCE CategoryChecks WITH Starts <- TraceStarts

-----------------------------------------------------------------------------
UnlinkedRows(l, k, db) ==
    {i \in DOMAIN db.rows[Table(l)] : db.rows[Table(l)][i][k] = Null /\ db.rows[Table(l)][i][l] # Null}
Shown(n) == IF n < LotLimit THEN n ELSE LotLimit

\* What a finding names was so at one moment, although a column is listed before
\* its rows are read and both are changed: the total is that of the unlinked
\* rows with a lot, the lots shown are of such rows and as many as the limit
\* lets through, a duplicate has its count and none left out is more frequent.
\* What is there all the time and not reported has a declared key, or an index
\* that claims to be unique.
LotsAreNamedHonestly ==
    /\ Told("orphaned-lot-certification-links") =>
          LET findings == found["orphaned-lot-certification-links"] IN
          /\ \A f \in findings : \E db \in Moments :
                LET rows == UnlinkedRows(f[2], f[3], db) IN
                /\ f[4] = Cardinality(rows) /\ Len(f[5]) = Shown(Cardinality(rows))
                /\ \A v \in ToSet(f[5]) : \E i \in rows : db.rows[Table(f[2])][i][f[2]] = v
          /\ \A l \in LotShaped(Columns), k \in CertShaped(Columns) :
                Table(l) = Table(k) /\ (\A db \in Moments : {l, k} \subseteq Known(db) /\ k \notin db.foreign
                                                          /\ UnlinkedRows(l, k, db) # {})
                => \E f \in findings : f[2] = l /\ f[3] = k
    /\ Told("duplicate-lot-numbers") =>
          LET findings == found["duplicate-lot-numbers"] IN
          /\ \A f \in findings : \E db \in Moments :
                /\ Len(f[3]) = Shown(Cardinality(Repeated(f[2], db)))
                /\ \A n \in DOMAIN f[3] :
                      f[3][n][1] \in Repeated(f[2], db) /\ f[3][n][2] = Occurrences(f[2], f[3][n][1], db)
                /\ \A v \in Repeated(f[2], db), n \in DOMAIN f[3] :
                      Occurrences(f[2], v, db) > f[3][n][2] => \E m \in 1..n : f[3][m][1] = v
          /\ \A l \in LotShaped(Columns) :
                (\A db \in Moments : l \in Known(db) \ db.invalid /\ Repeated(l, db) # {})
                => \E f \in findings : f[2] = l

\* A category that was skipped would have found nothing, whichever of its
\* checks had been run, except in a materialized view, which only its first
\* check can see.
SkippedIsEmpty ==
    Skipped =>
        \A slug \in Slugs : \A query \in ToSet(Queries(slug, database)) :
            \A answer \in Answers(slug, query, database) : \A f \in answer : Table(f[2]) \in MatViews

-----------------------------------------------------------------------------
(* What the docs say and the code does not do: none of these holds.        *)

\* checks.py:7: the lots named come "with a total count when truncated".
DuplicatesAreCounted ==
    Steady /\ Told("duplicate-lot-numbers") =>
        \A f \in found["duplicate-lot-numbers"] : Len(f[3]) = Cardinality(Repeated(f[2], database))

\* queries.py:177-180: a row with neither lot nor certificate is left out because
\* check_lot_columns_poorly_populated "already covers that row".
NullLotsAreCovered ==
    Steady /\ Told("orphaned-lot-certification-links") =>
        \A l \in LotShaped(Known(database)), k \in CertShaped(Known(database)) :
            (\E i \in DOMAIN database.rows[Table(l)] :
                Table(k) = Table(l) /\ database.rows[Table(l)][i][l] = Null /\ database.rows[Table(l)][i][k] = Null)
            => <<"null", l>> \in found["lot-columns-poorly-populated"]

\* checks.py:37: the category is skipped when the schema "shows no sign" of lots.
SkippedShowsNoSign == Skipped => LotShaped(database.columns) = {}
=============================================================================
