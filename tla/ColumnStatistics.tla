-------------------------- MODULE ColumnStatistics --------------------------
(***************************************************************************)
(* The checks of the Data Quality & Integrity category that read the       *)
(* planner's statistics (categories/data_quality_and_integrity, 06.01 and  *)
(* 06.04-06.08), over tables the client goes on loading, ANALYZE goes on   *)
(* sampling and a DBA goes on fixing: each query sees the catalog as it is *)
(* when it runs, and the statistics as the last ANALYZE left them: what a  *)
(* sample of the rows showed, of a table larger than the sample.           *)
(***************************************************************************)
EXTENDS Integers, Sequences, FiniteSets, Functions

CONSTANTS
    ColumnDef,  \* [Columns -> [table, text, status, audit, key, lookup, mentions]]
    Sizes,      \* the numbers of rows a table may be loaded with
    Shapes,     \* records [nulls, distinct]: what a column of a load may hold
    SampleSize, \* the rows ANALYZE samples: 300 for each step of the statistics target
    SampleShapes, \* records [nulls, distinct, once]: what a column of a sample may show (a bound)
    Unknown,    \* never analyzed
    Pending,    \* this check has not run
    MinRows,    \* MIN_LIVE_ROWS_FOR_STATS
    MaxDistinct,\* MAX_DISTINCT_VALUES_FOR_ENUM_LIKE
    MaxChanges  \* how often the client, ANALYZE and the DBA act

\* A column's definition says whether it is text, shaped like a status flag,
\* named like an audit timestamp, in the primary key, a lookup-table foreign
\* key, and which columns' names occur in a CHECK constraint on it.
Columns == DOMAIN ColumnDef
Tables == {ColumnDef[c].table : c \in Columns}
OwnNames == \A c \in Columns : c \in ColumnDef[c].mentions

VARIABLES
    rows,       \* [Tables -> Nat]: n_live_tup
    data,       \* [Columns -> Shapes]
    stats,      \* [Columns -> [rows, sampled, nulls, distinct] as analyzed, or Unknown]
    notNull, unique, default, check,    \* the columns that have such a constraint of their own
    found,      \* [Checks -> set of columns, or Pending]
    steady,     \* (history) nothing has changed since the first check
    changes

catalog == <<rows, data, stats, notNull, unique, default, check>>
vars == <<rows, data, stats, notNull, unique, default, check, found, steady, changes>>

-----------------------------------------------------------------------------
(* The queries and the checks.                                             *)

Live(c) == rows[ColumnDef[c].table]
\* The columns pg_stats knows, of tables with enough rows.  Its null_frac is
\* that of the sample, its n_distinct an estimate for all rows.
Assessable == {c \in Columns : stats[c] # Unknown /\ Live(c) >= MinRows}

HighNullPercent == 50
NearZeroNullPercent == 1
NearUniquePercent == 98

\* pg_stats.n_distinct: above a tenth of the rows ANALYZE stores a (negative)
\* fraction, otherwise a count.
IsFraction(st) == 10 * st.distinct > st.rows

NullableColumns == Assessable \ notNull
HighNull == {c \in NullableColumns : 100 * stats[c].nulls >= HighNullPercent * stats[c].sampled}
NeverNull == {c \in NullableColumns : 100 * stats[c].nulls <= NearZeroNullPercent * stats[c].sampled}

\* Mutation: n_distinct taken for a count whatever its sign.
DistinctCountReaches(c, percent) ==
    ~IsFraction(stats[c]) /\ 100 * stats[c].distinct >= percent * Live(c)

\* _distinct_ratio: a fraction of the analyzed rows, or a count over the live ones.
DistinctRatioReaches(c, percent) ==
    100 * stats[c].distinct >= percent * (IF IsFraction(stats[c]) THEN stats[c].rows ELSE Live(c))

NearUnique == {c \in Assessable \ unique : DistinctRatioReaches(c, NearUniquePercent)}

AuditTimestamps == {c \in Assessable : ColumnDef[c].audit /\ stats[c].nulls > 0}

\* Mutation: no look at the CHECK constraints.
LowCardinalityUnchecked ==
    {c \in Assessable : /\ ColumnDef[c].text /\ ~ColumnDef[c].lookup
                        /\ ~IsFraction(stats[c]) /\ stats[c].distinct \in 1..MaxDistinct}

\* pg_get_constraintdef(con.oid) ILIKE '%name%': any CHECK of the table whose
\* text has the column's name in it.
Checked(c) == \E d \in check : ColumnDef[d].table = ColumnDef[c].table /\ c \in ColumnDef[d].mentions

LowCardinality ==
    {c \in Assessable : /\ ColumnDef[c].text /\ ~ColumnDef[c].lookup /\ ~Checked(c)
                        /\ ~IsFraction(stats[c]) /\ stats[c].distinct \in 1..MaxDistinct}

MissingDefault == {c \in notNull \ default : ColumnDef[c].status /\ ~ColumnDef[c].key}

Checks == <<"high-null", "near-unique", "never-null", "audit-timestamps", "low-cardinality", "missing-default">>

Check(slug, columns) ==
    /\ \E n \in DOMAIN Checks :
          Checks[n] = slug /\ \A k \in DOMAIN Checks : found[Checks[k]] = Pending <=> k >= n
    /\ found' = [found EXCEPT ![slug] = columns]
    /\ UNCHANGED <<catalog, steady, changes>>

CheckHighNullFraction == Check("high-null", HighNull)
CheckNearUnique == Check("near-unique", NearUnique)
CheckNeverNull == Check("never-null", NeverNull)
CheckAuditTimestamps == Check("audit-timestamps", AuditTimestamps)
CheckLowCardinality == Check("low-cardinality", LowCardinality)
CheckMissingDefault == Check("missing-default", MissingDefault)

-----------------------------------------------------------------------------
(* The client, autovacuum and the DBA.                                     *)

Change ==
    /\ changes < MaxChanges /\ changes' = changes + 1
    /\ steady' = (\A slug \in DOMAIN found : found[slug] = Pending)
    /\ UNCHANGED found

Holds(shape, n) ==
    shape.nulls + shape.distinct <= n /\ (shape.nulls < n => shape.distinct > 0)
Allowed(c, shape, n) ==
    /\ Holds(shape, n)
    /\ c \in notNull => shape.nulls = 0
    /\ c \in unique => shape.distinct = n - shape.nulls

\* The table's contents become others, as the constraints allow.
Load(t) ==
    /\ \E n \in Sizes :
          \E shapes \in [{c \in Columns : ColumnDef[c].table = t} -> Shapes] :
              /\ \A c \in DOMAIN shapes : Allowed(c, shapes[c], n)
              /\ rows' = [rows EXCEPT ![t] = n]
              /\ data' = [c \in Columns |-> IF c \in DOMAIN shapes THEN shapes[c] ELSE data[c]]
    /\ Change /\ UNCHANGED <<stats, notNull, unique, default, check>>

\* A sample of n rows' column may show so many nulls and values, and so many of
\* the values once.
MayShow(sample, held, n) ==
    LET filled == SampleSize - sample.nulls IN
    /\ 0 <= filled /\ filled <= n - held.nulls /\ sample.nulls <= held.nulls
    /\ sample.distinct <= held.distinct /\ held.distinct - sample.distinct <= (n - held.nulls) - filled
    /\ sample.distinct = 0 <=> filled = 0
    /\ sample.once <= sample.distinct /\ 2 * (sample.distinct - sample.once) <= filled - sample.once
    /\ sample.once = sample.distinct => sample.once = filled

\* ANALYZE's estimate of the values of all n rows: the sample's own if it shows
\* each again, a fraction of the rows if none.
Estimated(sample, n) ==
    LET filled == SampleSize - sample.nulls
        weight == (filled - sample.once) * n + sample.once * SampleSize IN
    IF filled = 0 THEN 0 ELSE (filled * sample.distinct * n) \div weight

\* The statistics ANALYZE may leave of a column: what it holds if all rows are
\* in the sample, otherwise what a sample may show.
Drawn(c) ==
    LET n == Live(c) IN
    IF n <= SampleSize
    THEN {[rows |-> n, sampled |-> n, nulls |-> data[c].nulls, distinct |-> data[c].distinct]}
    ELSE {[rows |-> n, sampled |-> SampleSize, nulls |-> sample.nulls, distinct |-> Estimated(sample, n)] :
             sample \in {sample \in SampleShapes : MayShow(sample, data[c], n)}}

\* ANALYZE, by hand or by autovacuum; an empty table leaves no statistics.
Analyze(t) ==
    LET columns == {c \in Columns : ColumnDef[c].table = t} IN
    /\ rows[t] > 0
    /\ \E drawn \in [columns -> UNION {Drawn(c) : c \in columns}] :
          /\ \A c \in columns : drawn[c] \in Drawn(c)
          /\ stats' = [c \in Columns |-> IF c \in columns THEN drawn[c] ELSE stats[c]]
    /\ Change /\ UNCHANGED <<rows, data, notNull, unique, default, check>>

SetNotNull(c) ==
    /\ c \notin notNull /\ data[c].nulls = 0 /\ notNull' = notNull \cup {c}
    /\ Change /\ UNCHANGED <<rows, data, stats, unique, default, check>>
AddUnique(c) ==
    /\ c \notin unique /\ data[c].distinct = Live(c) - data[c].nulls /\ unique' = unique \cup {c}
    /\ Change /\ UNCHANGED <<rows, data, stats, notNull, default, check>>
AddDefault(c) ==
    /\ c \notin default /\ default' = default \cup {c}
    /\ Change /\ UNCHANGED <<rows, data, stats, notNull, unique, check>>
AddCheck(c) ==
    /\ c \notin check /\ check' = check \cup {c}
    /\ Change /\ UNCHANGED <<rows, data, stats, notNull, unique, default>>

Client ==
    \/ \E t \in Tables : Load(t) \/ Analyze(t)
    \/ \E c \in Columns : SetNotNull(c) \/ AddUnique(c) \/ AddDefault(c) \/ AddCheck(c)

Over == (\A slug \in DOMAIN found : found[slug] # Pending) /\ UNCHANGED vars

-----------------------------------------------------------------------------
InitCatalog ==
    /\ rows = [t \in Tables |-> 0] /\ data = [c \in Columns |-> [nulls |-> 0, distinct |-> 0]]
    /\ stats = [c \in Columns |-> Unknown]
    /\ notNull = {c \in Columns : ColumnDef[c].key} /\ unique = notNull
    /\ default = {} /\ check = {}

Init ==
    /\ InitCatalog
    /\ found = [slug \in Range(Checks) |-> Pending]
    /\ steady = TRUE /\ changes = 0

Next ==
    \/ CheckHighNullFraction \/ CheckNearUnique \/ CheckNeverNull \/ CheckAuditTimestamps
    \/ CheckLowCardinality \/ CheckMissingDefault
    \/ Client \/ Over

Spec == Init /\ [][Next]_vars

-----------------------------------------------------------------------------
Reported(slug, c) == found[slug] # Pending /\ c \in found[slug]
\* The statistics are what ANALYZE may have drawn from the rows there still are.
Fresh(c) == steady /\ stats[c] \in Drawn(c) /\ Live(c) >= MinRows

\* Every variable has its type and the contents obey their constraints; the
\* checks answer in order.
TypeOK ==
    /\ rows \in [Tables -> Sizes \cup {0}] /\ \A c \in Columns : Holds(data[c], Live(c))
    /\ \A c \in Columns : stats[c] # Unknown =>
          /\ stats[c].sampled = IF stats[c].rows <= SampleSize THEN stats[c].rows ELSE SampleSize
          /\ stats[c].nulls <= stats[c].sampled /\ stats[c].distinct <= stats[c].rows
    /\ \A c \in Columns : (c \in notNull => data[c].nulls = 0) /\ (c \in unique => data[c].distinct = Live(c) - data[c].nulls)
    /\ default \cup check \subseteq Columns /\ changes \in 0..MaxChanges
    /\ \A j, k \in DOMAIN Checks : j <= k /\ found[Checks[j]] = Pending => found[Checks[k]] = Pending

\* What is told of columns whose statistics are fresh.  Of a table that fits in
\* ANALYZE's sample it is exactly what is so of the rows, although the checks
\* see only the statistics, whose two sign conventions they have to resolve.  Of
\* a larger table it is what a sample showed, and of the rows only what no
\* sample can make up or miss: a timestamp told to have nulls has some, a column
\* told to be mostly null has nulls for half a sample, and a column with no null,
\* with nothing else, or with no value twice, is told.
FreshStatisticsTellTheTruth ==
    \A c \in Columns :
        LET held == data[c] IN
        Fresh(c) =>
            /\ Live(c) <= SampleSize =>
                  /\ found["high-null"] # Pending =>
                        (c \in found["high-null"] <=> c \notin notNull /\ 2 * held.nulls >= Live(c))
                  /\ found["never-null"] # Pending =>
                        (c \in found["never-null"] <=> c \notin notNull /\ 100 * held.nulls <= Live(c))
                  /\ found["near-unique"] # Pending =>
                        (c \in found["near-unique"] <=> c \notin unique /\ 100 * held.distinct >= 98 * Live(c))
                  /\ Reported("low-cardinality", c) => held.distinct <= MaxDistinct
            /\ Reported("audit-timestamps", c) => held.nulls > 0
            /\ Reported("high-null", c) =>
                  c \notin notNull /\ (2 * held.nulls >= SampleSize \/ 2 * held.nulls >= Live(c))
            /\ Reported("low-cardinality", c) => c \notin check
            /\ found["never-null"] # Pending /\ held.nulls = 0 => c \in found["never-null"] \cup notNull
            /\ found["high-null"] # Pending /\ held.nulls = Live(c) => c \in found["high-null"] \cup notNull
            /\ found["near-unique"] # Pending /\ held.distinct = Live(c) => c \in found["near-unique"] \cup unique

\* A DBA who does what a finding recommends is rid of it, and nothing else
\* turns up, with one exception: NOT NULL on a status flag makes its default
\* wanted, which ADD DEFAULT then settles.
FixesSettled ==
    \A c \in Columns :
        /\ SetNotNull(c) => /\ HighNull' = HighNull \ {c} /\ NeverNull' = NeverNull \ {c}
                            /\ NearUnique' = NearUnique /\ LowCardinality' = LowCardinality
                            /\ MissingDefault' \ MissingDefault \subseteq {c} \ default
        /\ AddUnique(c) => NearUnique' = NearUnique \ {c} /\ NeverNull' = NeverNull
        /\ AddDefault(c) => MissingDefault' = MissingDefault \ {c} /\ NeverNull' = NeverNull
        /\ AddCheck(c) => /\ c \notin LowCardinality' /\ LowCardinality' \subseteq LowCardinality
                          /\ NearUnique' = NearUnique

-----------------------------------------------------------------------------
(* What the docs say and the code does not do: none of these holds.        *)

\* queries.py:57: 06.01 and 06.05 are "opposite readings of the same underlying
\* data": no report has a column both as mostly null and as never null.
OppositeReadings == \A c \in Columns : ~(Reported("high-null", c) /\ Reported("never-null", c))

\* queries.py:180: a negative n_distinct is "the opposite of what an enum-like
\* column looks like", so none with fresh statistics of all rows goes unreported.
EnumLikeIsReported ==
    \A c \in Columns :
        /\ Fresh(c) /\ found["low-cardinality"] # Pending
        /\ ColumnDef[c].text /\ ~ColumnDef[c].lookup /\ check = {}
        /\ data[c].distinct \in 1..MaxDistinct /\ Live(c) <= SampleSize
        => c \in found["low-cardinality"]

\* queries.py:176: 06.07 is about "text with no CHECK": a
\* counted column without a CHECK of its own is reported.
UncheckedIsReported ==
    \A c \in Columns :
        /\ Fresh(c) /\ found["low-cardinality"] # Pending
        /\ ColumnDef[c].text /\ ~ColumnDef[c].lookup /\ c \notin check
        /\ ~IsFraction(stats[c]) /\ data[c].distinct \in 1..MaxDistinct /\ Live(c) <= SampleSize
        => c \in found["low-cardinality"]
=============================================================================
