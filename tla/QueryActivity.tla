---------------------------- MODULE QueryActivity ----------------------------
(***************************************************************************)
(* The categories Query Patterns & Application Interaction and Monitoring  *)
(* & Observability (categories/query_patterns_and_application_interaction, *)
(* categories/monitoring_and_observability), one after the other: both     *)
(* look at what the application is doing, in pg_stat_statements and in     *)
(* pg_stat_activity, and at who is watching.                               *)
(*                                                                         *)
(* Time is in minutes since the audit's transaction began, which is what   *)
(* now() is for all of the audit.                                          *)
(***************************************************************************)
EXTENDS Integers, Sequences, FiniteSets, Statements

CONSTANTS
    ActivityStarts,
    Never,              \* the time of a vacuum there has not been
    MinCalls,           \* _N_PLUS_ONE_CALL_THRESHOLD
    MaxCandidates,      \* that query's LIMIT
    LongIdle,           \* _LONG_IDLE_IN_TRANSACTION_THRESHOLD
    LongQuery,          \* LONG_RUNNING_QUERY_THRESHOLD
    Saturated,          \* connections at _HIGH_CONNECTION_SATURATION_RATIO of max_connections
    MinVacuumRows,      \* MIN_LIVE_ROWS_FOR_STATS
    Stale,              \* VACUUM_STALENESS_THRESHOLD
    Pending, Raised, MaxChanges

\* A database: pg_stat_statements and what it has recorded; the sessions of
\* others, as [pid, state, transaction, query]: how long ago the latter two
\* began; the server's background processes; the time; auto_explain and
\* log_min_duration_statement; what is counted of the tables.
VARIABLES database, check, todo, partial, found, past, changes

\* What is known of each of them.  A session has a process of its own.
IsDatabase(db) ==
    /\ {"extension", "preloaded", "statements", "sessions", "background", "monitor", "clock"} \subseteq DOMAIN db
    /\ DOMAIN db.statements \subseteq AllStatements
    /\ IsFiniteSet(db.sessions) /\ db.background \in Nat /\ db.clock \in Nat
    /\ \A s \in db.sessions : s.transaction \in Int /\ s.query \in Int
    /\ \A r, s \in db.sessions : r.pid = s.pid => r = s

\* What a finding about statements may be.
Findings ==
    ({"lookup"} \X AllStatements) \cup ({"paging"} \X SUBSET AllStatements) \cup {<<"not-assessed">>}

-----------------------------------------------------------------------------
(* pg_stat_statements.                                                     *)

\* Above so many calls, of a row and a half at most.
PointLookups(db) ==
    {s \in Containing({"WHERE"}, {"JOIN"}, db) :
        db.statements[s].calls > MinCalls /\ 2 * db.statements[s].rows <= 3 * db.statements[s].calls}

NPlusOneCandidates(db) ==
    {{<<"lookup", s>> : s \in top} : top \in Top(MaxCandidates, [s \in PointLookups(db) |-> db.statements[s].calls])}

OffsetPagination(db) ==
    LET paging == Containing({"OFFSET"}, {}, db) IN IF paging = {} THEN {} ELSE {<<"paging", paging>>}

-----------------------------------------------------------------------------
(* pg_stat_activity.  A role without pg_read_all_stats is shown that other *)
(* roles' sessions are there, but neither their state nor their times.     *)

StateOf(s, db) == IF db.monitor THEN s.state ELSE "null"

IdleInTransactionSessions(db) ==
    {<<"idle", s.pid, IF s.transaction > LongIdle THEN "high" ELSE "medium">> : s \in
        {r \in db.sessions : StateOf(r, db) = "idle in transaction"}}

LongRunningActiveQueries(db) ==
    {<<"active", s.pid, IF s.query >= 3 * LongQuery THEN "high" ELSE "medium">> : s \in
        {r \in db.sessions : StateOf(r, db) = "active" /\ r.query > LongQuery}}

\* Every row of pg_stat_activity: sessions, the audit's own, the server's processes.
ConnectionSaturation(db) ==
    IF Cardinality(db.sessions) + 1 + db.background >= Saturated THEN {<<"saturated">>} ELSE {}

-----------------------------------------------------------------------------
SlowQueryMonitoring(db) ==
    IF db.extension \/ db.autoExplain \/ db.logMinDuration THEN {} ELSE {<<"unmonitored">>}

StatementsInstalled(db) == IF IsAvailable(db) THEN {} ELSE {<<"not-installed">>}

LongAgo(when) == when = Never \/ when > Stale
BloatedWithoutRecentVacuum(db) ==
    {<<"unvacuumed", t>> : t \in
        {u \in DOMAIN db.tables :
            /\ db.tables[u].live >= MinVacuumRows /\ 5 * db.tables[u].dead >= db.tables[u].live
            /\ LongAgo(db.tables[u].vacuum) /\ LongAgo(db.tables[u].autovacuum)}}

-----------------------------------------------------------------------------
Checks == <<"n-plus-one-candidates", "offset-pagination", "idle-in-transaction-sessions", "slow-query-monitoring",
            "pg-stat-statements-installed", "connection-saturation", "bloated-tables-without-recent-vacuum">>
OfStatements == {"n-plus-one-candidates", "offset-pagination"}

Applicable(db) == TRUE

Queries(slug, db) ==
    CASE slug \in OfStatements -> IF IsAvailable(db) THEN <<slug>> ELSE <<"not-assessed">>
      [] slug = "connection-saturation" -> <<"saturation", "long-running">>
      [] OTHER -> <<slug>>

Answers(slug, query, db) ==
    IF query \in OfStatements
    THEN IF ViewRaises(db) THEN {Raised}
         ELSE IF query = "offset-pagination" THEN {OffsetPagination(db)} ELSE NPlusOneCandidates(db)
    ELSE {CASE query = "not-assessed" -> {<<"not-assessed">>}
            [] query = "idle-in-transaction-sessions" -> IdleInTransactionSessions(db)
            [] query = "slow-query-monitoring" -> SlowQueryMonitoring(db)
            [] query = "pg-stat-statements-installed" -> StatementsInstalled(db)
            [] query = "saturation" -> ConnectionSaturation(db)
            [] query = "long-running" -> LongRunningActiveQueries(db)
            [] query = "bloated-tables-without-recent-vacuum" -> BloatedWithoutRecentVacuum(db)}

-----------------------------------------------------------------------------
(* The client: the extension is created or dropped, the statistics are     *)
(* reset, a session goes, time passes.                                     *)

Changed(db) ==
    {[db EXCEPT !.extension = ~@], [db EXCEPT !.statements = <<>>], [db EXCEPT !.clock = @ + LongQuery]}
    \cup {[db EXCEPT !.sessions = @ \ {s}] : s \in db.sessions}

INSTANCE CategoryChecks WITH Starts <- ActivityStarts

-----------------------------------------------------------------------------
\* The audit's own query about OFFSET is recorded among the application's statements
\* from the second audit on: it is never reported with them, nor is another statement
\* of the audit's, unless it samples a column with that word in its name; and every
\* statement of the application that pages is, or nothing was assessed.
PagingIsToldTruly ==
    Told("offset-pagination") =>
        /\ \A f \in found["offset-pagination"] \ {<<"not-assessed">>} :
              \A s \in f[2] : ByAudit(s) => OfClientsName(s, "OFFSET")
        /\ <<"not-assessed">> \notin found["offset-pagination"] =>
              \A s \in Readable(Moments) : "OFFSET" \in StatementDef[s].words =>
                  \E f \in found["offset-pagination"] : s \in f[2]

\* src/README.md:221: any check of pg_stat_statements "needs its own SQL text to avoid
\* containing the substring it searches for"; the sampling statements contain the
\* client's names.  This does not hold.
PagingIsTheApplications ==
    Told("offset-pagination") => \A f \in found["offset-pagination"] \ {<<"not-assessed">>} : \A s \in f[2] : ~ByAudit(s)

\* Four checks ask for pg_stat_statements, each for itself.  A statement check
\* that says it is missing has missed it, and is lost only to one that does not
\* work or went in between; and who is told that it is not installed, or that
\* nothing watches slow queries, is told so of a moment at which it was missing.
ActivityProbesAgree ==
    /\ \A slug \in OfStatements : found[slug] # Pending => ProbedHonestly(found[slug], Raised, Moments)
    /\ Told("pg-stat-statements-installed") => \E db \in Moments :
          found["pg-stat-statements-installed"] = {} <=> db.extension
    /\ Told("slow-query-monitoring") => \E db \in Moments :
          found["slow-query-monitoring"] = {} <=> db.extension \/ db.autoExplain \/ db.logMinDuration

\* A session is reported for what it really is doing and for as long as it says,
\* although every duration is measured from when the audit began; what lasted
\* as long by then, and stays, is reported; and connections are never near their
\* limit unsaid, as other rows of the view are only counted with them.
SessionsAreToldTruly ==
    /\ Told("idle-in-transaction-sessions") => \A s \in UNION {db.sessions : db \in Moments} :
          LET idle == {f \in found["idle-in-transaction-sessions"] : f[2] = s.pid} IN
          /\ idle # {} => s.state = "idle in transaction"
          /\ <<"idle", s.pid, "high">> \in idle => \E db \in Moments : s.transaction + db.clock > LongIdle
          /\ s.state = "idle in transaction" /\ s.transaction > LongIdle
             /\ (\A db \in Moments : db.monitor /\ s \in db.sessions) => <<"idle", s.pid, "high">> \in idle
    /\ Told("connection-saturation") =>
          /\ \A s \in UNION {db.sessions : db \in Moments} :
                LET active == {f \in found["connection-saturation"] \ {<<"saturated">>} : f[2] = s.pid} IN
                /\ active # {} => s.state = "active" /\ \E db \in Moments : s.query + db.clock > LongQuery
                /\ s.state = "active" /\ s.query > LongQuery
                   /\ (\A db \in Moments : db.monitor /\ s \in db.sessions) => active # {}
          /\ (\A db \in Moments : Cardinality(db.sessions) + 1 >= Saturated) =>
                <<"saturated">> \in found["connection-saturation"]

-----------------------------------------------------------------------------
(* What the docs say and the code does not do: none of these holds.        *)

\* src/README.md:221: a check of pg_stat_statements "needs its own SQL text to avoid
\* containing the substring it searches for"; the probe is a point lookup, made
\* several times in every audit.
CandidatesAreTheApplications ==
    Told("n-plus-one-candidates") =>
        \A f \in found["n-plus-one-candidates"] \ {<<"not-assessed">>} : ~ByAudit(f[2])

\* queries.py:61-64: an ordinary role sees a session's state, so that this does
\* not under-report "existence"; the state is null for it.
IdleSessionsAreSeen ==
    Steady /\ Told("idle-in-transaction-sessions") => \A s \in database.sessions :
        s.state = "idle in transaction" => \E f \in found["idle-in-transaction-sessions"] : f[2] = s.pid

\* monitoring checks.py:73: "max_connections in use"; the rows of background
\* processes, which are no connections, are counted.
UsedIsConnections ==
    Steady /\ Told("connection-saturation") =>
        (<<"saturated">> \in found["connection-saturation"] => Cardinality(database.sessions) + 1 >= Saturated)

\* queries.py:80: pg_stat_statements_enabled; an extension that was created and not
\* loaded records nothing.
EnabledMeansRecording ==
    Steady /\ Told("slow-query-monitoring") =>
        (found["slow-query-monitoring"] = {} =>
            database.autoExplain \/ database.logMinDuration \/ ~ViewRaises(database))
=============================================================================
