---------------------------- MODULE RecordKeeping ----------------------------
(***************************************************************************)
(* The categories Backup, Recovery & Change Management and Documentation & *)
(* Institutional Knowledge (categories/backup_recovery_and_change_management,*)
(* categories/documentation_and_institutional_knowledge), one after the    *)
(* other: what the database itself records of backups, migrations and of   *)
(* what its tables and JSONB columns are for.                              *)
(***************************************************************************)
EXTENDS Naturals, Sequences, FiniteSets, SequencesExt

CONSTANTS
    RecordDef,      \* [relation -> [kind, migration, registry]]: "table", "partitioned" or "view";
                    \* whether its name is one a migration tool, a JSONB registry would give
    RecordColumns,  \* [JSONB column -> its relation]
    RecordStarts,
    MaxAttempts,    \* how many WAL files are archived, or not, in a behaviour
    Pending, Raised, MaxChanges

\* A database: the attempts to archive a WAL file since the statistics were last
\* reset, in order, and whether there had been some before; the relations there
\* are, those and the columns that have a comment, those the role has a
\* privilege on; the WAL senders that serve a replica and a base backup.
VARIABLES database, check, todo, partial, found, past, changes

\* What is known of each of them.
IsDatabase(db) ==
    /\ {"attempts", "before", "relations", "comments", "replicas", "backups"} \subseteq DOMAIN db
    /\ db.attempts \in Seq({"archived", "failed"}) /\ db.before \in BOOLEAN

Tables(db) == {t \in db.relations : RecordDef[t].kind = "table"}
Shown(db) == {c \in DOMAIN RecordColumns : RecordColumns[c] \in db.relations \cap db.privileged}

-----------------------------------------------------------------------------
(* Backup, Recovery & Change Management.                                   *)

\* pg_stat_archiver: the count of an outcome and when it was last, 0 for never.
Count(outcome, db) == Cardinality({n \in DOMAIN db.attempts : db.attempts[n] = outcome})
LastTime(outcome, db) == Max({0} \cup {n \in DOMAIN db.attempts : db.attempts[n] = outcome})

WalArchivingFailures(db) ==
    IF Count("failed", db) = 0 THEN {}
    ELSE {<<IF LastTime("failed", db) > LastTime("archived", db) THEN "active" ELSE "historical", Count("failed", db)>>}

WalArchivingStatus(db) ==
    IF Count("archived", db) = 0 /\ Count("failed", db) = 0 THEN {<<"none ever">>}
    ELSE {<<"totals", LastTime("archived", db), Count("archived", db), Count("failed", db)>>}

MigrationTrackingAbsent(db) == IF \E t \in Tables(db) : RecordDef[t].migration THEN {} ELSE {<<"no migrations">>}
ReplicaTopologyAbsent(db) == IF db.replicas + db.backups > 0 THEN {} ELSE {<<"no replicas">>}

-----------------------------------------------------------------------------
(* Documentation & Institutional Knowledge.                                *)

TableDocumentation(db) ==
    IF Tables(db) = {} \/ Tables(db) \cap db.comments # {} THEN {}
    ELSE {<<"none documented", Cardinality(Tables(db))>>}

UndocumentedJsonb(db) == {<<"undocumented", c>> : c \in Shown(db) \ db.comments}

JsonbWithoutRegistry(db) ==
    IF Shown(db) = {} \/ \E t \in Tables(db) : RecordDef[t].registry THEN {} ELSE {<<"no registry">>}

-----------------------------------------------------------------------------
Checks == <<"wal-archiving-failures", "wal-archiving-status-summary", "migration-tracking-table-absent",
            "replica-topology-absent",
            "table-documentation-coverage", "undocumented-jsonb-column-rationale", "jsonb-without-schema-registry">>

Applicable(db) == TRUE
Queries(slug, db) == <<slug>>

Answers(slug, query, db) ==
    {CASE slug = "wal-archiving-failures" -> WalArchivingFailures(db)
       [] slug = "wal-archiving-status-summary" -> WalArchivingStatus(db)
       [] slug = "migration-tracking-table-absent" -> MigrationTrackingAbsent(db)
       [] slug = "replica-topology-absent" -> ReplicaTopologyAbsent(db)
       [] slug = "table-documentation-coverage" -> TableDocumentation(db)
       [] slug = "undocumented-jsonb-column-rationale" -> UndocumentedJsonb(db)
       [] slug = "jsonb-without-schema-registry" -> JsonbWithoutRegistry(db)}

-----------------------------------------------------------------------------
(* The client: a WAL file is archived or not, the statistics are reset, a  *)
(* comment is made or taken back, a relation created or dropped (with its  *)
(* comments), a WAL sender starts or stops.                                *)

Flip(s, x) == IF x \in s THEN s \ {x} ELSE s \cup {x}
CommentsWith(t) == {t} \cup {c \in DOMAIN RecordColumns : RecordColumns[c] = t}

Changed(db) ==
    {[db EXCEPT !.attempts = Append(@, outcome)] :
        outcome \in IF Len(db.attempts) < MaxAttempts THEN {"archived", "failed"} ELSE {}}
    \cup {[db EXCEPT !.attempts = <<>>, !.before = @ \/ db.attempts # <<>>]}
    \cup {[db EXCEPT !.comments = Flip(@, x)] : x \in UNION {CommentsWith(t) : t \in db.relations}}
    \cup {[db EXCEPT !.relations = Flip(@, t), !.comments = @ \ CommentsWith(t)] : t \in DOMAIN RecordDef}
    \cup {[db EXCEPT !.replicas = 1 - @], [db EXCEPT !.backups = 1 - @]}

INSTANCE CategoryChecks WITH Starts <- RecordStarts

-----------------------------------------------------------------------------
\* WAL archiving is told twice, by two checks that read the archiver's counters
\* anew.  Unless the statistics are reset, the failures of the first are among
\* those of the second, which then does not say that nothing was ever archived;
\* and "active" is said of a database nobody changes just if its last attempt
\* failed.
\* What JSONB columns are for is told by three checks which look for them in
\* different ways.  A column reported as unexplained had no comment, and while
\* there are such columns to be seen the check for a registry is silent only if
\* there was one.  Where all of them are silent each column the role may see all
\* the time had a comment, some table a registry's name and some table a comment.
RecordsAreToldTruly ==
    /\ Told("wal-archiving-failures") /\ Told("wal-archiving-status-summary") =>
          \A failures \in found["wal-archiving-failures"], status \in found["wal-archiving-status-summary"] :
              /\ ~database.before => status # <<"none ever">> /\ status[4] >= failures[2]
              /\ Steady => status[4] = failures[2] /\ (failures[1] = "active" <=> Last(database.attempts) = "failed")
    /\ Told("jsonb-without-schema-registry") =>
          LET unexplained == found["undocumented-jsonb-column-rationale"]
              unregistered == found["jsonb-without-schema-registry"]
              commented == found["table-documentation-coverage"] = {}
          IN  /\ \A f \in unexplained : \E db \in Moments : f[2] \in Shown(db) \ db.comments
              /\ (\A db \in Moments : Shown(db) # {}) /\ unregistered = {} =>
                    \E db \in Moments : \E t \in Tables(db) : RecordDef[t].registry
              /\ unexplained = {} => \A c \in DOMAIN RecordColumns :
                    (\A db \in Moments : c \in Shown(db)) => \E db \in Moments : c \in db.comments
              /\ commented /\ (\A db \in Moments : Tables(db) # {}) =>
                    \E db \in Moments : Tables(db) \cap db.comments # {}

-----------------------------------------------------------------------------
(* What the docs say and the code does not do: none of these holds.        *)

\* backup checks.py:69-72: "No WAL archiving activity has ever been recorded on this
\* instance"; it had been when the statistics were reset since.
EverMeansEver ==
    Told("wal-archiving-status-summary") /\ <<"none ever">> \in found["wal-archiving-status-summary"] => ~database.before

\* backup queries.py:9-10: pg_stat_replication tells "whether anything is currently
\* streaming from this instance", and is taken for a replica; it lists the
\* connections of a base backup as well.
SendersAreReplicas ==
    Steady /\ Told("replica-topology-absent") => (found["replica-topology-absent"] = {} <=> database.replicas > 0)

\* documentation checks.py:37: "No table-level documentation found in the schema";
\* the comment of a partitioned table is not looked for.
CommentedTablesAreSeen ==
    Steady /\ Told("table-documentation-coverage") /\ found["table-documentation-coverage"] # {} =>
        \A t \in database.comments \cap database.relations : RecordDef[t].kind = "view"

\* documentation queries.py:3-4: "Everything here reads pg_description ... and
\* pg_class"; JSONB columns are listed by information_schema.columns, which leaves
\* out those the role has no privilege on.
UnexplainedIsReported ==
    Steady /\ Told("undocumented-jsonb-column-rationale") => \A c \in DOMAIN RecordColumns :
        RecordColumns[c] \in database.relations /\ c \notin database.comments
        => <<"undocumented", c>> \in found["undocumented-jsonb-column-rationale"]
=============================================================================
