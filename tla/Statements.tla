----------------------------- MODULE Statements -----------------------------
(***************************************************************************)
(* pg_stat_statements as the audit's role reads it.  The server records    *)
(* everybody's statements under their normalized text, in which constants  *)
(* are placeholders: also those the audit itself has made, in this run     *)
(* and in earlier ones.  The checks look for words in these texts.         *)
(***************************************************************************)
EXTENDS Integers, FiniteSets, FiniteSetsExt

CONSTANTS
    StatementDef,   \* [the application's statements -> [words, raw]]: which of the words looked for
                    \* the normalized text has, and whether it calls to_tsquery() itself
    SamplingDef     \* [the audit's statements that sample rows -> [joins, names]]: whether there is a
                    \* JOIN, and the words looked for in the names of the schema, table and columns

-----------------------------------------------------------------------------
(* The audit's own statements: the probe, which is the same statement for  *)
(* every extension, and the queries of the categories.  A text has words   *)
(* that stay and constants, among them the patterns it looks for.          *)

Text(kept, constants) == [kept |-> kept, constants |-> constants]

\* Mutation: the count of the statements with OFFSET is called offset_statement_count.
OwnOfQueryPatternsAliased ==
    [probe   |-> Text({"WHERE"}, {"pg_stat_statements"}),
     lookups |-> Text({"WHERE", "pg_stat_statements"}, {"WHERE", "JOIN"}),
     offsets |-> Text({"WHERE", "pg_stat_statements", "OFFSET"}, {"OFFSET"})]

OwnOfQueryPatterns ==
    [probe   |-> Text({"WHERE"}, {"pg_stat_statements"}),
     lookups |-> Text({"WHERE", "pg_stat_statements"}, {"WHERE", "JOIN"}),
     offsets |-> Text({"WHERE", "pg_stat_statements"}, {"OFFSET"})]
OwnOfSearch ==
    [combination |-> Text({"WHERE", "pg_stat_statements"}, {"@@", "@>"}),
     ranking     |-> Text({"WHERE", "pg_stat_statements"}, {"@@", "ts_rank(", "ts_rank_cd("}),
     parsing     |-> Text({"WHERE", "pg_stat_statements"}, {"to_tsquery(", "websearch_to_tsquery(", "plainto_tsquery("})]
OwnOfScale ==
    [slow    |-> Text({"WHERE", "pg_stat_statements"}, {}),
     sizes   |-> Text({"WHERE", "JOIN"}, {"information_schema"}),
     tenants |-> Text({"WHERE", "JOIN", "information_schema"}, {"information_schema"})]

OfFixedText == DOMAIN OwnOfQueryPatterns \cup DOMAIN OwnOfSearch \cup DOMAIN OwnOfScale
Fixed(s) ==
    CASE s \in DOMAIN OwnOfQueryPatterns -> OwnOfQueryPatterns[s]
      [] s \in DOMAIN OwnOfSearch -> OwnOfSearch[s]
      [] s \in DOMAIN OwnOfScale -> OwnOfScale[s]

\* A statement that samples rows has the client's names in its text: sql.Identifier
\* makes no constant of them.
Sampling(s) ==
    Text({"WHERE"} \cup (IF SamplingDef[s].joins THEN {"JOIN"} ELSE {}) \cup SamplingDef[s].names, {})

\* What is left of a text when its constants are placeholders.
Normalized(text) == text.kept

OwnWords ==
    [s \in OfFixedText \cup DOMAIN SamplingDef |-> Normalized(IF s \in OfFixedText THEN Fixed(s) ELSE Sampling(s))]
ByAudit(s) == s \in DOMAIN OwnWords
AllStatements == DOMAIN StatementDef \cup DOMAIN OwnWords

-----------------------------------------------------------------------------
\* The probe asks whether the extension was created in this database.
IsAvailable(db) == db.extension

\* The view exists then, and raises unless the server preloads the library.
ViewRaises(db) == ~db.extension \/ ~db.preloaded

Recorded(db) == DOMAIN db.statements

\* A role without pg_read_all_stats reads "<insufficient privilege>" instead of
\* the text of another role's statement.
Words(s, db) ==
    IF ByAudit(s) THEN OwnWords[s] ELSE IF db.monitor THEN StatementDef[s].words ELSE {}

\* query ILIKE each of the words, and NOT ILIKE any of the others.
Containing(words, others, db) ==
    {s \in Recorded(db) : words \subseteq Words(s, db) /\ others \cap Words(s, db) = {}}

\* ORDER BY key DESC LIMIT n: what it may return of the rows, a key for each.
Top(n, key) ==
    IF Cardinality(DOMAIN key) <= n THEN {DOMAIN key}
    ELSE {top \in kSubset(n, DOMAIN key) : \A s \in top, t \in DOMAIN key \ top : key[s] >= key[t]}

\* The audit samples what a name says: its own statement has the word from the client.
OfClientsName(s, word) == s \in DOMAIN SamplingDef /\ word \in SamplingDef[s].names

\* The application's statements that could be read all along.
Readable(moments) ==
    {s \in DOMAIN StatementDef : ~ByAudit(s) /\ \A db \in moments : db.monitor /\ s \in Recorded(db)}

\* What a check came to that probes for the extension and then uses it, of the
\* databases it may have met.
ProbedHonestly(outcome, lost, moments) ==
    /\ outcome = {<<"not-assessed">>} => \E db \in moments : ~db.extension
    /\ (\A db \in moments : ~db.extension) => outcome = {<<"not-assessed">>}
    /\ outcome = lost => \E db \in moments : db.extension /\ \E later \in moments : ViewRaises(later)
    /\ (\A db \in moments : db.extension /\ ~db.preloaded) => outcome = lost
=============================================================================
