---------------------------- MODULE SearchBehavior ----------------------------
(***************************************************************************)
(* The Full-Text & Structured Search Behavior category                     *)
(* (categories/full_text_and_structured_search_behavior): two checks of    *)
(* the catalogs and three of the statements the application has made.      *)
(***************************************************************************)
EXTENDS Integers, Sequences, FiniteSets, Statements

CONSTANTS
    VectorDef,      \* [tsvector columns -> [table, view, generated]]
    IndexTexts,     \* [indexes -> [table, columns, mentions]]: the GIN and GiST indexes, the
                    \* columns they are on and those that occur in the text of their definition
    SearchStarts,
    Pending, Raised, MaxChanges

\* A database: the tsvector columns the role may see, the indexes there are,
\* the tables with a trigger; pg_stat_statements and what it has recorded.
VARIABLES database, check, todo, partial, found, past, changes

\* What is known of each of them.
IsDatabase(db) ==
    /\ {"columns", "indexes", "triggers", "extension", "preloaded", "monitor", "statements"} \subseteq DOMAIN db
    /\ db.columns \subseteq DOMAIN VectorDef /\ db.indexes \subseteq DOMAIN IndexTexts
    /\ DOMAIN db.statements \subseteq AllStatements

\* An index's text names the columns it is on.
TextsNameColumns == \A i \in DOMAIN IndexTexts : IndexTexts[i].columns \subseteq IndexTexts[i].mentions

-----------------------------------------------------------------------------
\* What a finding may be.
Findings ==
    ({"unindexed", "unsynced"} \X DOMAIN VectorDef) \cup ({"separate", "unranked", "raw"} \X SUBSET AllStatements)
    \cup {<<"not-assessed">>}

WithoutFulltextIndex(db) ==
    {<<"unindexed", c>> : c \in
        {d \in db.columns : \A i \in db.indexes : IndexTexts[i].table = VectorDef[d].table
                                                  => d \notin IndexTexts[i].mentions}}

WithoutSyncMechanism(db) ==
    {<<"unsynced", c>> : c \in
        {d \in db.columns : ~VectorDef[d].generated /\ VectorDef[d].table \notin db.triggers}}

FreeText(db) == Containing({"@@"}, {}, db)

\* Free-text statements, none of which also does the other thing.
NeverAlso(other, name, db) ==
    IF FreeText(db) # {} /\ FreeText(db) \cap other = {} THEN {<<name, FreeText(db)>>} ELSE {}

Combined(db) == NeverAlso(Containing({"@>"}, {}, db), "separate", db)
Ranked(db) == NeverAlso(Containing({"ts_rank("}, {}, db) \cup Containing({"ts_rank_cd("}, {}, db), "unranked", db)

RawUsage(db) ==
    LET raw == Containing({"to_tsquery("}, {"websearch_to_tsquery(", "plainto_tsquery("}, db)
    IN  IF raw = {} THEN {} ELSE {<<"raw", raw>>}

-----------------------------------------------------------------------------
Checks == <<"missing-fulltext-index", "tsvector-sync-mechanism", "combined-structured-and-freetext-queries",
            "relevance-ranking", "safe-tsquery-parsing">>
OfStatements == {"combined-structured-and-freetext-queries", "relevance-ranking", "safe-tsquery-parsing"}

Applicable(db) == db.columns # {}

\* is_pg_stat_statements_available decides what follows it.
Queries(slug, db) ==
    IF slug \in OfStatements /\ ~IsAvailable(db) THEN <<"not-assessed">> ELSE <<slug>>

Answers(slug, query, db) ==
    {CASE query = "not-assessed" -> {<<"not-assessed">>}
       [] query = "missing-fulltext-index" -> WithoutFulltextIndex(db)
       [] query = "tsvector-sync-mechanism" -> WithoutSyncMechanism(db)
       [] query \in OfStatements /\ ViewRaises(db) -> Raised
       [] query = "combined-structured-and-freetext-queries" /\ ~ViewRaises(db) -> Combined(db)
       [] query = "relevance-ranking" /\ ~ViewRaises(db) -> Ranked(db)
       [] query = "safe-tsquery-parsing" /\ ~ViewRaises(db) -> RawUsage(db)}

-----------------------------------------------------------------------------
(* The client: the extension is created or dropped, the statistics are     *)
(* reset, an index or a column goes.                                       *)

Changed(db) ==
    {[db EXCEPT !.extension = ~@], [db EXCEPT !.statements = <<>>]}
    \cup {[db EXCEPT !.indexes = @ \ {i}] : i \in db.indexes}
    \cup {[db EXCEPT !.columns = @ \ {c}] : c \in db.columns}

INSTANCE CategoryChecks WITH Starts <- SearchStarts

-----------------------------------------------------------------------------
\* The statements a check is about: those with a word, and to_tsquery( is one only
\* where it is not part of another.
LookedFor(slug) == IF slug = "safe-tsquery-parsing" THEN "to_tsquery(" ELSE "@@"
Performs(slug, words) ==
    /\ LookedFor(slug) \in words
    /\ slug = "safe-tsquery-parsing" => words \cap {"websearch_to_tsquery(", "plainto_tsquery("} = {}

\* What is reported was so.  A column reported as unindexed had no index of the
\* kind on it, though only texts were compared.  The audit's own statements, about
\* these very words, are recorded next to the application's: none is reported as
\* separate, unranked or raw, or only one that samples something the client gave such
\* a name; and with one, every statement of the application of that kind is.
SearchFindingsAreTrue ==
    /\ Told("missing-fulltext-index") => \A f \in found["missing-fulltext-index"] : \E db \in Moments :
          \A i \in db.indexes : IndexTexts[i].table = VectorDef[f[2]].table => f[2] \notin IndexTexts[i].columns
    /\ \A slug \in OfStatements : Told(slug) =>
          \A f \in found[slug] \ {<<"not-assessed">>} :
              /\ f[2] # {}
              /\ \A s \in f[2] : ByAudit(s) => OfClientsName(s, LookedFor(slug))
              /\ \A s \in Readable(Moments) : Performs(slug, StatementDef[s].words) => s \in f[2]
    /\ Told("safe-tsquery-parsing") /\ found["safe-tsquery-parsing"] = {} =>
          \A s \in Readable(Moments) : ~Performs("safe-tsquery-parsing", StatementDef[s].words)

\* Each of the three checks probes for the extension and then uses it: a check
\* that says it is missing has missed it, and is lost only to one that does not
\* work or went in between.
SearchProbesAgree == \A slug \in OfStatements : found[slug] # Pending => ProbedHonestly(found[slug], Raised, Moments)

-----------------------------------------------------------------------------
(* What the docs say and the code does not do: none of these holds.        *)

\* queries.py:138-140: wrappers of to_tsquery() are "explicitly excluded rather
\* than counted as raw usage"; phraseto_tsquery() is not.
RawIsRaw ==
    Told("safe-tsquery-parsing") =>
        \A f \in found["safe-tsquery-parsing"] \ {<<"not-assessed">>} : \A s \in f[2] : StatementDef[s].raw

\* queries.py:40-43: an index "mentioning the column" stands for one on it, missing
\* only indexes in which the name "doesn't appear verbatim"; a longer name with
\* this one in it hides an unindexed column.
UnindexedIsReported ==
    Steady /\ Told("missing-fulltext-index") =>
        \A c \in database.columns : (\A i \in database.indexes : c \notin IndexTexts[i].columns)
            => <<"unindexed", c>> \in found["missing-fulltext-index"]

\* queries.py:63-68: anything neither generated nor on a table with a trigger "is
\* manually populated by application code"; a view's column is not.
UnsyncedIsPopulated ==
    Told("tsvector-sync-mechanism") => \A f \in found["tsvector-sync-mechanism"] : ~VectorDef[f[2]].view

\* queries.py:8-11: what 04.03 to 04.05 look at is "application/query code, not
\* schema"; whether they are made at all is decided by the schema.
SkippedFindsNothing ==
    Skipped => \A slug \in OfStatements : \A query \in Range(Queries(slug, database)) :
        Answers(slug, query, database) \subseteq {{}, Raised, {<<"not-assessed">>}}
=============================================================================
