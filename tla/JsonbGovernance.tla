--------------------------- MODULE JsonbGovernance ---------------------------
(***************************************************************************)
(* The JSONB Structure & Governance category                               *)
(* (categories/jsonb_structure_and_governance).  Three of its checks list  *)
(* the jsonb columns and then sample each of them, every check for itself: *)
(* key spellings, value types and rare keys.  The fourth looks for a       *)
(* validation layer in the catalogs.                                       *)
(***************************************************************************)
EXTENDS Naturals, Sequences, FiniteSets, SequencesExt, Samples

CONSTANTS
    DocumentDef,    \* [Columns -> [table, mentions]], the columns whose names occur in its name
    Concept,        \* [Keys -> a key without case and underscores]
    NonObject,      \* a document that is an array or a scalar
    JsonbStarts, Loads, \* contents: bags of documents, each NonObject or [keys -> value types]
    JsonbLimit, MinRareSample,  \* SAMPLE_ROW_LIMIT, MIN_SAMPLE_SIZE_FOR_RARE_KEY_CHECK
    RareOneIn,      \* MAX_RARE_KEY_OCCURRENCE_FRACTION, as one in so many
    Pending, Raised, MaxChanges

\* A database: the jsonb columns and their non-null documents, the columns
\* with a CHECK constraint, and the tables with a trigger.
VARIABLES database, check, todo, partial, found, past, changes

Columns == DOMAIN DocumentDef

-----------------------------------------------------------------------------
(* The three sampling queries.  jsonb_object_keys and jsonb_each raise on  *)
(* a document that is no object.                                           *)

Documents(sample) == BagToSet(sample) \ {NonObject}
HasNonObject(sample) == BagIn(NonObject, sample)
Keys(sample) == UNION {DOMAIN d : d \in Documents(sample)}

\* What is known of a column's documents, and of a database.
IsDocuments(bag) == IsContents(bag) /\ Keys(bag) \subseteq DOMAIN Concept

IsDatabase(db) ==
    /\ {"columns", "checks", "triggers", "values"} \subseteq DOMAIN db
    /\ db.columns \subseteq Columns /\ db.columns \subseteq DOMAIN db.values /\ IsFiniteSet(db.columns)
    /\ \A c \in db.columns : IsDocuments(db.values[c])

NamingVariants(c, sample) ==
    {<<"variants", c, x>> : x \in
        {y \in {Concept[k] : k \in Keys(sample)} : Cardinality({k \in Keys(sample) : Concept[k] = y}) > 1}}

\* Mutation: values are grouped by concept, as the spellings are.
TypesOfConcept(k, sample) ==
    UNION {{d[j] : j \in {i \in DOMAIN d : Concept[i] = Concept[k]}} : d \in Documents(sample)}

TypesOf(k, sample) == {d[k] : d \in {e \in Documents(sample) : k \in DOMAIN e}}

KeyTypeInconsistencies(c, sample) ==
    {<<"types", c, k>> : k \in {j \in Keys(sample) : Cardinality(TypesOf(j, sample)) > 1}}

Occurrences(k, sample) == Size([d \in {e \in Documents(sample) : k \in DOMAIN e} |-> sample[d]])

RareKeys(c, sample) ==
    {<<"rare", c, k>> : k \in
        {j \in Keys(sample) : /\ Size(sample) >= MinRareSample
                              /\ RareOneIn * Occurrences(j, sample) <= Size(sample)}}

Reading(slug, c, sample) ==
    CASE slug = "key-naming-drift" -> NamingVariants(c, sample)
      [] slug = "key-type-inconsistency" -> KeyTypeInconsistencies(c, sample)
      [] slug = "orphaned-legacy-keys" -> RareKeys(c, sample)

-----------------------------------------------------------------------------
\* No CHECK of the table has the column's name in its text, and the table has
\* no trigger.
WithoutValidation(db) ==
    {c \in db.columns :
        /\ DocumentDef[c].table \notin db.triggers
        /\ \A d \in db.checks : DocumentDef[d].table = DocumentDef[c].table => c \notin DocumentDef[d].mentions}

-----------------------------------------------------------------------------
Checks == <<"key-naming-drift", "key-type-inconsistency", "missing-validation-layer", "orphaned-legacy-keys">>

Applicable(db) == db.columns # {}

Queries(slug, db) ==
    IF slug = "missing-validation-layer" THEN <<slug>> ELSE SetToSeq(db.columns)

Answers(slug, query, db) ==
    IF slug = "missing-validation-layer" THEN {{<<"ungoverned", c>> : c \in WithoutValidation(db)}}
    ELSE IF query \notin db.columns THEN {Raised}
    ELSE {IF HasNonObject(sample) THEN Raised
          ELSE Reading(slug, query, sample) : sample \in Samples(db.values[query], JsonbLimit)}

-----------------------------------------------------------------------------
(* The client: documents are written, a column is dropped, a CHECK or a    *)
(* trigger added.                                                          *)

Write(db) == {[db EXCEPT !.values[c] = documents] : c \in db.columns, documents \in Loads}
DropColumn(db) == {[db EXCEPT !.columns = @ \ {c}, !.checks = @ \ {c}] : c \in db.columns}
AddCheck(db) == {[db EXCEPT !.checks = @ \cup {c}] : c \in db.columns}
AddTrigger(db) == {[db EXCEPT !.triggers = @ \cup {DocumentDef[c].table}] : c \in db.columns}
Changed(db) == Write(db) \cup DropColumn(db) \cup AddCheck(db) \cup AddTrigger(db)

INSTANCE CategoryChecks WITH Starts <- JsonbStarts

-----------------------------------------------------------------------------
\* What the sampling checks may say; an exception is none of it.
Findings ==
    {"variants", "types", "rare"} \X Columns \X (DOMAIN Concept \cup {Concept[k] : k \in DOMAIN Concept})

Sampling == {"key-naming-drift", "key-type-inconsistency", "orphaned-legacy-keys"}
Within(c, db) == Size(db.values[c]) <= JsonbLimit
VariantsIn(c, x, db) == c \in db.columns /\ Cardinality({k \in Keys(db.values[c]) : Concept[k] = x}) > 1
TypesIn(c, k, db) ==
    c \in db.columns /\ \E d, e \in Documents(db.values[c]) : k \in DOMAIN d \cap DOMAIN e /\ d[k] # e[k]
Failing(c, db) == c \in db.columns /\ HasNonObject(db.values[c])

\* The spellings and types a sampling check reports were in the column, although
\* it may not have read the documents that speak against it; and what is in a
\* column that fits in the sample, whatever is written to it, is reported by all
\* three.  A check is lost only to a document that is no object or a column
\* dropped after it was listed, and to the former, where no column exceeds the
\* sample, wherever it is.
SampledFindingsAreTrue ==
    /\ \A c \in Columns :
        /\ Told("key-naming-drift") => \A x \in {Concept[k] : k \in DOMAIN Concept} :
              /\ <<"variants", c, x>> \in found["key-naming-drift"] => \E db \in Moments : VariantsIn(c, x, db)
              /\ (\A db \in Moments : VariantsIn(c, x, db) /\ Within(c, db)) =>
                    <<"variants", c, x>> \in found["key-naming-drift"]
        /\ Told("key-type-inconsistency") => \A k \in DOMAIN Concept :
              /\ <<"types", c, k>> \in found["key-type-inconsistency"] => \E db \in Moments : TypesIn(c, k, db)
              /\ (\A db \in Moments : TypesIn(c, k, db) /\ Within(c, db)) =>
                    <<"types", c, k>> \in found["key-type-inconsistency"]
        /\ Told("orphaned-legacy-keys") /\ (\A db \in Moments : c \in db.columns /\ Within(c, db)) =>
              \E db \in Moments : RareKeys(c, db.values[c]) = {f \in found["orphaned-legacy-keys"] : f[2] = c}
    /\ \A slug \in Sampling :
        /\ found[slug] = Raised =>
              \/ \E db \in Moments, c \in Columns : Failing(c, db)
              \/ \E b, d \in Moments : ~(b.columns \subseteq d.columns)
        /\ Told(slug) => ~ \E c \in Columns : \A db \in Moments : Failing(c, db) /\ Within(c, db)

-----------------------------------------------------------------------------
(* What the docs say and the code does not do: this does not hold.         *)

\* checks.py:152: a column reported has "no CHECK constraint referencing it", and
\* 02.04 is about each column; a CHECK on meta_data is taken for one on data.
UnvalidatedIsReported ==
    Steady /\ Told("missing-validation-layer") =>
        \A c \in database.columns : c \notin database.checks /\ DocumentDef[c].table \notin database.triggers
            => <<"ungoverned", c>> \in found["missing-validation-layer"]
=============================================================================
