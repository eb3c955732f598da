----------------------------- MODULE Categories -----------------------------
(***************************************************************************)
(* An audit of one category, as with --category (cli.py:438), while        *)
(* the client goes on using the database.  Categories share nothing but    *)
(* the database and the loop that goes through their checks, so a          *)
(* behaviour has one of them, or two whose checks are about the same       *)
(* things: those that CategoryChecks drives, or the statistics checks of   *)
(* Data Quality, whose database is variables of its own.                   *)
(***************************************************************************)
EXTENDS UsageCategories

CONSTANTS
    Selected,       \* the categories a behaviour may have
    \* SchemaDesign
    ColumnDef, ConstraintDef, Views, OwnedChildren, Numbered, SchemaStarts, ShapeLimit, MinShapeSample,
    \* JsonbGovernance
    DocumentDef, Concept, NonObject, JsonbStarts, Loads, JsonbLimit, MinRareSample, RareOneIn,
    \* RecordKeeping
    RecordDef, RecordColumns, RecordStarts, MaxAttempts,
    \* ColumnStatistics
    StatisticsDef, Sizes, Shapes, SampleSize, SampleShapes, MinRows, MaxDistinct, MaxStatisticsChanges

VARIABLES
    category,
    rows, data, stats, notNull, unique, default, checked, steady

Schema == INSTANCE SchemaDesign
Jsonb == INSTANCE JsonbGovernance
Records == INSTANCE RecordKeeping
Statistics == INSTANCE ColumnStatistics WITH
    ColumnDef <- StatisticsDef, check <- checked, MaxChanges <- MaxStatisticsChanges

ASSUME DefinitionsAssumption == Schema!WellDefined /\ Statistics!OwnNames

\* An audit meets databases.
ASSUME CatalogStartsAssumption ==
    /\ \A db \in SchemaStarts : Schema!IsDatabase(db)
    /\ \A db \in JsonbStarts : Jsonb!IsDatabase(db)
    /\ \A db \in RecordStarts : Records!IsDatabase(db)

\* What the client writes to a JSONB column are documents, of finitely many keys.
ASSUME LoadsAssumption ==
    /\ \A documents \in Loads : Jsonb!IsDocuments(documents)
    /\ Jsonb!IsFiniteSet(DOMAIN Concept)

\* An exception is no set of findings.
ASSUME SampledOutcomesAssumption ==
    /\ Raised \notin SUBSET Schema!Findings
    /\ Raised \notin SUBSET Jsonb!Findings

\* Rows, nulls and distinct values are counted, and what is not known is no count of them.
ASSUME CountsAssumption ==
    /\ Sizes \subseteq Nat /\ Shapes \subseteq [nulls : Nat, distinct : Nat]
    /\ SampleSize \in Nat \ {0} /\ SampleShapes \subseteq [nulls : Nat, distinct : Nat, once : Nat]
    /\ Unknown \notin [rows : Nat, sampled : Nat, nulls : Nat, distinct : Nat]

catalog == <<rows, data, stats, notNull, unique, default, checked, steady>>
vars == <<category, machine, found, changes, catalog>>

-----------------------------------------------------------------------------
Init ==
    /\ category \in Selected
    /\ Statistics!InitCatalog /\ steady = TRUE
    /\ \/ category = "schema" /\ Schema!Init
       \/ category = "jsonb" /\ Jsonb!Init
       \/ category = "lots" /\ Lots!Init
       \/ category = "storage" /\ Storage!Init
       \/ category = "search" /\ Search!Init
       \/ category = "activity" /\ Activity!Init
       \/ category = "growth" /\ Growth!Init
       \/ category = "records" /\ Records!Init
       \/ category = "statistics" /\ Statistics!Init /\ database = <<>> /\ check = 0 /\ todo = <<>> /\ partial = Pending /\ past = {}

Next ==
    /\ UNCHANGED category
    /\ \/ category = "schema" /\ Schema!Next /\ UNCHANGED catalog
       \/ category = "jsonb" /\ Jsonb!Next /\ UNCHANGED catalog
       \/ category = "lots" /\ Lots!Next /\ UNCHANGED catalog
       \/ category = "storage" /\ Storage!Next /\ UNCHANGED catalog
       \/ category = "search" /\ Search!Next /\ UNCHANGED catalog
       \/ category = "activity" /\ Activity!Next /\ UNCHANGED catalog
       \/ category = "growth" /\ Growth!Next /\ UNCHANGED catalog
       \/ category = "records" /\ Records!Next /\ UNCHANGED catalog
       \/ category = "statistics" /\ Statistics!Next /\ UNCHANGED machine

Spec == Init /\ [][Next]_vars

-----------------------------------------------------------------------------
(* The categories' properties, each of the behaviours that have it; what   *)
(* they say is said where they are defined.                                *)

\* What the catalogs say is reported whole and once: the keys of tables
\* (schema checks.py:71-124, 158-202), their row-level security
\* (scale checks.py:105-134; security checks.py:69-113), WAL archiving and what
\* columns are for (backup checks.py:24-95; documentation checks.py:25-110).
CatalogFindingsAreTrue ==
    /\ category = "schema" => Schema!KeyFindingsAreTrue
    /\ category = "growth" => Growth!IsolationIsExhaustive
    /\ category = "records" => Records!RecordsAreToldTruly

\* A repeating group is reported once and whole (checks.py:312-398).
RepeatsAreExact == category = "schema" => Schema!RepeatsAreExact

\* What is sampled is told as it is: the shapes of texts, the spellings, types
\* and rare keys of documents (checks.py:213-309; jsonb checks.py:26-139).
SampledFindingsAreTrue ==
    /\ category = "schema" => Schema!ShapesAreTrue
    /\ category = "jsonb" => Jsonb!SampledFindingsAreTrue

\* Lots, counts and totals are those of the rows (lot checks.py:78-157).
LotsAreNamedHonestly == category = "lots" => Lots!LotsAreNamedHonestly

\* A skipped category had nothing to find (lot checks.py:36-41).
SkippedIsEmpty == category = "lots" => Lots!SkippedIsEmpty

\* Several checks probe for what they need and then use it.  Those that ask for
\* the same agree, what is missing is said to be and overlooks nothing a
\* substitute can see, and a check is lost to nothing else (storage
\* checks.py:34-115; search checks.py:96-187; query patterns checks.py:46-109;
\* monitoring checks.py:28-50; scale checks.py:50-102; security checks.py:181-257).
AbsenceIsTold ==
    /\ category = "storage" => Storage!BloatMethodsAgree
    /\ category = "search" => Search!SearchProbesAgree
    /\ category = "activity" => Activity!ActivityProbesAgree
    /\ category = "growth" => Growth!GrowthIsLostToItsSources

\* Transactions, sessions, queries and slots are told truly (storage
\* checks.py:232-276; query patterns checks.py:112-145; monitoring checks.py:53-107).
SessionsAreToldTruly ==
    /\ category = "storage" => Storage!XminFindingsAreTrue
    /\ category = "activity" => Activity!SessionsAreToldTruly

\* The application's search and paging are reported, and nothing the audit has said
\* itself, other than by the client's names (search checks.py:26-187; query patterns
\* checks.py:80-109).
StatementsAreTheApplications ==
    /\ category = "search" => Search!SearchFindingsAreTrue
    /\ category = "activity" => Activity!PagingIsToldTruly

\* Findings from fresh statistics are true of the rows (data quality checks.py).
FreshStatisticsTellTheTruth == category = "statistics" => Statistics!FreshStatisticsTellTheTruth

\* Doing what a finding recommends settles it (data quality checks.py).
FixesSettle == [][category = "statistics" => Statistics!FixesSettled]_vars

\* A column is reported as without foreign key only if it has none; this does
\* not hold (schema queries.py:25-51).
DeclaredKeysAreSeen == category = "schema" => Schema!DeclaredKeysAreSeen
=============================================================================
