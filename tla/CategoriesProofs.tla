-------------------------- MODULE CategoriesProofs --------------------------
(***************************************************************************)
(* What every audit of a category comes to, for whatever database, client  *)
(* and bounds: each category's part of the invariant, the usage ones' from *)
(* UsageCategoriesProofs and the others' from CatalogCategoriesProofs,     *)
(* holds while the category is the one audited, and the properties of      *)
(* Categories follow from them.                                            *)
(***************************************************************************)
EXTENDS UsageCategoriesProofs, CatalogCategoriesProofs

-----------------------------------------------------------------------------
(* An audit of any of them.                                                *)

\* What is true of the category that is audited.
Inv ==
    /\ category = "schema" => SchemaInv
    /\ category = "jsonb" => JsonbInv
    /\ category = "lots" => LotsInv
    /\ category = "storage" => StorageInv
    /\ category = "search" => SearchInv
    /\ category = "activity" => ActivityInv
    /\ category = "growth" => GrowthInv /\ IsFiniteSet(past)
    /\ category = "records" => RecordsInv /\ WalInv
    /\ category = "statistics" => StatisticsInv

\* The invariant holds at first.
LEMMA InvInit == ASSUME Init PROVE Inv
<1>1. past = {} \/ category # "growth"
  BY DEF Init, Growth!Init
<1>2. IsFiniteSet(past) \/ category # "growth"
  BY <1>1, FS_EmptySet
<1>. QED
  BY <1>2, SchemaInit, JsonbInit, LotsInit, StorageInit, SearchInit, ActivityInit, GrowthInit, RecordsInit, WalInit, StatisticsInit DEF Init, Inv

\* A step is one of the category's loop, or none; nothing else changes the
\* category, so what is true of it stays so.
LEMMA InvStep == ASSUME Inv, [Next]_vars PROVE Inv'
<1>1. ASSUME category' = "schema" PROVE SchemaInv'
  <2>1. category = "schema" /\ [Schema!Next]_<<machine, found, changes>>
    BY <1>1 DEF Next, vars
  <2>2. SchemaInv
    BY <2>1 DEF Inv
  <2>. QED
    BY <2>1, <2>2, SchemaStep
<1>2. ASSUME category' = "lots" PROVE LotsInv'
  <2>1. category = "lots" /\ [Lots!Next]_<<machine, found, changes>>
    BY <1>2 DEF Next, vars
  <2>2. LotsInv
    BY <2>1 DEF Inv
  <2>. QED
    BY <2>1, <2>2, LotsStep
<1>3. ASSUME category' = "storage" PROVE StorageInv'
  <2>1. category = "storage" /\ [Storage!Next]_<<machine, found, changes>>
    BY <1>3 DEF Next, vars
  <2>2. StorageInv
    BY <2>1 DEF Inv
  <2>. QED
    BY <2>1, <2>2, StorageStep
<1>4. ASSUME category' = "search" PROVE SearchInv'
  <2>1. category = "search" /\ [Search!Next]_<<machine, found, changes>>
    BY <1>4 DEF Next, vars
  <2>2. SearchInv
    BY <2>1 DEF Inv
  <2>. QED
    BY <2>1, <2>2, SearchStep
<1>5. ASSUME category' = "activity" PROVE ActivityInv'
  <2>1. category = "activity" /\ [Activity!Next]_<<machine, found, changes>>
    BY <1>5 DEF Next, vars
  <2>2. ActivityInv
    BY <2>1 DEF Inv
  <2>. QED
    BY <2>1, <2>2, ActivityStep
<1>6. ASSUME category' = "growth" PROVE GrowthInv' /\ IsFiniteSet(past')
  <2>1. category = "growth" /\ [Growth!Next]_<<machine, found, changes>>
    BY <1>6 DEF Next, vars
  <2>2. GrowthInv /\ IsFiniteSet(past)
    BY <2>1 DEF Inv
  <2>3. past' \in {past, past \cup {database}}
    BY <2>1 DEF Growth!Next, Growth!AskApplicability, Growth!BeginCheck, Growth!RunQuery, Growth!ReturnFindings,
       Growth!EndCheck, Growth!Change, Growth!Over, Growth!vars, machine
  <2>4. IsFiniteSet(past')
    BY <2>2, <2>3, FS_AddElement
  <2>. QED
    BY <2>1, <2>2, <2>4, GrowthStep
<1>7. ASSUME category' = "records" PROVE RecordsInv' /\ WalInv'
  <2>1. category = "records" /\ [Records!Next]_<<machine, found, changes>>
    BY <1>7 DEF Next, vars
  <2>2. RecordsInv /\ WalInv
    BY <2>1 DEF Inv
  <2>. QED
    BY <2>1, <2>2, RecordsStep, WalStep
<1>8. ASSUME category' = "statistics" PROVE StatisticsInv'
  <2>1. category = "statistics" /\ [Statistics!Next]_<<catalog, found, changes>>
    BY <1>8 DEF Next, vars
  <2>2. StatisticsInv
    BY <2>1 DEF Inv
  <2>. QED
    BY <2>1, <2>2, StatisticsStep
<1>9. ASSUME category' = "jsonb" PROVE JsonbInv'
  <2>1. category = "jsonb" /\ [Jsonb!Next]_<<machine, found, changes>>
    BY <1>9 DEF Next, vars
  <2>2. JsonbInv
    BY <2>1 DEF Inv
  <2>. QED
    BY <2>1, <2>2, JsonbStep
<1>. QED
  BY <1>1, <1>2, <1>3, <1>4, <1>5, <1>6, <1>7, <1>8, <1>9 DEF Inv

-----------------------------------------------------------------------------
(* The properties.                                                         *)

\* Whatever the client changes and the queries answer, the invariant holds.
THEOREM EveryAuditKeepsInv == Spec => []Inv
<1>. QED
  BY InvInit, InvStep, PTL DEF Spec

\* A lot category that was skipped would have found nothing there, whichever of
\* its checks had been run, but in a materialized view: its applicability and its
\* checks look for the same columns (lot checks.py:36-41).
THEOREM SkippedCategoriesAreEmpty == Spec => []SkippedIsEmpty
<1>1. Inv => SkippedIsEmpty
  BY LotsSkipped DEF Inv, SkippedIsEmpty
<1>. QED
  BY <1>1, InvInit, InvStep, PTL DEF Spec

\* The checks that probe for an extension, a privilege or a setting before they
\* use it agree on what is missing, say so, overlook nothing their substitute can
\* see (of bloat, tables counted since they last changed whose dead rows are no wider
\* than the others), and are lost to nothing but what changed between the probe and
\* the use (storage checks.py:34-115; search checks.py:96-187; query patterns
\* checks.py:46-109; monitoring checks.py:28-50; scale checks.py:50-102;
\* security checks.py:181-257).
THEOREM AbsenceIsToldAlways == Spec => []AbsenceIsTold
<1>1. Inv => AbsenceIsTold
  BY StorageMethodsAgree, SearchProbes, ActivityProbes, GrowthSources DEF Inv, AbsenceIsTold
<1>. QED
  BY <1>1, InvInit, InvStep, PTL DEF Spec

\* A transaction, a session or a slot is told of as it was at some moment while the
\* category ran, and what was over its limit when the audit began, and stays, is
\* not left out (storage checks.py:232-276; query patterns checks.py:112-145;
\* monitoring checks.py:53-107).
THEOREM SessionsAreToldTrulyAlways == Spec => []SessionsAreToldTruly
<1>1. Inv => SessionsAreToldTruly
  BY StorageHorizon, ActivitySessions DEF Inv, SessionsAreToldTruly
<1>. QED
  BY <1>1, InvInit, InvStep, PTL DEF Spec

\* A column is reported as unindexed only if it had no index; what is told of searches
\* and paging covers all the application could be seen to do, and none of the audit's
\* own statements, which pg_stat_statements records too, but those that sample a
\* column whose name has the word looked for (search checks.py:26-187; query patterns
\* checks.py:80-109).
\* searches or paging is of a statement the application did not make: the audit's
\* own, which pg_stat_statements records too, are told from them (search
\* checks.py:26-187; query patterns checks.py:80-109).
THEOREM StatementsAreTheApplicationsAlways == Spec => []StatementsAreTheApplications
<1>1. Inv => StatementsAreTheApplications
  BY SearchFindings, ActivityPaging DEF Inv, StatementsAreTheApplications
<1>. QED
  BY <1>1, InvInit, InvStep, PTL DEF Spec

\* What the statistics checks find of statistics that are fresh is what the rows
\* are (data quality checks.py).
THEOREM FreshStatisticsTellTheTruthAlways == Spec => []FreshStatisticsTellTheTruth
<1>1. Inv => FreshStatisticsTellTheTruth
  BY StatisticsTruth DEF Inv, FreshStatisticsTellTheTruth
<1>. QED
  BY <1>1, InvInit, InvStep, PTL DEF Spec

\* A DBA who does what a finding recommends is rid of it, and nothing else turns up
\* but the default a NOT NULL status flag then wants (data quality checks.py).
THEOREM FixesSettleAlways == Spec => FixesSettle
<1>1. [category = "statistics" => Statistics!FixesSettled]_vars
  BY StatisticsFixes
<1>. QED
  BY <1>1, PTL DEF FixesSettle, Spec

\* What is said of keys, of row-level security, of WAL archiving and of what
\* columns are for is true, whole and said once, although each is put together
\* from queries made at different moments (schema checks.py:71-124, 158-202;
\* scale checks.py:105-134; security checks.py:69-113; backup checks.py:24-95;
\* documentation checks.py:25-110).
THEOREM CatalogFindingsAreTrueAlways == Spec => []CatalogFindingsAreTrue
<1>1. Inv => CatalogFindingsAreTrue
  BY SchemaKeys, GrowthIsolation, RecordsToldTruly DEF Inv, CatalogFindingsAreTrue
<1>. QED
  BY <1>1, InvInit, InvStep, PTL DEF Spec

\* Columns that repeat are reported as the largest families that differ in one
\* numbered token, each once and no two sharing two columns, as they were at the
\* moment of the query (schema checks.py:312-398).
THEOREM RepeatsAreExactAlways == Spec => []RepeatsAreExact
<1>1. Inv => RepeatsAreExact
  BY SchemaRepeats DEF Inv, RepeatsAreExact
<1>. QED
  BY <1>1, InvInit, InvStep, PTL DEF Spec

\* The spellings and types reported of a JSONB column were in it at some moment, and
\* the shape reported of a text column that fits in the sample is that of nine tenths
\* of its values; what fits and is there all the time is never left out, and a check
\* is lost only to what it cannot read or was dropped after it had been listed
\* (schema checks.py:213-309; jsonb checks.py:26-139).
THEOREM SampledFindingsAreTrueAlways == Spec => []SampledFindingsAreTrue
<1>1. Inv => SampledFindingsAreTrue
  BY SchemaShapes, JsonbSampled DEF Inv, SampledFindingsAreTrue
<1>. QED
  BY <1>1, InvInit, InvStep, PTL DEF Spec

\* The lots named as unlinked or repeated were so at one moment, with the total of
\* the rows and the count of each, no more and no fewer than the limit lets through
\* and the most frequent before the others; a link or a repetition that is there all
\* the time is left out only if a declared key, or an index that claims to be unique,
\* speaks for it (lot checks.py:78-157).
THEOREM LotsAreNamedHonestlyAlways == Spec => []LotsAreNamedHonestly
<1>1. Inv => LotsAreNamedHonestly
  BY LotsHonest DEF Inv, LotsAreNamedHonestly
<1>. QED
  BY <1>1, InvInit, InvStep, PTL DEF Spec
=============================================================================
