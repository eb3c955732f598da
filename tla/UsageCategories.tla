--------------------------- MODULE UsageCategories ---------------------------
(***************************************************************************)
(* The categories whose checks read what the database is used for: its     *)
(* lots, its storage, its searches, its sessions and statements, its       *)
(* growth.  They share the loop that goes through their checks, and what   *)
(* an audit of any of them may meet.                                       *)
(***************************************************************************)
EXTENDS Integers, Sequences

CONSTANTS
    \* Traceability
    TraceDef, CertTables, MatViews, TraceStarts, Inserts, Null, LotLimit, MinLotRows,
    \* StorageHealth
    RelationDef, IndexDef, StorageStarts, NaN, MinBloatRows, MinToast, MinAccess, LongTransaction, RetainedLimit,
    \* SearchBehavior, QueryActivity, GrowthAndAccess
    StatementDef, SamplingDef,
    VectorDef, IndexTexts, SearchStarts,
    ActivityStarts, Never, MinCalls, MaxCandidates, LongIdle, LongQuery, Saturated, MinVacuumRows, Stale,
    TableDef, GrowthStarts, SlowMean, VerySlowMean, MaxSlow, MaxLargest,
    \* all of them
    Unknown, Pending, Raised, MaxChanges

VARIABLES database, check, todo, partial, past, found, changes

Lots == INSTANCE Traceability
Storage == INSTANCE StorageHealth
Search == INSTANCE SearchBehavior
Activity == INSTANCE QueryActivity
Growth == INSTANCE GrowthAndAccess

\* A schema is finite.
ASSUME ColumnsAssumption == Lots!FiniteColumns

\* An index over a text is an index over columns.
ASSUME TextsAssumption == Search!TextsNameColumns

\* An audit meets databases.
ASSUME StartsAssumption ==
    /\ \A db \in TraceStarts : Lots!IsDatabase(db)
    /\ \A db \in StorageStarts : Storage!IsDatabase(db)
    /\ \A db \in SearchStarts : Search!IsDatabase(db)
    /\ \A db \in ActivityStarts : Activity!IsDatabase(db)
    /\ \A db \in GrowthStarts : Growth!IsDatabase(db)

\* A row that is inserted is a row of its table.
ASSUME InsertsAssumption == \A t \in DOMAIN Inserts : Inserts[t] \subseteq Lots!RowsOf(t)

ASSUME BoundsAssumption ==
    {LongTransaction, LongQuery, LongIdle, Saturated} \subseteq Nat /\ {MinBloatRows, LotLimit} \subseteq Nat \ {0}

\* An exception is no list of findings, and neither is a check that has not ended.
ASSUME OutcomesAssumption ==
    /\ Raised # Pending
    /\ Raised \notin SUBSET Storage!Findings
    /\ Raised \notin SUBSET Search!Findings
    /\ Raised \notin SUBSET Activity!Findings
    /\ Raised \notin SUBSET Growth!Findings

machine == <<database, check, todo, partial, past>>
=============================================================================
