SPECIFICATION Spec
CONSTANTS
    Selected = {"schema", "jsonb", "lots", "storage", "search", "activity", "growth", "records", "statistics"}
    ColumnDef <- MCColumnDef
    ConstraintDef <- MCConstraintDef
    Views <- MCViews
    OwnedChildren <- MCOwnedChildren
    Numbered <- MCNumbered
    SchemaStarts <- MCSchemaStarts
    ShapeLimit = 12
    MinShapeSample = 10
    DocumentDef <- MCDocumentDef
    Concept <- MCConcept
    NonObject = NonObject
    JsonbStarts <- MCJsonbStarts
    Loads <- MCLoads
    JsonbLimit = 52
    MinRareSample = 50
    RareOneIn = 50
    TraceDef <- MCTraceDef
    CertTables <- MCCertTables
    MatViews <- MCMatViews
    TraceStarts <- MCTraceStarts
    Inserts <- MCInserts
    Null = Null
    LotLimit = 2
    MinLotRows = 20
    RelationDef <- MCRelationDef
    IndexDef <- MCIndexDef
    StorageStarts <- MCStorageStarts
    NaN = NaN
    MinBloatRows = 20
    MinToast = 1
    MinAccess = 10
    LongTransaction = 30
    RetainedLimit = 1
    StatementDef <- MCStatementDef
    SamplingDef <- MCSamplingDef
    VectorDef <- MCVectorDef
    IndexTexts <- MCIndexTexts
    SearchStarts <- MCSearchStarts
    ActivityStarts <- MCActivityStarts
    Never = Never
    MinCalls = 100
    MaxCandidates = 2
    LongIdle = 5
    LongQuery = 5
    Saturated = 4
    MinVacuumRows = 20
    Stale = 10080
    TableDef <- MCTableDef
    GrowthStarts <- MCGrowthStarts
    SlowMean = 1000
    VerySlowMean = 5000
    MaxSlow = 2
    MaxLargest = 1
    RecordDef <- MCRecordDef
    RecordColumns <- MCRecordColumns
    RecordStarts <- MCRecordStarts
    MaxAttempts = 3
    StatisticsDef <- MCStatisticsDef
    Sizes = {10, 20, 200}
    Shapes <- MCShapes
    SampleSize = 20
    SampleShapes <- MCSampleShapes
    MinRows = 20
    MaxDistinct = 15
    MaxStatisticsChanges = 3
    Unknown = Unknown
    Pending = Pending
    Raised = {exception}
    MaxChanges = 1
INVARIANTS
    CatalogFindingsAreTrue
    RepeatsAreExact
    SampledFindingsAreTrue
    LotsAreNamedHonestly
    SkippedIsEmpty
    AbsenceIsTold
    SessionsAreToldTruly
    StatementsAreTheApplications
    FreshStatisticsTellTheTruth
PROPERTY FixesSettle
