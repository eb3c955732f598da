SPECIFICATION IndexingSpec
CONSTANTS
    Relname <- MCRelname
    ColumnDef <- MCColumnDef
    IndexDef <- MCIndexDef
    Expression = "expression"
    StatementDef <- MCStatementDef
    Estimates <- MCEstimates
    Unknown = Unknown
    NotAsked = NotAsked
    Failed = Failed
    BuildScans = 2
    Starts <- MCStarts
    Pasts <- MCPasts
    MinTableBytes = 1
    MinSeqScanCount = 1
    MinRows = 1
    MinWriteCount = 1
    MinIndexCount = 2
    MaxEvents = 2
INVARIANTS
    MissingIsNotPresent
PROPERTIES
    AdviceIsSafe
