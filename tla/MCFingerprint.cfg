SPECIFICATION DuplicatesSpec
CONSTANTS
    RowIds = {1, 2, 3}
    Rows <- MCRows
    NoText = NoText
    RawConfigs <- MCRawConfigs
    Error = Error
    NotRun = NotRun
    NotAssessed = NotAssessed
    Upper <- MCUpper
    Lower <- MCLower
    Digits <- MCDigits
    Similar <- MCSimilar
    MaxDistinct = 2
    MaxWrites = 1
INVARIANTS
    GroupsAreIdentities
    AlikeIsReportedOnce
