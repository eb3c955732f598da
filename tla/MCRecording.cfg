SPECIFICATION FairSpec
CONSTANTS
    r1 = r1
    r2 = r2
    Runs = {r1, r2}
    Slugs = {acme, beta}
    Categories = 3
    Yield <- MCYield
    MaxSecond = 1
    Absent = Absent
    Torn = Torn
    NoPath = NoPath
    RunColumns <- MCRunColumns
    FindingColumns <- MCFindingColumns
    NoFile = NoFile
    Faults = {"crash", "busy"}
INVARIANTS
    ReportsAreKept
    AloneNeverRaises
    RecordsAgree
PROPERTIES
    IsAtomic
    HistoryIsKept
    EveryRunEnds
