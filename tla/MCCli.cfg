SPECIFICATION FairSpec
CONSTANTS
    Categories = 2
    Ports = {p1, p2}
    MaxAttempts = 3
    MaxPolls = 2
    Faults = {"interrupt", "idle", "session", "disk", "pandoc", "ssh", "oserror"}
INVARIANTS
    NothingStaysOpen
    StopConditionHolds
    SuccessIsComplete
PROPERTY Ends
