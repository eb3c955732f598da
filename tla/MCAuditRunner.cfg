SPECIFICATION FairSpec
CONSTANTS
    N = 3
    NumChecks <- MCNumChecks
    Applicability <- MCApplicability
    Interactive <- MCInteractive
    Slug <- MCSlug
    Bullet <- MCBullet
    FnResults <- MCFnResults
    Configs <- MCConfigs
    NoFilter = NoFilter
    R = 3
    Faults = {"hook", "interrupt", "idle", "session", "applicability", "markup"}
    s11 = s11
    s12 = s12
    s21 = s21
    s31 = s31
INVARIANTS
    TypeOK
    SavepointIsolation
    EveryCheckAccounted
    CountsMatchFindings
    VerdictsWereEarned
    AnswersComplete
    ReportersLevel
PROPERTIES
    KeepsPromise
    Terminates
