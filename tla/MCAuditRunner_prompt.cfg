SPECIFICATION Spec
CONSTANTS
    N = 3
    NumChecks <- MCNumChecks
    Applicability <- MCApplicability
    Interactive <- MCInteractive
    Slug <- MCSlug
    Bullet <- MCBullet
    FnResults <- MCFnResults
    Configs <- MCFewConfigs
    NoFilter = NoFilter
    R = 3
    Faults = {"idle"}
    s11 = s11
    s12 = s12
    s21 = s21
    s31 = s31
INVARIANT NeverPromptInTransaction
