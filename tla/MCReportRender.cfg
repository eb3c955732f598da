SPECIFICATION RenderSpec
CONSTANTS
    N = 2
    K = 2
    Outcomes <- MCOutcomes
    Top = 3
    NoFile = NoFile
INVARIANTS
    SectionsAgree
    CompletenessMatchesTests
PROPERTY NothingDisappears
