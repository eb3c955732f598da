SPECIFICATION Spec
CONSTANTS
    Packages <- MCPackages
    OutOfSync = OutOfSync
    NoFilter = NoFilter
    MaxOrder = 4
    MaxReleases = 3
INVARIANTS
    SlugsAreStable
    IdsMeanWhatTheyShow
