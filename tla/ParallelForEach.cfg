SPECIFICATION FairSpec
CONSTANTS
    NumItems = 4
    MaxParallel = 2
INVARIANTS
    ErrorIsRootCause
    BoundedFanOut
    NoStragglers
    FailFast
PROPERTIES
    Termination
    RefinesBatch
