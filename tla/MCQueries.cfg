SPECIFICATION Spec
CONSTANTS
    Props <- MCProps
    IndexOf <- MCIndexOf
    Templates <- MCTemplates
    Accepts <- MCAccepts
    NullDiffers = TRUE
    MaxLimit = 5
    PostingCap = 6
    PostingBase = 1
    Labels = {1, 2}
    AllowUndeclared = TRUE
    Ids = {1, 2, 3, 4, 5, 6, 7}
    Scenarios <- MCScenarios
    ChunkSize = 2
    EdgeCap = 2
    DefaultLimit = 3
    MaxVersions = 3
INVARIANTS
    
    NothingMissed
    NoNodeTwice
    PagesAreOneTraversal
    BlocksMean
CHECK_DEADLOCK FALSE
