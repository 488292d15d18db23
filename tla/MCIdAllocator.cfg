SPECIFICATION Spec
CONSTANTS
    p1 = p1
    p2 = p2
    scopeA = scopeA
    Procs <- MCProcs
    Scopes <- OneScope
    CacheKey <- DistinctKeys
    BatchSize = 2
    MaxU64 = 7
SYMMETRY MCSymmetry
INVARIANTS
    TypeOK
    UniqueIds
    ReservedIdsAreFresh
