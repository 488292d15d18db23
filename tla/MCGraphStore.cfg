SPECIFICATION Spec
CONSTANTS
    a = a
    b = b
    p = p
    q = q
    Nodes <- TwoNodes
    Procs <- TwoProcs
    SortKeys <- NoSortKey
    Directions <- BothWays
    FetchLimit = 1
    TxLimit = 1
    LookupLimit = 1
SYMMETRY Symmetric
INVARIANTS TypeOK NoDanglingEdges CdcRebuildsEdges
CHECK_DEADLOCK FALSE
