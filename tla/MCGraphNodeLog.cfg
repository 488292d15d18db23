SPECIFICATION Spec
CONSTANTS
    a = a
    b = b
    p = p
    q = q
    Nodes <- TwoNodes
    Procs <- TwoProcs
    SortKeys <- NoSortKey
    Directions <- OneWay
    FetchLimit = 1
    TxLimit = 1
    LookupLimit = 1
SYMMETRY Symmetric
INVARIANT CdcRebuildsNodes
CHECK_DEADLOCK FALSE
