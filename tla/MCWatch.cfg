SPECIFICATION FairSpec
CONSTANTS
    c1 = c1
    c2 = c2
    hit = hit
    miss = miss
    Gone = Gone
    NoState = NoState
    NoPrincipal = NoPrincipal
    Nodes = {1, 2}
    TypeOf <- MCTypeOf
    Types <- MCTypes
    Vals = {hit, miss}
    Clients = {c1, c2}
    Principal <- MCPrincipal
    Scenarios <- MCScenarios
    Subs = {1, 2}
    QueueSize = 1
    MaxDropped = 2
    SnapshotLimit = 1
    BatchSize = 2
    MaxTotal = 2
    MaxNamespace = 2
    MaxQuery = 1
    MaxPrincipal = 1
    MaxLog = 3
    MaxBeats = 1
    MaxWriters = 2
INVARIANTS TrackedIsExact StreamIsExact RegistryHoldsRunning
PROPERTY ExpiredLeave
CHECK_DEADLOCK FALSE
