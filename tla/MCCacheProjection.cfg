SPECIFICATION FairSpec
CONSTANTS
    nsA = nsA
    n1 = n1
    e1 = e1
    e2 = e2
    r1 = r1
    Namespaces <- OneNamespace
    NodeKeys <- OneNode
    EdgeKeys <- TwoEdges
    Readers <- OneReader
    PollLimit = 2
    GroupSize = 2
    MaxLog = 3
    MaxRestarts = 1
    DiskLoss = TRUE
CHECK_DEADLOCK FALSE
INVARIANTS
    TypeOK
    HitsCoverConsumer
    HitsCoverHwm
    CheckpointBehindCache
    SessionGuarantee
PROPERTY EventuallyProjected
