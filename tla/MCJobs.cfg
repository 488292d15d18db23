SPECIFICATION FairSpec
CONSTANTS
    s1 = s1
    s2 = s2
    t1 = t1
    t2 = t2
    a = a
    b = b
    Person = Person
    City = City
    Servers = {s1, s2}
    Tasks = {t1, t2}
    ServerOf <- ServerOfTask
    Ids = {1, 2, 3}
    Props = {"p", "q"}
    Vals = {a, b}
    Null = Null
    Templates <- MCTemplates
    Defs <- MCDefs
    NoDef = NoDef
    Unborn = Unborn
    NoRecord = NoRecord
    Sites = {"here", "east"}
    Here = "here"
    NoSite = NoSite
    MaxVersion = 3
    Type = Person
    Edges <- MCEdges
    KeyOrder <- MCKeyOrder
    Bidirectional = TRUE
    BatchSize = 1
    ScanLimit = 2
    SaveEvery = 2
    InlineEdges = 1
    TxKeys = 15
    Consumers = {"cache", "replica"}
    Scenarios <- MCScenarios
    MaxFaults = 1
INVARIANTS IndexCovers TermsExact BackfillCovers DropIsComplete RetentionKeepsUnread
PROPERTY JobsFinish
CHECK_DEADLOCK FALSE
