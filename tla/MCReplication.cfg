SPECIFICATION FairSpec
CONSTANTS
    b1 = b1
    b2 = b2
    Sites <- TwoSites
    Tasks <- TwoWay
    SiteOf <- TwoWaySites
    PeerOf <- TwoWayPeers
    Nodes <- OneNode
    HomeOf <- HomeA
    Starts <- OldOrNew
    Handlers = {"h1", "h2"}
    Maps <- OneProp
    Changes <- SetP
    Links <- OneLoop
    BatchSize = 2
    LeasedSites = {}
    MaxClock = 3
    MaxFaults = 0
INVARIANTS OneOrigin OneOwner CaughtUpMeansEqual
PROPERTY FollowsOneHistory
CHECK_DEADLOCK FALSE
