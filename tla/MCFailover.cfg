SPECIFICATION Spec
CONSTANTS
    b1 = b1
    b2 = b2
    Sites <- TwoSites
    Tasks <- Standby
    SiteOf <- StandbySites
    PeerOf <- StandbyPeers
    Nodes <- OneNode
    HomeOf <- HomeA
    Starts <- OldNode
    Handlers = {"h1"}
    Maps <- TwoProps
    Changes <- SetPOrQ
    Links = {}
    BatchSize = 2
    LeasedSites = {"B"}
    MaxClock = 2
    MaxFaults = 2
SYMMETRY Symmetric
INVARIANTS PositionCovers CaughtUpMeansEqual CopiesAreHistoric
CHECK_DEADLOCK FALSE
