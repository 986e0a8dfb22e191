SPECIFICATION FairSpec
CONSTANTS
    MaxProxies = 3
    MaxCrashes = 2
    Overlap = FALSE
INVARIANTS
    TypeOK
    NoOrphan
    StreamsNotCrossed
PROPERTIES
    NotRunningHonest
    StartRecovers
    ProxySettles
CHECK_DEADLOCK FALSE
