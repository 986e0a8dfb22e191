SPECIFICATION FairSpec
CONSTANTS
    MaxSends <- OneOutageSends
    MaxOutages = 1
    Background = {}
    None = None
INVARIANTS
    NothingLost
    WatermarkHonest
PROPERTIES
    EventuallyHandled
CHECK_DEADLOCK FALSE
