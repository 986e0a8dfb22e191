SPECIFICATION Spec
CONSTANTS
    MaxSends <- TwoOutageSends
    MaxOutages = 2
    Background = {}
    None = None
INVARIANTS
    NothingLost
CHECK_DEADLOCK FALSE
