SPECIFICATION Spec
CONSTANTS
    MaxProxies = 3
    MaxCrashes = 0
    Overlap = FALSE
INVARIANTS
    ReconnectionKept
CHECK_DEADLOCK FALSE
