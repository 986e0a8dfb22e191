SPECIFICATION Spec
CONSTANTS
    MaxProxies = 3
    MaxCrashes = 0
    Overlap = TRUE
PROPERTIES
    NotRunningHonest
CHECK_DEADLOCK FALSE
