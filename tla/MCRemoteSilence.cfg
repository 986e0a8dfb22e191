SPECIFICATION FairSpec
CONSTANTS
    MaxReconnectAttempts = 3
    MaxMissedHeartbeats = 5
    DebugActions = FALSE
PROPERTIES
    SilenceNoticed
CHECK_DEADLOCK FALSE
