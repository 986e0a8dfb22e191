SPECIFICATION Spec
CONSTANTS
    MaxReconnectAttempts = 3
    MaxMissedHeartbeats = 5
    DebugActions = FALSE
INVARIANTS
    DeathNoticed
CHECK_DEADLOCK FALSE
