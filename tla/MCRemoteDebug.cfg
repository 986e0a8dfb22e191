SPECIFICATION Spec
CONSTANTS
    MaxReconnectAttempts = 3
    MaxMissedHeartbeats = 5
    DebugActions = TRUE
INVARIANTS
    StateLostOnlyByShutdown
CHECK_DEADLOCK FALSE
