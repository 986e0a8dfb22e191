SPECIFICATION FairSpec
CONSTANTS
    MaxReconnectAttempts = 3
    MaxMissedHeartbeats = 5
    DebugActions = TRUE
INVARIANTS
    TypeOK
    LifeCycle
PROPERTIES
    ShowsStatus
    NoResurrection
    OneAttemptAtATime
    ReconnectSettles
    MissedHeartbeatResolves
CHECK_DEADLOCK FALSE
