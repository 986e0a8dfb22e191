SPECIFICATION FairSpec
CONSTANTS
    c1 = c1
    c2 = c2
    c3 = c3
    Clients = {c1, c2, c3}
    MaxAttempts = 1
    MaxFaults = 2
INVARIANTS
    TypeOK
    TaskOwnsEntry
    OneConnection
PROPERTIES
    EveryoneSettles
CHECK_DEADLOCK FALSE
