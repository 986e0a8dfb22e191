SPECIFICATION Spec
CONSTANTS
    MaxSends <- FaultSends
    MaxOutages = 2
    Background = {"server"}
    None = None
INVARIANTS
    TypeOK
    DiscardedWhenOvertaken
CHECK_DEADLOCK FALSE
