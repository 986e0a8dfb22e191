SPECIFICATION FairSpec
CONSTANTS
    local = local
    fast = fast
    deep = deep
    missing = missing
    other = other
    Models = {missing, local, fast, deep, other}
    Available = {local, fast, deep, other}
    NoModel = NoModel
    NoCard = NoCard
    Fallback <- FallsBack
    Configs <- AutoOrInactive
    EntryPoints = {"execute_prompt", "send"}
    MaxTurns = 2
    MaxRefusals = 1
    MaxPicks = 1
    MaxEdits = 1
INVARIANTS
    TypeOK
    SpendConsented
    CardCounts
PROPERTIES
    TurnEnds
CHECK_DEADLOCK FALSE
