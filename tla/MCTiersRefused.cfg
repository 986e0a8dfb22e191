SPECIFICATION Spec
CONSTANTS
    local = local
    fast = fast
    deep = deep
    missing = missing
    other = other
    Models = {missing, local, fast, deep, other}
    Available = {local, fast, deep, other}
    NoModel = NoModel
    NoCard = NoCard
    Fallback <- FallsBack
    Configs <- AutoOnly
    EntryPoints = {"execute_prompt"}
    MaxTurns = 1
    MaxRefusals = 1
    MaxPicks = 0
    MaxEdits = 0
INVARIANTS
    ClimbedOnce
CHECK_DEADLOCK FALSE
