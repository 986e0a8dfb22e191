SPECIFICATION FreshSpec
CONSTANTS
    local = local
    fast = fast
    deep = deep
    missing = missing
    other = other
    Models = {missing, local, fast, deep, other}
    Available = {local, fast, deep, other}
    NoModel = NoModel
    NoCard = NoCard
    Fallback <- FallsBack
    Configs <- AskOnly
    EntryPoints = {"execute_prompt"}
    MaxTurns = 2
    MaxRefusals = 1
    MaxPicks = 0
    MaxEdits = 0
INVARIANTS
    FreshCount
CHECK_DEADLOCK FALSE
