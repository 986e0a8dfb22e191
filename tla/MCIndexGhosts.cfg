SPECIFICATION Spec
CONSTANTS
    v1 = v1
    v2 = v2
    s1 = s1
    s2 = s2
    FileCount = 2
    Versions = {v1, v2}
    Blank = {v2}
    None = None
    Absent = Absent
    Unfit = Unfit
    Searches = {s1, s2}
    MaxFiles = 1
    MaxEdits = 2
    PruneFails = FALSE
INVARIANTS
    NoGhosts
CHECK_DEADLOCK FALSE
