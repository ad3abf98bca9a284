SPECIFICATION Spec
CONSTANTS
    MaxRuns = 2
    Hooks = {api}
    Attempts = 1
    Levels = {1}
    Branches = {"main", "dev"}
    Budget = 0
    Repos <- OnlyFiltered
    NoBranch = "none"
INVARIANTS KeptIsRight
CHECK_DEADLOCK FALSE
