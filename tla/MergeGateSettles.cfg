SPECIFICATION Spec
CONSTANTS
    MaxRuns = 1
    Hooks = {api}
    Attempts = 2
    Levels = {1}
    Branches = {"main", "dev"}
    Budget = 2
    Repos <- AllSettings
    NoBranch = "none"
INVARIANTS SettledInv
PROPERTIES SettlingEnds
CHECK_DEADLOCK FALSE
