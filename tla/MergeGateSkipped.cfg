SPECIFICATION Spec
CONSTANTS
    MaxRuns = 1
    Hooks = {api}
    Attempts = 1
    Levels = {1}
    Branches = {"main", "dev"}
    Budget = 1
    Repos <- OnlyAuto
    NoBranch = "none"
INVARIANTS SkippedIsMadeUp
CHECK_DEADLOCK FALSE
