SPECIFICATION Spec
CONSTANTS
    MaxRuns = 2
    Hooks = {api}
    Attempts = 1
    Levels = {1}
    Branches = {"main", "dev"}
    Budget = 1
    Repos <- Paused
    NoBranch = "none"
INVARIANTS GateSettled VerdictOfAReview
CHECK_DEADLOCK FALSE
