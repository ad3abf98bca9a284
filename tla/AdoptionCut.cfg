SPECIFICATION PubSpec
CONSTANTS
    Reviews = {1, 2, 3, 4}
    Places = {1}
    Overlap = 2
    Troubles = 2
    TroubleKinds = {"crash"}
    Found = {1, 2}
    Critical = 2
    NoLine = NoLine
PROPERTIES AdoptionSurvivesDeath
CHECK_DEADLOCK FALSE
