SPECIFICATION TimeFairSpec
CONSTANTS
    Pages = {p1, p2}
    Prompt = TRUE
    MaxAway = 4
CHECK_DEADLOCK FALSE
INVARIANTS
    SuccessIsTrue
PROPERTIES
    FailureStays
    UpdateEnds
