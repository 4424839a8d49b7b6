SPECIFICATION Spec
CONSTANTS
    Slots = {1, 2, 127}
    Addresses = {1, 2, 127, 3}
    Fields = {Speed}
    Values = {0, 1}
    Own = TRUE
    Refuses = FALSE
    MaxMessages = 4
CHECK_DEADLOCK FALSE
INVARIANTS TypeOK FollowsOthers
