SPECIFICATION Spec
CONSTANTS
    Slots = {1, 2, 127}
    Addresses = {1, 2, 127, 3}
    Fields = {Speed}
    Values = {0, 1}
    Own = FALSE
    Refuses = FALSE
    MaxMessages = 3
CHECK_DEADLOCK FALSE
INVARIANT FoundByAddress
