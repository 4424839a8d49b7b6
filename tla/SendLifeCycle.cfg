SPECIFICATION FairSpec
CONSTANTS
    Nets = {n1, n2}
    MaxFaults = 1
    Prompt = TRUE
CHECK_DEADLOCK FALSE
INVARIANT TypeOK
PROPERTIES
    SendStarts
    StopEnds
