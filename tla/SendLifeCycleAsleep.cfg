SPECIFICATION FairSpec
CONSTANTS
    Nets = {n1, n2}
    MaxFaults = 1
    Prompt = FALSE
CHECK_DEADLOCK FALSE
PROPERTY SendStarts
