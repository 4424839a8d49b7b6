SPECIFICATION FairSpec
CONSTANTS
    Loconets = {l1, l2}
    Last = l2
    Functions = {f0}
    SlotBits = {f0}
    DirfBits = {f0}
    Speeds = {5}
    Lossy = FALSE
    MaxSessions = 1
    MaxCommands = 1
PROPERTIES FunctionsConverge
CHECK_DEADLOCK FALSE
