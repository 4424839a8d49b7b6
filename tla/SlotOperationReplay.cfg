SPECIFICATION FairSpec
CONSTANTS
    Loconets = {l1}
    Last = l1
    Functions = {f0}
    SlotBits = {f0}
    DirfBits = {f0}
    Speeds = {5}
    Lossy = FALSE
    MaxSessions = 2
    MaxCommands = 1
PROPERTIES FunctionsConverge
CHECK_DEADLOCK FALSE
