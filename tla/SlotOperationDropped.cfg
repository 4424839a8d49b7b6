SPECIFICATION FairSpec
CONSTANTS
    Loconets = {l1}
    Last = l1
    Functions = {f9}
    SlotBits = {}
    DirfBits = {}
    Speeds = {5}
    Lossy = FALSE
    MaxSessions = 1
    MaxCommands = 1
PROPERTIES FunctionsConverge
CHECK_DEADLOCK FALSE
