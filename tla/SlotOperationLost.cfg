SPECIFICATION FairSpec
CONSTANTS
    Loconets = {l1}
    Last = l1
    Functions = {}
    SlotBits = {}
    DirfBits = {}
    Speeds = {5}
    Lossy = TRUE
    MaxSessions = 1
    MaxCommands = 1
PROPERTIES SpeedConverges
CHECK_DEADLOCK FALSE
