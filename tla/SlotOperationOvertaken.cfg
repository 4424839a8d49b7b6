SPECIFICATION FairSpec
CONSTANTS
    Loconets = {l1, l2}
    Last = l2
    Functions = {}
    SlotBits = {}
    DirfBits = {}
    Speeds = {5}
    Lossy = FALSE
    MaxSessions = 1
    MaxCommands = 0
PROPERTIES SpeedIsRows
CHECK_DEADLOCK FALSE
