SPECIFICATION FairSpec
CONSTANTS
    Loconets = {l1, l2}
    Last = l2
    Functions = {}
    SlotBits = {}
    DirfBits = {}
    Speeds = {5}
    Lossy = FALSE
    MaxSessions = 2
    MaxCommands = 1
PROPERTIES StopIsSent SpeedConverges
CHECK_DEADLOCK FALSE
