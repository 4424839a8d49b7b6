SPECIFICATION Spec
CONSTANTS
    Loconets = {l1}
    Last = l1
    Functions = {}
    SlotBits = {}
    DirfBits = {}
    Speeds = {5}
    Lossy = FALSE
    MaxSessions = 1
    MaxCommands = 1
PROPERTIES StoppedOnRelease
CHECK_DEADLOCK FALSE
