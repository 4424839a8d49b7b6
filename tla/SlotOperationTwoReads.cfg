SPECIFICATION Spec
CONSTANTS
    Loconets = {l1}
    Last = l1
    Functions = {}
    SlotBits = {}
    DirfBits = {}
    Speeds = {5}
    Lossy = FALSE
    MaxSessions = 1
    MaxCommands = 2
PROPERTIES ByteOfASpeed
CHECK_DEADLOCK FALSE
