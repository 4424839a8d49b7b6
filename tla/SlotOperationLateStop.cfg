SPECIFICATION Spec
CONSTANTS
    Loconets = {l1}
    Last = l1
    Functions = {}
    SlotBits = {}
    DirfBits = {}
    Speeds = {5}
    Lossy = FALSE
    MaxSessions = 2
    MaxCommands = 0
PROPERTIES StopWasAsked
CHECK_DEADLOCK FALSE
