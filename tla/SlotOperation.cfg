SPECIFICATION FairSpec
CONSTANTS
    Loconets = {l1}
    Last = l1
    Functions = {f0, f5}
    SlotBits = {f0, f5}
    DirfBits = {f0}
    Speeds = {5, 9}
    Lossy = FALSE
    MaxSessions = 1
    MaxCommands = 3
INVARIANTS TypeOK FunctionsPending
PROPERTIES FunctionsConverge SpeedConverges
CHECK_DEADLOCK FALSE
