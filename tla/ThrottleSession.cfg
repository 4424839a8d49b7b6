SPECIFICATION FairSpec
CONSTANTS
    Conns = {c1, c2}
    MaxClients = 2
    Careful = {TRUE, FALSE}
    MaxOutside = 2
CHECK_DEADLOCK FALSE
INVARIANTS
    TypeOK
    OneReader
    Attached
PROPERTIES
    QuitOwn
    Served
    StopEnds
