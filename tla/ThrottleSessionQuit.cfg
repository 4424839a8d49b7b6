SPECIFICATION Spec
CONSTANTS
    Conns = {c1, c2}
    MaxClients = 2
    Careful = {FALSE}
    MaxOutside = 2
CHECK_DEADLOCK FALSE
PROPERTY QuitOwnAlways
