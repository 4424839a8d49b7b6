SPECIFICATION Spec
CONSTANTS
    Clients = {c1}
    Tasks = {t1}
    Loconets = {l1}
    Last = l1
    MaxAdds = 2
    NoTask = NoTask
INVARIANTS DrivesKnownValues
CHECK_DEADLOCK FALSE
