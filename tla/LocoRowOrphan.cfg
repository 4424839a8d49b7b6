SPECIFICATION Spec
CONSTANTS
    Clients = {c1}
    Tasks = {t1, t2}
    Loconets = {l1}
    Last = l1
    MaxAdds = 1
    NoTask = NoTask
INVARIANTS ActiveHasOwner
CHECK_DEADLOCK FALSE
