SPECIFICATION Spec
CONSTANTS
    Clients = {c1, c2}
    Tasks = {t1, t2}
    Loconets = {l1}
    Last = l1
    MaxAdds = 2
    NoTask = NoTask
INVARIANTS AtMostOneOwner
CHECK_DEADLOCK FALSE
