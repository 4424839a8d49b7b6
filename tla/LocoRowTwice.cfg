SPECIFICATION Spec
CONSTANTS
    Clients = {c1}
    Tasks = {t1}
    Loconets = {l1, l2}
    Last = l2
    MaxAdds = 2
    NoTask = NoTask
INVARIANTS NoDoubleCompletion
CHECK_DEADLOCK FALSE
