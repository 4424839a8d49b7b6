SPECIFICATION FairSpec
CONSTANTS
    Clients = {c1}
    Tasks = {t1}
    Loconets = {l1, l2}
    Last = l2
    MaxAdds = 1
    NoTask = NoTask
PROPERTIES NothingForgotten
CHECK_DEADLOCK FALSE
