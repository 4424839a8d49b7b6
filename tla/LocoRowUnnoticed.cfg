SPECIFICATION Spec
CONSTANTS
    Clients = {c1}
    Tasks = {t1}
    Loconets = {l1}
    Last = l1
    MaxAdds = 2
    NoTask = NoTask
PROPERTIES ControlIsNoticed
CHECK_DEADLOCK FALSE
