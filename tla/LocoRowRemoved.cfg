SPECIFICATION FairSpec
CONSTANTS
    Clients = {c1}
    Tasks = {t1, t2}
    Loconets = {l1, l2}
    Last = l2
    MaxAdds = 1
    NoTask = NoTask
PROPERTIES GrantedMeansTaken
CHECK_DEADLOCK FALSE
