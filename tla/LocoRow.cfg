SPECIFICATION FairSpec
CONSTANTS
    Clients = {c1}
    Tasks = {t1, t2}
    Loconets = {l1}
    Last = l1
    MaxAdds = 2
    NoTask = NoTask
INVARIANTS TypeOK PendingIsWaited HeldRowIsActive
PROPERTIES AddIsDecided SlotIsReleased RowIsFollowed
CHECK_DEADLOCK FALSE
