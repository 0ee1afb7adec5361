SPECIFICATION Spec
CONSTANTS
    j1 = j1
    j2 = j2
    j3 = j3
    bg = bg
    s1 = s1
    s2 = s2
    t1 = t1
    root = root
    NoOwner = NoOwner
    Jobs = {j1, j2, j3}
    Lanes = {bg}
    Owners = {s1, s2, t1}
    Scopes = {root}
    Attr <- CompetingAttr
    Policy <- OneSlot
    HistoryLimit = 2
    SessionHistoryLimit = 1
    Unregistered = {}
INVARIANTS
    SlotAccounting
    RunningHoldsLease
    StartedJobGivesSlotBack
PROPERTIES
    QueueOrder
    DrainRespectsCaps
CHECK_DEADLOCK FALSE
