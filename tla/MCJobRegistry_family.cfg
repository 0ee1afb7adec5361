SPECIFICATION FairSpec
CONSTANTS
    j1 = j1
    j2 = j2
    j3 = j3
    bg = bg
    s1 = s1
    s2 = s2
    t1 = t1
    root = root
    NoOwner = NoOwner
    Jobs = {j1, j2, j3}
    Lanes = {bg}
    Owners = {s1, s2, t1}
    Scopes = {root}
    Attr <- FamilyAttr
    Policy <- OneSlot
    HistoryLimit = 1
    SessionHistoryLimit = 1
    Unregistered = {j1}
INVARIANTS
    TypeOK
    SlotAccounting
    RunningHoldsLease
    StartedJobGivesSlotBack
PROPERTIES
    SlotEventuallyReleased
CHECK_DEADLOCK FALSE
