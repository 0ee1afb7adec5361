SPECIFICATION Spec
CONSTANTS
    j1 = j1
    j2 = j2
    j3 = j3
    bg = bg
    s1 = s1
    s2 = s2
    t1 = t1
    root = root
    NoOwner = NoOwner
    Jobs = {j1, j2}
    Lanes = {bg}
    Owners = {s1, s2, t1}
    Scopes = {root}
    Attr <- PairAttr
    Policy <- OneSlot
    HistoryLimit = 2
    SessionHistoryLimit = 2
    Unregistered = {}
INVARIANTS
    SlotReleasedAtTerminal
CHECK_DEADLOCK FALSE
