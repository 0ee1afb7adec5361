SPECIFICATION ScopesFairSpec
CONSTANTS
    j1 = j1
    j2 = j2
    bg = bg
    s1 = s1
    t1 = t1
    root = root
    session = session
    run = run
    NoOwner = NoOwner
    NoScope = NoScope
    Jobs = {j1, j2}
    Lanes = {bg}
    Owners = {s1, t1}
    Scopes = {root, session, run}
    Parent <- Tree
    Closed = {session, root}
    Timed = {session}
    Attr <- InheritAttr
    Policy <- OneSlot
    HistoryLimit = 2
    SessionHistoryLimit = 2
    Unregistered = {}
INVARIANTS
    ScopesTypeOK
    ClosedSubtree
    CloseAccountsForJobs
    SlotAccounting
PROPERTIES
    CloseReturns
CHECK_DEADLOCK FALSE
