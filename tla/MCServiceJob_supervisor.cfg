SPECIFICATION FairSpec
CONSTANTS
    c1 = c1
    c2 = c2
    Cancellers = {c1, c2}
    MaxFailures = 1
    MaxRestarts = 1
INVARIANTS
    TypeOK
    StoppedOnce
    NoInstanceLeaks
PROPERTIES
    CancelTakesEffect
CHECK_DEADLOCK FALSE
