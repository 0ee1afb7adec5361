SPECIFICATION Spec
CONSTANTS
    c1 = c1
    c2 = c2
    Cancellers = {c1}
    MaxFailures = 1
    MaxRestarts = 1
INVARIANTS
    CancelledMeansStopped
CHECK_DEADLOCK FALSE
