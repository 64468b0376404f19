SPECIFICATION Spec
CONSTANTS
    N = 2
    Advancers = {w, x}
    Rebinders = {w}
    Cancellers = {}
    Plans <- NetworkPlans
    Grants = {TRUE}
    MaxAdvances = 2
    MaxNetwork = 2
    MaxCrashes = 0
    DiskMayFail = FALSE
INVARIANTS
    ChargedForEveryCall
CHECK_DEADLOCK FALSE
