SPECIFICATION Spec
CONSTANTS
    N = 2
    Advancers = {w}
    Rebinders = {w}
    Cancellers = {}
    Plans <- NetworkPlans
    Grants = {TRUE}
    MaxAdvances = 2
    MaxNetwork = 2
    MaxCrashes = 2
    DiskMayFail = FALSE
INVARIANTS
    RulingsSurviveRestart
CHECK_DEADLOCK FALSE
