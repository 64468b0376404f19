SPECIFICATION Spec
CONSTANTS
    N = 2
    Advancers = {w, x}
    Rebinders = {w}
    Cancellers = {x}
    Plans <- MixedPlans
    Grants = {TRUE}
    MaxAdvances = 2
    MaxNetwork = 1
    MaxCrashes = 1
    DiskMayFail = FALSE
INVARIANTS
    Inv
    OneAttempt
PROPERTIES
    TerminalIsFinal
CHECK_DEADLOCK FALSE
