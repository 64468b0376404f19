SPECIFICATION FairSpec
CONSTANTS
    N = 2
    Advancers = {w}
    Rebinders = {w}
    Cancellers = {ui}
    Plans <- TwoStepPlans
    Grants = {TRUE, FALSE}
    MaxAdvances = 3
    MaxNetwork = 3
    MaxCrashes = 2
    DiskMayFail = TRUE
INVARIANTS
    Constructible
    CompletedWasRun
    ExplanationIsCurrent
    PaidFor
PROPERTIES
    KeepsItsPromise
    RunningSettles
CHECK_DEADLOCK FALSE
