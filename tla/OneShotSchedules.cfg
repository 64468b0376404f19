SPECIFICATION FairSpec
CONSTANTS
    Worker = w
    Window = ui
    MaxTasks = 1
    MaxActive = 1
    PerCycle = 1
    RetryLimits = {1}
    MaxCrashes = 1
    DiskMayFail = FALSE
    MaxSchedules = 1
    MaxGrants = 2
    MaxFaults = 1
    Horizon = 2
    Week = 2
INVARIANTS
    TypeOK
    AttemptedAtMostOnce
    OutcomeIsTrue
    AttemptsAccounted
PROPERTIES
    DueIsConsidered
    ClaimIsResolved
    RunningSettles
CHECK_DEADLOCK FALSE
