SPECIFICATION Spec
CONSTANTS
    Workers = {w, x}
    Operators = {ui}
    MaxTasks = 2
    MaxActive = 1
    PerCycle = 1
    RetryLimits = {1}
    MaxCrashes = 1
    DiskMayFail = TRUE
INVARIANTS
    ClaimedByOne
PROPERTIES
    ClosedStaysClosed
CHECK_DEADLOCK FALSE
