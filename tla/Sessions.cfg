SPECIFICATION Spec
CONSTANTS
    SessionIds = {default, a, b}
    NoSession = none
    Default = default
    Panel = panel
    Worker = worker
    MaxRecords = 2
    MaxFaults = 2
    MaxCrashes = 1
INVARIANTS
    TypeOK
    SettledAgrees
    RecordsHaveSession
    NoRecordLost
CHECK_DEADLOCK FALSE
