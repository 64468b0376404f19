SPECIFICATION Spec
CONSTANTS
    MaxApprovals = 2
    MaxStarts = 3
    MaxRequests = 2
    MaxFaults = 1
    MaxCrashes = 1
INVARIANTS
    TypeOK
    StartsOnce
    CoveredByApproval
    MissionOnce
    SpentIsWritten
CHECK_DEADLOCK FALSE
