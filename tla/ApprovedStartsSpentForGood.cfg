SPECIFICATION Spec
CONSTANTS
    MaxApprovals = 2
    MaxStarts = 3
    MaxRequests = 1
    MaxFaults = 0
    MaxCrashes = 1
INVARIANTS
    SpentForGood
CHECK_DEADLOCK FALSE
