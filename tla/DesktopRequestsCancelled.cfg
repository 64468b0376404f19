SPECIFICATION Spec
CONSTANTS
    MaxRequests = 1
INVARIANTS
    CancelledIsDiscarded
CHECK_DEADLOCK FALSE
