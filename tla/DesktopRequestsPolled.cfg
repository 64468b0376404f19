SPECIFICATION FairSpec
CONSTANTS
    MaxRequests = 3
INVARIANTS
    SingleFlight
    ToOwnHandler
    ControlsMatch
    CancellationHolds
PROPERTIES
    EveryRequestAnswered
CHECK_DEADLOCK FALSE
