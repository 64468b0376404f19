SPECIFICATION FairSpec
CONSTANTS
    Memories = {m1, m2}
    Clients = {c1}
    Expiring = {m1}
    Capacity = 1
    MaxVersion = 2
    MaxThreads = 2
    MaxRefreshes = 2
INVARIANTS
    TypeOK
    OneWorker
    AnswersAreCurrent
PROPERTIES
    RebuiltIsCurrent
    NeverOlder
    NothingAfterStop
    Settles
CHECK_DEADLOCK FALSE
