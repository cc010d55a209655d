CONSTANTS
    t1 = t1
    t2 = t2
    InitThreads = {t1, t2}
    INIT_RETRY = 2
    PollRetry = 2
    MaxDowns = 2
SPECIFICATION Spec
INVARIANTS
    TypeOK
    UndisturbedInit
    Settled
    ThreadsBounded
PROPERTIES
    InitEnds
CHECK_DEADLOCK FALSE
