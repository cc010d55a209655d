CONSTANTS
    t1 = t1
    Threads = {t1}
    Sockets = {0, 2}
SPECIFICATION Spec
INVARIANTS
    TypeOK
    NoLostEvent
    SuccessIsFresh
PROPERTIES
    ConnectReturns
CHECK_DEADLOCK FALSE
