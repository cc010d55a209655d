CONSTANTS
    t1 = t1
    Threads = {t1}
    Sockets = {0, 2}
SPECIFICATION Spec
INVARIANT
    SuccessIsOwn
CHECK_DEADLOCK FALSE
