CONSTANTS
    u1 = u1
    u2 = u2
    Users = {u1, u2}
    socket_num = 2
    MaxPkts = 1
    MaxEvents = 2
    MaxConn = 2
SPECIFICATION Spec
INVARIANT
    ClosedHasNoLink
CHECK_DEADLOCK FALSE
