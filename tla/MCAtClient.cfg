CONSTANTS
    c1 = c1
    c2 = c2
    Callers = {c1, c2}
    None = None
    LineNums = {0, 1}
    BufLines = 1
    MaxTries = 2
    MaxTx = 2
    MaxRx = 2
SPECIFICATION Spec
SYMMETRY CallerSymmetry
INVARIANTS
    TypeOK
    LockOwner
    RespSound
    TokenBound
    NoLostWakeup
    QuietChannel
