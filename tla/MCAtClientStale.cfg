CONSTANTS
    c1 = c1
    c2 = c2
    Callers = {c1, c2}
    None = None
    LineNums = {0}
    BufLines = 1
    MaxTries = 1
    MaxTx = 1
    MaxRx = 2
SPECIFICATION Spec
SYMMETRY CallerSymmetry
INVARIANTS
    OkWhenReceived
