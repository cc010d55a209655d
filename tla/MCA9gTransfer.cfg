CONSTANTS
    MaxPackets = 2
    RESOLVE_RETRY = 2
    MaxTags = 3
    MaxUrcs = 1
    MaxRx = 3
SPECIFICATION Spec
INVARIANTS
    TypeOK
    SentIsAccepted
    DataAfterPrompt
    CommandNotSwallowed
PROPERTIES
    CallsReturn
CHECK_DEADLOCK FALSE
