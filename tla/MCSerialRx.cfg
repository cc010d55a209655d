CONSTANTS
    bufsz = 3
    MaxBytes = 7
SPECIFICATION Spec
INVARIANTS
    TypeOK
    StrandedOnlyByReset
PROPERTIES
    ImplementsQueue
    Drained
CHECK_DEADLOCK FALSE
