CONSTANTS
    BuffLen = 4
    CountMod = 3
    RxCap = 2
    Text = {"a", "b"}
SPECIFICATION Spec
INVARIANTS
    TypeOK
    NoStrandedByte
    InBounds
    LineIntact
PROPERTIES
    LineAnalysed
