CONSTANTS
    MaxLen = 6
    Sentences <- AllSentences
    Fields = {0, 1, 3}
SPECIFICATION Spec
INVARIANTS
    NumberRead
    FieldLocal
    CommaFound
    SpeedInThousandths
    CoordinateClose
CHECK_DEADLOCK FALSE
