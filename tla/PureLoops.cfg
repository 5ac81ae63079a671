CONSTANTS
    a = a
    b = b
    Alphabet = {a, b}
    MaxLength = 4
    MaxSize = 40
    Cycles <- MCCycles
SPECIFICATION LoopsSpec
INVARIANTS
    ColumnIsExact
    EveryByteOnce
    ChangeIsDetected
CHECK_DEADLOCK FALSE
