\* Responses of one word with every small error, whole frames and serial numbers
\* with every boundary value; all 16-bit readings; every breakpoint.
CONSTANTS
    Lengths = {1, 9, 16}
    Samples = {0, 1, 32767, 32768, 65535}
    Base = 258
    MaxFlips = 3
    LongBits = {0, 15, 23}
    Invalid = Invalid
    LevelReadings <- AroundBounds
SPECIFICATION Spec
INVARIANTS
    CorruptionNoticed
    StuckLineNoticed
    CorruptionRejected
    DecodedExactly
    SerialExact
    PrintedTruly
    AttributesAgree
    CountsExceededBounds
    WorstValidDecides
CHECK_DEADLOCK FALSE
