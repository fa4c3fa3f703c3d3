CONSTANTS
    Keys <- MCKeys
    Samples = 3
    Byte = 5
    MaxMoves = 8
CHECK_DEADLOCK FALSE
SPECIFICATION Spec
INVARIANTS
    TypeOK
    ScanToken
    TwoCells
PROPERTIES
    NoKeyLost
    KeyWasDown
    ScanEnds
    HeldKeyRead
