SPECIFICATION Spec
CONSTANTS
    BITS_PER_LONG = 4
    nmaskbits = 5
    CHUNKSZ = 2
    INT_MAX = 7
    MaxMask = 8
    MaxList = 6
CHECK_DEADLOCK FALSE
INVARIANT
    TooLargeRefused
