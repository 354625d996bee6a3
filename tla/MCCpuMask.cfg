SPECIFICATION Spec
CONSTANTS
    BITS_PER_LONG = 2
    Masks = {m1, m2}
    Sizes <- const_Sizes
INVARIANTS
    MasksAreSets
    ShiftsExact
PROPERTIES
    UnusedStayClear
