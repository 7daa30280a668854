SPECIFICATION Spec
CONSTANTS
    Sounds <- MCSounds
    FRAMES_PER_BUFFER = 3
    INT_MAX = 220
    SIZE_MAX = 4096
    UINT32_MAX = 4096
    Junk = 255
INVARIANTS
    RoundTrip
    PlaysFromFirstSample
CHECK_DEADLOCK FALSE
