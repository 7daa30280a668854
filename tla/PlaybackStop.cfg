SPECIFICATION FairSpec
CONSTANTS
    Size = 5
    Frame = 2
    ChunkSizes = {0, 1, 3, 4}
    MaxBytes = 6
PROPERTY StopReturns
CHECK_DEADLOCK FALSE
