SPECIFICATION FairSpec
CONSTANTS
    Size = 7
    Frame = 3
    ChunkSizes = {0, 1, 2, 5}
    MaxBytes = 21
INVARIANTS
    TypeOK
    NoUseAfterFree
PROPERTIES
    ImplementsPipe
    WriterReturns
    FramesPlayed
CHECK_DEADLOCK FALSE
