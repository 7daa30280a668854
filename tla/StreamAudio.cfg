SPECIFICATION FairSpec
CONSTANTS
    MaxRequests = 2
    MaxContexts = 2
    Length = 2
    ChunkCap = 1
    MaxConcurrent = 1
    None = None
INVARIANTS
    OrderedUpload
PROPERTIES
    RequestEnds
    GoroutinesEnd
CHECK_DEADLOCK FALSE
