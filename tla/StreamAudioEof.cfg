SPECIFICATION Spec
CONSTANTS
    MaxRequests = 1
    MaxContexts = 1
    Length = 2
    ChunkCap = 1
    MaxConcurrent = 1
    None = None
INVARIANTS
    AudioComplete
CHECK_DEADLOCK FALSE
