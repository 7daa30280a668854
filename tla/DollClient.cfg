SPECIFICATION ClientFairSpec
CONSTANTS
    QueueSize = 3
    MaxRecording = 2
    MaxLines = 4
    MaxAttempts = 2
INVARIANTS
    TypeOK
    QueueConserves
    OnlyThisRecording
    ThreadEndsFirst
    FreedAfterStop
    NothingLeft
    Authorized
PROPERTIES
    QueuedIsWritten
    ShutdownCompletes
    StartupEnds
CHECK_DEADLOCK FALSE
