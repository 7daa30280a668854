SPECIFICATION FairSpec
CONSTANTS
    InputCap = 1
    OutputCap = 1
    SendCap = 1
    MaxInputs = 2
    MaxFrames = 2
INVARIANTS
    TypeOK
    RepliesInOrder
    DeadMeansClosed
PROPERTIES
    HangupNoticed
    Answered
    SessionEnds
CHECK_DEADLOCK FALSE
