SPECIFICATION Spec
CONSTANTS
    InputCap = 1
    OutputCap = 1
    SendCap = 1
    MaxInputs = 2
    MaxFrames = 2
INVARIANT
    SafeSend
CHECK_DEADLOCK FALSE
