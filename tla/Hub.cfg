SPECIFICATION FairSpec
CONSTANTS
    devA = devA
    devB = devB
    Conns = {a1, a2, a3}
    Devices = {devA, devB}
    DeviceOf <- MCDeviceOf
    InputCap = 1
    Listener = Listener
    None = None
INVARIANTS
    TypeOK
    DuplicateOnlyByRace
PROPERTIES
    ClosedLeaves
    ListenerGoesOn
CHECK_DEADLOCK FALSE
