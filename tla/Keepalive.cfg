SPECIFICATION TimeSpec
CONSTANTS
    pingPeriod = 4
    pongWait = 8
    MaxDelay = 1
    MaxBusy = 2
INVARIANTS
    AliveStays
    DeadNoticed
CHECK_DEADLOCK FALSE
