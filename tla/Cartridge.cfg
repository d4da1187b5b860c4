SPECIFICATION BusSpec
CONSTANTS
    MaxCmds = 2
    Retries = 1
    MaxReboots = 1
    HookInstalled = TRUE
    RingBytes = 2
    Modulus = 4
    Tails = {t1}
    Batch = 2
    MaxEmitted = 6
    LagLimit = 3
INVARIANTS
    AnsweredWasExecuted
    Accounted
PROPERTIES
    EveryCommandEnds
    EachByteIsDue
    TailCatchesUp
CHECK_DEADLOCK FALSE
