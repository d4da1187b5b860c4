SPECIFICATION WFairSpec
CONSTANTS
    MaxCmds = 5
    Retries = 1
    MaxReboots = 0
    HookInstalled = FALSE
    ChunkSize = 2
    Capacity = 4
    Calls = 2
    Sizes = {2, 3}
INVARIANTS
    BlockWrittenOnce
PROPERTIES
    FwriteKeepsContract
    FwriteReturns
CHECK_DEADLOCK FALSE
