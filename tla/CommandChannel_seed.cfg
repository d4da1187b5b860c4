SPECIFICATION Spec
CONSTANTS
    MaxCmds = 2
    Retries = 1
    MaxReboots = 0
    HookInstalled = TRUE
INVARIANTS
    SeedProvesResponse
CHECK_DEADLOCK FALSE
