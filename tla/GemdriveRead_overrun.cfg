SPECIFICATION RSpec
CONSTANTS
    MaxCmds = 4
    Retries = 1
    MaxReboots = 0
    HookInstalled = FALSE
    BufferSize = 2
    FileSize = 6
    Starts = {0, 1}
    Seeks <- MCSeeks
    Wants = {1, 2, 3, 5}
INVARIANTS
    NoMoreThanWanted
CHECK_DEADLOCK FALSE
