SPECIFICATION FilesSpec
CONSTANTS
    MaxCmds = 4
    Retries = 1
    MaxReboots = 0
    HookInstalled = FALSE
    BufferSize = 2
    FileSize = 6
    Starts = {0, 1}
    Seeks <- MCSeeks
    Wants = {1, 2, 5}
    na = na
    nb = nb
    Names = {na, nb}
    Nodes <- MCNodes
    AbsPaths <- MCAbsPaths
    RelPaths <- MCRelPaths
    CallRetries = 1
INVARIANTS
    FilesTypeOK
    ReadInOrder
    BypassNeedsGiveUp
PROPERTIES
    StatusIsTrue
CHECK_DEADLOCK FALSE
