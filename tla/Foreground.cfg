SPECIFICATION ForegroundSpec
CONSTANTS
    MaxCmds = 3
    Retries = 1
    MaxReboots = 1
    HookInstalled = FALSE
    na = na
    nb = nb
    nc = nc
    Cards <- MCCards
    PageLines = 2
    MaxTyped = 2
    MaxEntries = 4
INVARIANTS
    FalseAnswerNeedsGiveUp
    SelectionExists
PROPERTIES
    AnswerIsMine
    SendSyncKeepsContract
    NoLateReplay
    SavesWhatIsShown
CHECK_DEADLOCK FALSE
