SPECIFICATION DeviceSpec
CONSTANTS
    MaxFiles = 2
    MaxDtas = 2
    FirstFd = 64
    Paths = {p1, p2}
    Dtas = {d1, d2, d3}
    Entries = 2
    TableRetries = 1
    MaxStamp = 4
    Loaders = {c1, c2}
    Chunk = 2
    Total = 3
    Retries = 1
    MaxFrames = 2
    MaxLoads = 2
    CrashLoopCount = 2
    CrashLoopWindow = 1
    TopCount = 3
    TopWindow = 2
    BootCountdown = 2
    RingWords = 4
    RearmThreshold = 6
    MaxSamples = 14
    LastEntry = 3
    PerPage = 2
    Values = {v1, v2}
    Default = v1
    LongPress = 9
    Steady = 3
    MaxGap = 4
SYMMETRY Symmetry
INVARIANTS
    DeviceTypeOK
    HandleIsMine
    LeakExplained
    PexecReadsOneOpen
    SamplesInOrder
    SettingsSurvive
    TapKeepsSettings
PROPERTIES
    ListingWhole
    CrashLoopStaysPut
    LoadLandsWhole
CHECK_DEADLOCK FALSE
