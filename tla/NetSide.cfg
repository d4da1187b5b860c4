SPECIFICATION NetSpec
CONSTANTS
    Conns = {c1, c2}
    Grace = 2
    BackoffMin = 2
    BackoffMax = 8
    ProbeInterval = 6
    ProbeRetry = 2
    ProbeTimeout = 1
    ProbeFailures = 3
    HeaderBuf = 4
    BodyBuf = 2
    MaxHeader = 5
    MaxBody = 3
    MaxAttempts = 3
    Timeout = 4
    Interval = 1
INVARIANTS
    ResourcesOwned
    BodyIsExact
    ShownIsOurs
PROPERTIES
    AbortSparesOthers
    ConnectionsEnd
    RejoinSpaced
    DeadIsRejoined
CHECK_DEADLOCK FALSE
