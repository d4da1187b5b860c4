SPECIFICATION Spec
CONSTANTS
    MaxReq = 3
    MaxUpsets = 1
    Retries = 1
    MaxRing = 2
    Pages = {1}
INVARIANTS
    ExecOnLoaded
    MirrorAgrees
PROPERTIES
    ReportIsMine
    NotTwice
CHECK_DEADLOCK FALSE
