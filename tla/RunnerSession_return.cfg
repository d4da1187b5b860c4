SPECIFICATION FairSpec
CONSTANTS
    MaxReq = 1
    MaxUpsets = 2
    Retries = 1
    MaxRing = 2
    Pages = {1}
PROPERTIES
    RunnerComesBack
CHECK_DEADLOCK FALSE
