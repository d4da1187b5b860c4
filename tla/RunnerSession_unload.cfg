SPECIFICATION Spec
CONSTANTS
    MaxReq = 2
    MaxUpsets = 0
    Retries = 0
    MaxRing = 1
    Pages = {1}
INVARIANT UnloadsTheLoaded
CHECK_DEADLOCK FALSE
