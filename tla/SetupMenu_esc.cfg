SPECIFICATION MenuSpec
CONSTANTS
    na = na
    nb = nb
    nc = nc
    Cards <- MCCards
    PageLines = 2
    MaxTyped = 2
    MaxEntries = 4
PROPERTIES
    EscLeavesPicker
CHECK_DEADLOCK FALSE
