SPECIFICATION Spec
CONSTANTS
    MaxSize = 2
    BufLen = 2
    WireCap = 2
    MaxFaults = 0
INVARIANTS
    ReceivedAllCompletes
CHECK_DEADLOCK FALSE
