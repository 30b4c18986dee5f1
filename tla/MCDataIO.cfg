SPECIFICATION FairSpec
CONSTANTS
    MaxSize = 5
    BufLen = 2
    WireCap = 3
    MaxFaults = 2
INVARIANTS
    TypeOK
    Gapless
    CompletedIsWhole
    CompletedIsSent
PROPERTIES
    Completes
CHECK_DEADLOCK FALSE
