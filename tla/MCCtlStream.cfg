SPECIFICATION FairSpec
CONSTANTS
    Text <- AllTexts
    ArgLen = 8
    BufLen = 14
    MaxSent = 3
    MaxOverlong = 1
    Splits = FALSE
INVARIANTS
    TypeOK
    TextArrives
    BacklogIsSequence
PROPERTIES
    ProvidesChannel
CHECK_DEADLOCK FALSE
