SPECIFICATION Spec
CONSTANTS
    Text <- ShortTexts
    ArgLen = 4
    BufLen = 8
    MaxSent = 3
    MaxOverlong = 0
    Splits = TRUE
INVARIANTS
    AllExtracted
CHECK_DEADLOCK FALSE
