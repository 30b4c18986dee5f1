SPECIFICATION Spec
CONSTANTS
    Incoming = {t1}
    Outgoing = {t2}
    Size = 2
    Position = {1}
    ServerSSL = TRUE
    Directory = {d1, d2}
    Output = d1
    MaxEdits = 1
    Nobody = nobody
INVARIANTS
    TypeOK
    OneRow
    ShownIsCurrent
    FinalProgress
PROPERTIES
    VerdictOnce
CHECK_DEADLOCK FALSE
