SPECIFICATION Spec
CONSTANTS
    MaxId = 1
    MaxBatch = 1
    MaxFaults = 1
    Suggesters <- MCBoth
    UserStops = TRUE
INVARIANTS
    TypeOK
    Consent
    BothPrepared
    ListenerReady
    ExpectedCommands
    ClosedPeerStartsNothing
PROPERTIES
    Final
    KeepsContract
CHECK_DEADLOCK FALSE
