SPECIFICATION FairSpec
CONSTANTS
    Prompt = TRUE
INVARIANTS
    TypeOK
    ThreadIsAwaited
    VersionOnce
    OfferedIsUsable
PROPERTIES
    EstablishedIsConnected
    ControlSettles
CHECK_DEADLOCK FALSE
