SPECIFICATION Spec
CONSTANTS
    Prompt = FALSE
PROPERTIES
    EstablishedIsConnected
CHECK_DEADLOCK FALSE
