SPECIFICATION Spec
CONSTANTS
    MaxId = 1
    MaxBatch = 1
    MaxFaults = 1
    Suggesters <- MCOne
    UserStops = FALSE
PROPERTIES
    ClosingAbortsUnestablished
CHECK_DEADLOCK FALSE
