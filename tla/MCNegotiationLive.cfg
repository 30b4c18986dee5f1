SPECIFICATION FairSpec
CONSTANTS
    MaxId = 2
    MaxBatch = 2
    MaxFaults = 0
    Suggesters <- MCOne
    UserStops = FALSE
PROPERTIES
    AcceptedStarts
CHECK_DEADLOCK FALSE
