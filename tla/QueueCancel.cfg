SPECIFICATION FairSpec
CONSTANTS
    MaxTests = 2
    max_results = 1
    Capacity = 2
    Rates = {1}
    MaxHolds = 0
    MaxUpdates = 0
    MaxCancels = 2
    MaxFailures = 0
    MaxCrashes = 0
PROPERTY
    CancelStops
CHECK_DEADLOCK FALSE
