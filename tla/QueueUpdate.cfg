SPECIFICATION Spec
CONSTANTS
    MaxTests = 2
    max_results = 1
    Capacity = 2
    Rates = {1}
    MaxHolds = 0
    MaxUpdates = 1
    MaxCancels = 1
    MaxFailures = 0
    MaxCrashes = 0
INVARIANT
    AppliedWasAnswered
CHECK_DEADLOCK FALSE
