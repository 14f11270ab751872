SPECIFICATION Spec
CONSTANTS
    MaxTests = 3
    max_results = 1
    Capacity = 2
    Rates = {1}
    MaxHolds = 2
    MaxUpdates = 1
    MaxCancels = 1
    MaxFailures = 1
    MaxCrashes = 1
INVARIANTS
    QueueInv
    HoldFollowsLast
    StoreAgrees
PROPERTIES
    KeepsPromise
    PruneKeepsEnough
CHECK_DEADLOCK FALSE
