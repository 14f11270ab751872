SPECIFICATION FairSpec
CONSTANTS
    a = a
    b = b
    NodeList <- TwoNodes
    Cores <- TwoCores
    Rates = {6, 12}
    MaxTests = 2
    MaxWork = 1
    MaxFaults = 3

    
PROPERTIES
    FailedExcluded
    MetricsOnlyGrow
    LeaderEnds
CHECK_DEADLOCK FALSE
