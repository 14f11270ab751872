SPECIFICATION Spec
CONSTANTS
    a = a
    b = b
    NodeList <- TwoNodes
    Cores <- TwoCores
    Rates = {6, 12}
    MaxTests = 2
    MaxWork = 1
    MaxFaults = 0
INVARIANT
    OneTestAtATime
CHECK_DEADLOCK FALSE
