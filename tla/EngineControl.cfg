SPECIFICATION Spec
CONSTANTS
    NumWorkers = 1
    FireCap = 1
    MaxEvents = 1
    Rates = {2, 4}
    InitialRate = 2
    None = None
    MaxInFlight = 0
    GracefulShutdown = TRUE
    WantsResponses = FALSE
    ResponseCap = 1
    Outcomes = {"ok"}
    MaxPanics = 0
    Duration = 2
    Warmup = None
    MaxRequests = None
    AutostopThreshold = None
    RefusestopThreshold = None
    TargetBytes = None
    Commands = {"targets", "hold", "release", "rate", "controller", "stop"}
    MaxCommands = 3
INVARIANT
    RateFollowsDecision
PROPERTY
    ControlInOrder
