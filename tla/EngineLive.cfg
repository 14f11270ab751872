SPECIFICATION FairSpec
CONSTANTS
    NumWorkers = 2
    FireCap = 1
    MaxEvents = 1
    Rates = {2}
    InitialRate = 2
    None = None
    MaxInFlight = 1
    GracefulShutdown = TRUE
    WantsResponses = FALSE
    ResponseCap = 1
    Outcomes = {"ok", "error"}
    MaxPanics = 1
    Duration = 1
    Warmup = None
    MaxRequests = None
    AutostopThreshold = 1
    RefusestopThreshold = None
    TargetBytes = None
    Commands = {"metadata", "stop"}
    MaxCommands = 1
INVARIANT
    ControlApplied
PROPERTY
    Termination
