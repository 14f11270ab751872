SPECIFICATION Spec
CONSTANTS
    NumWorkers = 1
    FireCap = 1
    MaxEvents = 2
    Rates = {2}
    InitialRate = 2
    None = None
    MaxInFlight = 1
    GracefulShutdown = TRUE
    WantsResponses = FALSE
    ResponseCap = 1
    Outcomes = {"ok"}
    MaxPanics = 0
    Duration = 2
    Warmup = 1
    MaxRequests = None
    AutostopThreshold = None
    RefusestopThreshold = None
    TargetBytes = None
    Commands = {}
    MaxCommands = 0
INVARIANT
    WarmupExcluded
