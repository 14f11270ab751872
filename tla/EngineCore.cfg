SPECIFICATION Spec
CONSTANTS
    NumWorkers = 2
    FireCap = 1
    MaxEvents = 2
    Rates = {2}
    InitialRate = 2
    None = None
    MaxInFlight = 1
    GracefulShutdown = TRUE
    WantsResponses = TRUE
    ResponseCap = 1
    Outcomes = {"ok"}
    MaxPanics = 1
    Duration = 2
    Warmup = 1
    MaxRequests = 1
    AutostopThreshold = None
    RefusestopThreshold = 1
    TargetBytes = 1
    Commands = {}
    MaxCommands = 0
INVARIANTS
    TypeOK
    CountedOnce
    InScheduleOrder
    EventsAccounted
    BoundedWork
    FinalResultComplete
