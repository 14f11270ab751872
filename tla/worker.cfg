SPECIFICATION WorkerSpec
CONSTANTS
    Tasks = {t1, t2}
    ConnIds = {1, 2, 3}
    MaxRequests = 3
    Window = 2
    TcpConfigs <- MCTcpConfigs
    WINDOW = 2
    MaxPackets = 7
    MaxDeltas = 1
    DgTasks = {t1, t2}
    Ports = {1, 2}
    MaxSends = 3
    MaxCopies = 1
    DgConfigs <- MCDgConfigs
    RedisTasks = {t1, t2}
    RedisConns = {1, 2, 3}
    MaxCommands = 3
    RedisConfigs <- MCRedisConfigs
    RespValues <- MCRespValues
    RespTails <- MCRespTails
    RespLimits = {4, 7, 8, 9, 30}
    HttpTasks = {t1, t2}
    HttpConns = {1, 2, 3}
    MaxHttp = 6
    HttpConfigs <- MCHttpConfigs
    ReadSizes = {1, 2, 5}
    MaxTime = 10
    Buckets <- MCBuckets
    HeaderSpecs <- MCHeaderSpecs
    Payloads <- MCPayloads
    Seqs <- MCSeqs
    Queries <- MCQueries
    PluginTests <- MCPluginTests
    ResponseCapacity = 2
    MaxFires = 3
    MaxTargets = 1
    EventSchemas <- MCEventSchemas
    EventTimes <- MCEventTimes
    IdSpan = 3
    EventCore = 2
    MaxEvents = 3
    Cores = {1, 2}
    CoreCapacity = 1
    TelemetryTests <- MCTelemetryTests
    TargetRate = 1
INVARIANTS
    
    
    
    RespFramed
    RedisInv
    
    RateHeld
    FormatsAgree
    
    RecorderInv

    
    
CHECK_DEADLOCK FALSE
