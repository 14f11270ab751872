SPECIFICATION Spec
CONSTANTS
    HugeRate = 100000
    IntegralLimit = 20
    RecoveryCap = 2
    BaselineTicks = 3
    StepTicks = 5
    CatastrophicSeed = 4
    OperatingPointSeed = 2
    FloorWindow = 2
    CeilingRamp = 4
    Configs <- MCConfigs
    Summaries <- MCSummaries
    Overrides <- MCOverrides
    MaxRates <- MCMaxRates
    MinRates <- MCMinRates
    Updates <- MCUpdates
    MaxCommands <- MCMaxCommands

    
PROPERTIES
    BackoffsHeld
    
    
CHECK_DEADLOCK FALSE
