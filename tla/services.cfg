SPECIFICATION ServicesSpec
CONSTANTS
    MaxTests = 4
    MaxTimeouts = 0
    MaxFailures = 0
    MaxPanics = 2
    ApiServers = {"control", "agent"}
    ApiRates = {1}
    ApiTests = 2
    MaxCalls = 2
    NumWorkers = 2
    ReportModes = {"None", "Text", "Prometheus"}
    MaxAccepts = 1
    MaxReports = 2
INVARIANTS
    
    AnswersTrue
    ReportsTrue
PROPERTIES
    
    ServicesComplete
CHECK_DEADLOCK FALSE
