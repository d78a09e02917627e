CONSTANTS
    Workers = {"w1"}
    RPS_DIFFERENT_VALUES = 1
    GEOIP_FILE_LINES = 4
    GEOIP_MAX_ITERATION = 5
    Searchers <- MCSearchers
    MaxIp = 4
    Files <- MCFiles
    Protocols = {"TCP"}
    Privileged = TRUE
    MaxRequests = 2
SPECIFICATION Spec
INVARIANTS CallsCounted FoundIsLoaded
PROPERTY LocationsLoaded
CHECK_DEADLOCK FALSE
