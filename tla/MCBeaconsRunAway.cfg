CONSTANTS
    a = a
    b = b
    Addrs <- MCAddrs
    Argvs <- OneDevice
    Options <- WithTimeout
    Reports <- MCReports
    Bytes <- MCBytes
    Events <- Triples
    MaxReports = 2
    MaxQueue = 2
    MaxClock = 2
    MaxSteps = 0
    MaxErrors = 0
    MaxSignals = 0
SPECIFICATION ToolsSpec
PROPERTY
    TimeoutStops
