CONSTANTS
    a = a
    b = b
    Addrs <- MCAddrs
    Argvs <- MCArgvs
    Options <- MCOptions
    Reports <- MCReports
    Bytes <- MCBytes
    Events <- MCEvents
    MaxReports = 3
    MaxQueue = 2
    MaxClock = 2
    MaxSteps = 0
    MaxErrors = 1
    MaxSignals = 1
SPECIFICATION ToolsSpec
INVARIANTS
    TypeOK
    OutputsAverage
    NoEventCountsTwice
PROPERTIES
    ToolsImplementScanMijia
    TimeoutStops
