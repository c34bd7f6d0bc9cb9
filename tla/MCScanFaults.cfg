CONSTANTS
    a = a
    b = b
    bad = bad
    Addrs <- MCAddrs
    Argvs <- OneDevice
    Options <- Mixed
    Reports <- AnyEvent
    Bytes <- MCBytes
    MaxReports = 2
    MaxQueue = 2
    MaxClock = 2
    MaxSteps = 1
    MaxErrors = 1
    MaxSignals = 1
SPECIFICATION Spec
INVARIANTS
    PrintedIsMeasured
    CleanExit
    AtMostOneLate
    IInv
PROPERTIES
    TimeoutStops
