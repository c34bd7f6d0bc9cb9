CONSTANTS
    a = a
    b = b
    bad = bad
    Addrs <- MCAddrs
    Argvs <- Lists
    Options <- NoTimeout
    Reports <- TwoSensors
    Bytes <- MCBytes
    MaxReports = 4
    MaxQueue = 2
    MaxClock = 1
    MaxSteps = 0
    MaxErrors = 0
    MaxSignals = 0
SPECIFICATION Spec
INVARIANTS
    ListensToListed
    OutputsAverage
    OutputsEveryValue
    StopsOnlyAfterSamples
PROPERTIES
    StopsAfterSamples
