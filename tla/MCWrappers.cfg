CONSTANTS
    Timeout = 1000
    Peer = 5
    Scripts <- MCScripts
    Tries = 10
    Slice = 10
    ForeignEvents <- MCForeignEvents
    MaxForeign = 10
    MaxQueue = 2
SPECIFICATION Spec
INVARIANTS
    ExhaustionNeedsNoise
    SuccessMeansFinished
