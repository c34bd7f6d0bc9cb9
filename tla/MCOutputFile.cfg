CONSTANTS
    r1 = r1
    r2 = r2
    r3 = r3
    nobody = nobody
    Runs <- ThreeRuns
    Lines <- ThreeLines
    BufSize = 2
    MaxSignals = 1
    MaxKilled = 2
SPECIFICATION Spec
INVARIANTS
    OneWriter
    ExactOutput
PROPERTIES
    OpenedRunEnds
