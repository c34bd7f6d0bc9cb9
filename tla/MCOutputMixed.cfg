CONSTANTS
    r1 = r1
    r2 = r2
    r3 = r3
    nobody = nobody
    Runs <- TwoRuns
    Lines <- TwoLines
    BufSize = 2
    MaxSignals = 0
    MaxKilled = 0
SPECIFICATION Spec
INVARIANTS
    NotMixed
