CONSTANTS
    t1 = t1
    t2 = t2
    t3 = t3
    nobody = nobody
    Threads <- MCThreads
    Devices <- MCDevices
    Arguments <- MCArguments
    MaxPlugs = 1
SPECIFICATION Spec
INVARIANTS
    OpenedOnce
