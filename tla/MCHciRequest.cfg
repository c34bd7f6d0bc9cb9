CONSTANTS
    Scripts <- MCScripts
    Tries = 3
    Slice = 10
    ForeignEvents <- MCForeignEvents
    MaxForeign = 3
    MaxQueue = 3
SPECIFICATION Spec
INVARIANTS
    AnswersAreTrue
    ReadNeverBlocks
    FilterRestored
    IInv
PROPERTIES
    Returns
    ImplementsHciCommand
