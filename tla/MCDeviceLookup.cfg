CONSTANTS
    null = null
    x = x
    Ids <- MCIds
    BdAddrs <- MCBdAddrs
    BDADDR_ANY = null
    Names <- MCNames
    Counts <- MCCounts
    States <- MCStates
    MaxCalls = 2
    MaxChanges = 1
    MaxHeld = 1
SPECIFICATION Spec
INVARIANTS
    NoLeak
    ReportsItsOwnError
    FoundWasUp
    DefaultIsFound
    NameMeansAdapter
    NamedIsFound
    InquiryFits
    IInv
