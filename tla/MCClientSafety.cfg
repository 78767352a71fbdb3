\* Three chunks in a window of two, with every fault, and a network that owes
\* nothing.
SPECIFICATION FairSpec
CONSTANTS
    Chunks = 3
    Window = 2
    InactivityTimeout = 2
    Faults = {"none", "identity", "preparation", "size", "reading", "altered", "disk", "socket"}
CHECK_DEADLOCK FALSE
INVARIANTS
    WrittenInOrder
    WindowWellFormed
    ReleasedWhenVerified
PROPERTIES
    OnlyMissingRequested
    PromiseKept
    DownloadReturns
