\* A queue of two records that four calls can fill.
CONSTANTS
    Capacity = 2
    MinimumLevel = "Warn"
    MaxCalls = 4
SPECIFICATION FairSpec
INVARIANT CloseDrains
PROPERTIES
    AcceptedIsWritten
    CloseReturns
CHECK_DEADLOCK FALSE
