SPECIFICATION FairSpec
CONSTANTS
    Instruments = {1}
    MaxPrice = 2
    Capacity = 3
    Terms <- OneOfEach
    MaxUpdates = 3
    MaxEpoch = 2
    UpdateQueue = 2
    MarketQueue = 1
    SuffixBudget = 1
    Garbage = TRUE
CHECK_DEADLOCK FALSE
INVARIANT SynchronizedBookIsRight
PROPERTIES NeverGoesBack EveryUpdateArrives
