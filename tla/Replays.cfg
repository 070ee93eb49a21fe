\* Two units on which the same ids are in use, two locates and two symbols.
CONSTANTS
    Units = {1, 2}
    Locates = {0, 1, 2}
    Symbols = {"A", "B"}
    OrderIds = {1, 2}
    Terms <- MCTerms
    Filter = "A"
    Totals <- MCTotals
    Pairs <- MCPairs
    MaxPrice = 2
    MaxQuantity = 2
    MaxSequence = 4
    MaxOrders = 2
    \* Files of at most four lines, of which the subscriber is to apply three.
    Orders <- MCOrders
    MaxLines = 4
    Target = 3
    OrderSizes = {1, 2}
    MaxGenerated = 5
SPECIFICATION MCSpec
VIEW View
INVARIANTS
    RoutesMatchBooks
    FilterIsTransparent
    SampleReplaysAlike
    SessionsAreWhole
    BooksAreAPrefix
    GeneratedFilesReplay
    AcknowledgedIsApplied
CHECK_DEADLOCK FALSE
