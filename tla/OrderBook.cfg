\* Two books, which are moved into each other: two orders at two prices, in
\* pools of two nodes.
CONSTANTS
    o1 = o1
    o2 = o2
    id1 = id1
    id2 = id2
    Objects <- MCObjects
    OrderIds <- MCOrderIds
    MaxPrice = 2
    MaxQuantity = 2
    Terms <- MCTerms
    Capacity = 2
SPECIFICATION Spec
SYMMETRY Symmetry
INVARIANTS
    BooksAreConsistent
    NodesAreThePoolsSlots
PROPERTIES
    ImplementsLimitBook
