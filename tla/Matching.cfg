\* Orders of every kind, and commands refused for every reason.
CONSTANTS
    MaxPrice = 2
    Capacity = 2
    Clients <- MCClients
    Rules <- MCTwoRules
    Epoch = 1
    Commands <- MCCommands
    HeapOutcomes = {TRUE, FALSE}
    MaxCalls = 4
SPECIFICATION Spec
INVARIANTS
    EngineIsConsistent
    PositionsStayWithinLimits
PROPERTIES
    BestOrdersTradeFirst
    OrderTermsAreHonoured
    RejectionChangesNothing
CHECK_DEADLOCK FALSE
