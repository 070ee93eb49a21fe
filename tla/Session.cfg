\* Two clients that learn of their fills late.
CONSTANTS
    MaxPrice = 2
    Capacity = 2
    Clients <- MCClients
    Rules <- MCRules
    Epoch = 1
    Commands <- MCSession
    HeapOutcomes = {TRUE}
    MaxCalls = 5
SPECIFICATION SessionSpec
INVARIANTS
    CaughtUpClientsAreRight
    LocalCheckSuffices
PROPERTIES
    UpdatesRebuildTheBooks
    RetriesAreNotPerformed
CHECK_DEADLOCK FALSE
