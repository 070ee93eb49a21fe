\* Two commands before the client is closed, and queues that are often full.
CONSTANTS
    RequestCapacity = 1
    ReportCapacity = 1
    OutputCapacity = 1
    MaxRequests = 2
SPECIFICATION Spec
INVARIANTS NoWakeupIsLost CleanExit
PROPERTY CallsReturn
CHECK_DEADLOCK FALSE
