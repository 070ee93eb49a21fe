SPECIFICATION FairSpec
CONSTANTS
    Clients <- MCClients
    QueueSize = 1
    ResponseBudget = 1
    MaxSessions = 2
    OutputLimit = 1
    MaxConnections = 2
    MaxFrames = 2
    Faults <- AllFaults
INVARIANTS RoutesAreSessions AdmittedIsOutstanding CleanStop
PROPERTIES AnsweredBeforeRemoval EveryThreadEnds EveryFrameIsTaken
