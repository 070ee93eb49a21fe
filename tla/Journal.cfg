\* Two servers on one journal, and failures between any two steps.
CONSTANTS
    Servers = {1, 2}
    Commands = {"a", "b"}
    Configs = {"x", "y"}
    SyncNames = TRUE
    MaxRecords = 3
    MaxFailures = 3
SPECIFICATION Spec
INVARIANTS
    AnsweredIsNeverLost
    StateIsTheFile
CHECK_DEADLOCK FALSE
