\* A file system that loses a file whose directory was not synced.
CONSTANTS
    Servers = {1}
    Commands = {"a"}
    Configs = {"x"}
    SyncNames = FALSE
    MaxRecords = 1
    MaxFailures = 2
SPECIFICATION Spec
INVARIANT AnsweredIsNeverLost
CHECK_DEADLOCK FALSE
