SPECIFICATION FairSpec
CONSTANTS
    Settings <- EndlessTries
    Inf = Inf
    Listeners <- BothSignals
    MaxSignals = 3
    MaxTasks = 2
PROPERTIES
    ShutdownCompletes
CHECK_DEADLOCK FALSE
