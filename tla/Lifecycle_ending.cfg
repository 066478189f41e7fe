SPECIFICATION FairSpec
CONSTANTS
    Settings <- EndingTries
    Inf = Inf
    Listeners <- BothSignals
    MaxSignals = 3
    MaxTasks = 2
INVARIANTS
    TypeOK
    ForcedBySecondSignal
    EndsEarlyOnRequestOnly
PROPERTIES
    ReconnectBudget
    ShutdownCompletes
CHECK_DEADLOCK FALSE
