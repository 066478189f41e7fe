SPECIFICATION FairSpec
CONSTANTS
    Settings <- FewTries
    Inf = Inf
    Listeners <- BothSignals
    MaxSignals = 2
    Tasks = {t1, t2, t3}
    Timeout = 3
    Extra = 2
INVARIANTS
    TypeOK
    ExitsInTime
PROPERTIES
    ImplementsLifecycle
    ImplementsTimedTasks
    ShutdownCompletes
CHECK_DEADLOCK FALSE
