SPECIFICATION Spec
CONSTANTS
    Size = 4
    Capacity = 2
    Timeout = 5
    Extra = 2
    MaxTime = 8
INVARIANTS
    TypeOK
    WrittenOnce
    EndsInTime
PROPERTIES
    TaskEnds
    ImplementsTimedTask
CHECK_DEADLOCK FALSE
