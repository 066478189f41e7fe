SPECIFICATION FairSpec
CONSTANTS
    Pipes <- ThreePipes
    Limit = 6
    NoLimit = NoLimit
    MimeBytes = 1
    BufSize = 2
    MaxWritten = 3
INVARIANTS
    TypeOK
    BytesAccounted
    HeldWithinLimit
    LimitNotSpurious
    DataComplete
PROPERTIES
    ReadsEnd
CHECK_DEADLOCK FALSE
