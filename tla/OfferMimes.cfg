SPECIFICATION Spec
CONSTANTS
    MimeType <- FourTypes
    Bytes <- FourBytes
    Rank <- FourRanks
    Matching <- NoImages
    Hack <- SaveTargets
    Limit = 5
    MaxAnnounced = 4
INVARIANTS
    TypeOK
    LimitExact
    FilteredNotRequested
    OfferedAsAnnounced
    AllOrNothing
    KeysUnshared
CHECK_DEADLOCK FALSE
