SPECIFICATION Spec
CONSTANTS
    Seats = {s1}
    Enabled <- BothTypes
    MaxCopies = 3
    MaxClears = 1
    MaxLosses = 1
    Ignored <- SecondCopy
    Faulty <- FirstCopy
    None = None
INVARIANTS
    RoundtripKeepsReadMimes
    NoForgottenData
    OfferOwnership
    SourcesMatchServer
    NothingLeftBehind
PROPERTIES
    PersistsLatestOnly
CHECK_DEADLOCK FALSE
