SPECIFICATION FairSpec
CONSTANTS
    Seats = {s1}
    Enabled <- BothTypes
    MaxCopies = 3
    MaxClears = 1
    MaxLosses = 1
    Ignored <- FirstCopy
    Faulty <- SecondCopy
    None = None
PROPERTIES
    Persists
CHECK_DEADLOCK FALSE
