SPECIFICATION Spec
CONSTANTS
    Seats = {s1}
    Enabled <- BothTypes
    MaxCopies = 3
    MaxClears = 1
    MaxLosses = 1
    Ignored <- NoCopies
    Faulty <- NoCopies
    None = None
PROPERTIES
    ImplementsPersistence
CHECK_DEADLOCK FALSE
