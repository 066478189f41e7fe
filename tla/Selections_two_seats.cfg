SPECIFICATION Spec
CONSTANTS
    Seats = {s1, s2}
    Enabled <- RegularOnly
    MaxCopies = 2
    MaxClears = 0
    MaxLosses = 1
    Ignored <- NoCopies
    Faulty <- NoCopies
    None = None
INVARIANTS
    TypeOK
    Settled
CHECK_DEADLOCK FALSE
