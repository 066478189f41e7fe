SPECIFICATION Spec
CONSTANTS
    Names <- ThreeNames
    ManagerId = 3
    None = None
INVARIANTS
    TypeOK
    SeatsFollowGlobals
PROPERTIES
    FindsSufficientManager
CHECK_DEADLOCK FALSE
