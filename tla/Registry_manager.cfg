SPECIFICATION Spec
CONSTANTS
    Names <- ThreeNames
    ManagerId = 3
    None = None
INVARIANTS
    EndsWithManager
CHECK_DEADLOCK FALSE
