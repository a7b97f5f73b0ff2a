SPECIFICATION Spec
CONSTANTS
    Size = 3
    Value = {1, 2}
    SizeMod = 16
    Usages <- SafeUsages
INVARIANTS
    TypeOK
    CheckStillTrue
PROPERTIES
    ImplementsFifo
CHECK_DEADLOCK FALSE
