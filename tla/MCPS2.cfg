SPECIFICATION Spec
CONSTANTS
    Machines <- MC_Machines
    MaxFaults = 1
    MaxMoves = 1
    Motions <- MC_Motions
INVARIANTS
    TypeOK
    PortsExact
    AnswersMatch
    KeyboardWorks
    
PROPERTIES
    InitEnds
CHECK_DEADLOCK FALSE
