SPECIFICATION Spec
CONSTANTS
    TABLE_SIZE = 4
    Frames <- MC_Frames
    has1GBPages = TRUE
    Sections <- MC_Sections
    hsdmOffset = 64
    hsdmSize = 64
    MAX_PREMAPPINGS = 2
    Requests <- MC_Requests
    HeapRequests <- MC_HeapRequests
    MaxMaps = 3
INVARIANTS
    TranslationExact
    TablesConserved
    WindowsIntact
CHECK_DEADLOCK FALSE
