SPECIFICATION SpecMisuse
CONSTANTS
    WordBits = 3
    CounterMod = 32
    NBlocks = 8
    Start = 2
    AllocatableBlocks = 8
    Usable <- UsableWithHole
    MaxPages = 5
    MisusePages = 2
    AddrMod = 32
INVARIANTS
    TypeOK
    OwnershipExact
    NoOverlap
    AccountingExact
PROPERTIES
    BogusFreeDetected
    
CHECK_DEADLOCK TRUE
