SPECIFICATION Spec
CONSTANTS
    MAX_CALLBACKS = 2
    Keys = {"A", "LSHIFT", "RSHIFT", "CAPSLOCK", "NUMLOCK", "NUMPAD_7", "LALT", "SYSRQ", "PRINTSCREEN"}
    ScancodeSets = {1, 2}
    MaxStrokes = 3
    MaxPending = 2
    MaxResends = 3
    EarlyStrokes = 1
INVARIANTS
    TypeOK
    
    
    LetterCase
    

    
CHECK_DEADLOCK FALSE
