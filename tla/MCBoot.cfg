SPECIFICATION Spec
CONSTANTS
    W = 8
    NS = 64
    MaxSec = 4
    PIT_FREQUENCY = 10
    PM_FREQUENCY = 16
    PIT_MAX = 3
    APIC_MAX = 255
    DIVISOR = 4
    PerSecond = 2
    Machines <- MC_Machines
    WakeNs = 10
    Naps = {20, 30}
    MaxNaps = 1
    MaxRaises = 2
INVARIANTS
    BootsWhereSupported
    SleepsAsAsked
PROPERTIES
    SleepsEnd
    IrqServed
CHECK_DEADLOCK FALSE
