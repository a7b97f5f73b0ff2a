CONSTANTS
    BuffSize = 3
    InternalBufferSize = 2
    FifoSize = 3
    StringLengths = {1, 3, 4}
    LogLengths = {2}
    DiscardPeriod = 1
    RxValues = {1}
    MaxSends = 2
    MaxRx = 4
SPECIFICATION Spec
CHECK_DEADLOCK FALSE
INVARIANTS TypeOK TransmitInOrder 
PROPERTIES HandlerReturns OutputDrains
