CONSTANTS
    BuffSize = 3
    InternalBufferSize = 2
    FifoSize = 3
    StringLengths = {3}
    LogLengths = {1}
    DiscardPeriod = 2
    RxValues = {1}
    MaxSends = 2
    MaxRx = 0
SPECIFICATION Spec
CHECK_DEADLOCK FALSE
PROPERTY PutIsSent
