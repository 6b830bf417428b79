SPECIFICATION Spec
CONSTANTS
    limit = 3
    interval = 4
    Modes <- MCModes
    Batches = {1, 2, 3}
    MaxMessages = 7
    NoTimer = NoTimer
INVARIANTS
    RateIsLimited
    DeliveredInOrder
PROPERTIES
    NoNeedlessLimit
    BufferDrains
