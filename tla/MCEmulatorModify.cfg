SPECIFICATION Spec
CONSTANTS
    None = None
    RawMax = 100
    entry = entry
    tp = tp
    sl = sl
    OrderLists <- MCOrderLists
    OrderQty = 2
INVARIANT EmulatedOrderCanBeModified
CHECK_DEADLOCK FALSE
