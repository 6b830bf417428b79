SPECIFICATION Spec
CONSTANTS
    None = None
    RawMax = 100
    entry = entry
    tp = tp
    sl = sl
    OrderLists <- MCOrderLists
    OrderQty = 2
INVARIANTS
    StatusIsTrue
    HeldOnceReleasedOnce
    SentAgainByParentFill
    ChildFollowsParent
    OcoTradeLeavesNoneHeld
    OuoSharesLeaves
    HeldChildIsCovered
PROPERTIES
    VenueCloseReachesLinked
CHECK_DEADLOCK FALSE
