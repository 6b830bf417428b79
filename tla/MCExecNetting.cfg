SPECIFICATION Spec
CONSTANTS
    None = None
    RawMax = 100
    o1 = o1
    o2 = o2
    o3 = o3
    v1 = v1
    v2 = v2
    v3 = v3
    l1 = l1
    ClientOrderIds = {o1, o2}
    LegOrderIds = {l1}
    VenueOrderIds = {v1, v2}
    PositionIds <- NetAndVenueIds
    OrderInit <- BuyAndReduce
    OmsType = "Netting"
    allow_overfills = FALSE
    Unknown = Unknown
    VenueOrderOwner <- Owner
    EventTypes = {"Denied", "Submitted", "Accepted", "Rejected", "Canceled", "Expired", "Updated", "PendingUpdate", "PendingCancel", "ModifyRejected", "CancelRejected"}
    TradeIds = {t1, t2, t3}
    FillQtys = {1, 2}
    Prices = {2, 3}
    Commissions = {1}
    Currencies = {"Settlement"}
    Quantities = {2}
    VenuePositionIds <- VenuePosition
    SubmitPositionIds <- NetAndVenueIds
    MaxCount = 0
    Bounds <- NettingBounds
INVARIANTS
    NettingBooksMatch
    RealizedIsCash
    NeverPanics
    OrderIndexesFollow
    PositionIndexesExact
SYMMETRY Symmetry
CHECK_DEADLOCK FALSE
