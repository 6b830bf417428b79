SPECIFICATION Spec
CONSTANTS
    None = None
    RawMax = 100
    o1 = o1
    o2 = o2
    o3 = o3
    v1 = v1
    v2 = v2
    v3 = v3
    l1 = l1
    ClientOrderIds = {o1}
    LegOrderIds = {l1}
    VenueOrderIds = {v1, v2}
    PositionIds <- NettingIds
    OrderInit <- SingleOrder
    OmsType = "Netting"
    allow_overfills = FALSE
    Unknown = Unknown
    VenueOrderOwner <- SingleOwner
    EventTypes = {"Accepted"}
    TradeIds = {t1, t2, t3}
    FillQtys = {1}
    Prices = {2}
    Commissions = {0}
    Currencies = {"Settlement"}
    Quantities = {2}
    VenuePositionIds <- NoIds
    SubmitPositionIds <- NoIds
    MaxCount = 0
    Bounds <- LegBounds
INVARIANTS
    LegFillAppliedOnce
SYMMETRY Symmetry
CHECK_DEADLOCK FALSE
