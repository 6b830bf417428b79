SPECIFICATION Spec
CONSTANTS
    None = None
    RawMax = 4
    OrderTypes = {"Limit", "StopLimit"}
    Quantities = {1, 2, 3}
    TradeIds = {t1, t2, t3}
    VenueOrderIds = {v1, v2}
    PositionIds = {p1}
INVARIANTS
    PendingRemembersFirm
    QuantitiesAgree
    EachTradeCountedOnce
PROPERTY
    ClosedStaysUnlessFilled
