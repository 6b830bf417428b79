SPECIFICATION Spec
CONSTANTS
    None = None
    RawMax = 100
    o1 = o1
    o2 = o2
    o3 = o3
    v1 = v1
    v2 = v2
    v3 = v3
    l1 = l1
    ClientOrderIds = {o1, o2, o3}
    LegOrderIds = {}
    VenueOrderIds = {v1, v2, v3}
    PositionIds <- HedgingIds
    OrderInit <- PrimaryAndSpawned
    OmsType = "Hedging"
    allow_overfills = FALSE
    Unknown = Unknown
    VenueOrderOwner <- SpawnOwner
    EventTypes = {"Accepted"}
    TradeIds = {t1, t2}
    FillQtys = {1, 2}
    Prices = {2}
    Commissions = {0}
    Currencies = {"Settlement"}
    Quantities = {3}
    VenuePositionIds <- VenuePosition
    SubmitPositionIds <- VenuePosition
    MaxCount = 4
    Bounds <- HedgingBounds
INVARIANTS
    BooksMatchFills
    SpawnSharesPosition
SYMMETRY Symmetry
CHECK_DEADLOCK FALSE
