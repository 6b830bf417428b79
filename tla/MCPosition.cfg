SPECIFICATION PurgeSpec
CONSTANTS
    None = None
    RawMax = 100
    ClientOrderIds = {o1, o2}
    TradeIds = {t1, t2, t3, t4}
    FillQtys = {1, 2}
    Prices = {2, 3}
    Commissions = {1}
    Currencies = {"Base", "Settlement"}
    Fundings = {1}
    MaxAdjustments = 1
SYMMETRY Symmetry
CONSTRAINT OnePriceWithBase
INVARIANTS
    SideFollowsQuantity
    BooksBalance
    ProfitIsCashFlow
    AverageCloseIsOfClosings
PROPERTY
    PurgeRemovesTheOrder
CHECK_DEADLOCK FALSE
