SPECIFICATION Spec
CONSTANTS
    s1 = s1
    s2 = s2
    s3 = s3
    k1 = k1
    k2 = k2
    k3 = k3
    w1 = w1
    w2 = w2
    t1 = t1
    NoKey = NoKey
    NoIntent = NoIntent
    NoTerminal = NoTerminal
    Requests = {r1, r2}
    Sales = {s1, s2}
    Products = {1}
    Tracked = {1}
    Warehouses = {w1}
    WarehouseOf <- OneWarehouse
    Terminals = {t1}
    TerminalOf <- TillTerminals
    AllowNegativeStock = FALSE
    LastDay = 1
    MaxUnits = 2
    Parts <- TillParts
    StockLevels = {0, 2}
    Keys = {k1, k2}
    Offered <- TillOffers
SYMMETRY Alike
INVARIANTS
    TypeOK
    ZCoversItsDay
    NumbersFollowDays
    ReturnsWithinSale
    BooksAddUp
PROPERTIES
    HistoryIsFinal
    NeverOversells
    SoldAtActiveTerminal
CHECK_DEADLOCK FALSE
