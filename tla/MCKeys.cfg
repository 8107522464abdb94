SPECIFICATION FairSpec
CONSTANTS
    s1 = s1
    s2 = s2
    s3 = s3
    k1 = k1
    k2 = k2
    k3 = k3
    w1 = w1
    w2 = w2
    t1 = t1
    NoKey = NoKey
    NoIntent = NoIntent
    NoTerminal = NoTerminal
    Requests = {r1, r2}
    Sales = {s1, s2}
    Products = {1, 2}
    Tracked = {1, 2}
    Warehouses = {w1, w2}
    WarehouseOf <- KeysWarehouses
    Terminals = {}
    TerminalOf <- NoTerminals
    AllowNegativeStock = TRUE
    LastDay = 0
    MaxUnits = 1
    Parts <- KeysParts
    StockLevels = {}
    Keys = {k1, k2, k3}
    Offered <- KeysOffers
INVARIANTS
    ExactlyOnce
    SaleNumbersGapless
    NoCircularWait
PROPERTIES
    ShopSpec
    EveryRequestEnds
CHECK_DEADLOCK FALSE
