SPECIFICATION GoodsSpec
CONSTANTS
    Clerks = {ana, eva}
    Lines = {1, 2}
    Kinds = {"update", "add", "remove", "place", "cancel", "receive", "apply"}
    Largest = 2
    Costs = {1, 2, 3}
    Failures = TRUE
    LastRequest = 4
    LastEdit = 3
    Fields = {"cat", "cost", "tax", "unit", "margin", "price", "barcode", "stock", "lot"}
    InOrder = TRUE
    LastField = 4
    LastChange = 1
    LastOpen = 1
    LastProduct = 2
    Nothing = Nothing
    ana = ana
    eva = eva
    Articles = {pan}
    CostsTyped = {0, 1}
    Losses = TRUE
    MostRows = 2
    LastAsk = 3
    LastStroke = 7
    LastOpening = 1
    MostOrders = 1
    Unset = Unset
    None = None
INVARIANTS
    GoodsAddUp
PROPERTIES
    NothingChangesUnseen
    EntryShowsItsOwn
    
CHECK_DEADLOCK FALSE
