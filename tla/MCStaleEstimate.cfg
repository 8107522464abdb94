SPECIFICATION EntrySpec
CONSTANTS
    Articles = {pan}
    CostsTyped = {0, 1}
    Losses = FALSE
    MostRows = 2
    LastAsk = 3
    LastStroke = 7
    LastOpening = 1
    MostOrders = 1
    Unset = Unset
INVARIANTS SettledEstimate
CHECK_DEADLOCK FALSE
