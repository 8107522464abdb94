SPECIFICATION BoundedSpec
CONSTANTS
    LastSale = 2
    LastLine = 2
    LastKey = 2
    LastElsewhere = 1
    LastRefetch = 1
    LastReload = 1
    None = None
INVARIANTS
    KeyNamesOneSale
    
PROPERTIES
    CounterSpec
    KeySurvivesRetry
    TillComesUp
CHECK_DEADLOCK FALSE
