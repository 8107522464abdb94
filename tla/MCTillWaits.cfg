SPECIFICATION CasesSpec
CONSTANTS
    Page = "pos"
    Sales = {1, 2}
    Lines <- SaleLines
    SaleOf <- SaleOfLine
    Bought <- Units
    LastKey = 2
    LastSearch = 2
    LastEdit = 3
    LastElsewhere = 1
    None = None
INVARIANTS
    RetriesCountOnce
PROPERTIES
    WaitsEnd
CHECK_DEADLOCK FALSE
