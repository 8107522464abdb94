SPECIFICATION CasesSpec
CONSTANTS
    ana = ana
    eva = eva
    Clerks = {ana, eva}
    Places = {shop}
    Numbers = {n1, n2}
    Dates = {1, 2}
    LastLot = 2
    FirstLots = 1
    Largest = 2
    Kinds = {"plan", "consume"}
    Tills = {"sell"}
    Patient = TRUE
    Failures = TRUE
    Leaves = FALSE
    LastRequest = 3
    LastEdit = 3
    None = None
    milk = milk
    bread = bread
    lot = lot
    Products = {milk, bread}
    Tracked = {milk}
    Warehouses = {1, 2}
    Shelves = {1, 2}
    Printed = {lot}
    Forms = {"adjust", "transfer"}
    Rebuilds = FALSE
    Others = {"adjust", "waste", "transfer", "rebuild"}
    MostMoved = 1
    Losses = TRUE
    MostRequests = 3
    MostTyped = 5
    Typed = Typed
    Empty = Empty
    evalA = evalA
    evalB = evalB
    Messages = {1, 2}
    Workers = {w1}
    MaxAttempts = 2
    BatchLimit = 2
    MaxCrashes = 0
    Subjects = {milk}
    Incidents = {1, 2}
    SubjectOf <- OneProduct
    Evaluators = {evalA, evalB}
INVARIANTS
    ConsumedOnce
    LotsAgree
    AlertsAgree
PROPERTIES
    FirstToExpireFirst
    
    StockAgrees
    OutboxSpec
CHECK_DEADLOCK FALSE
