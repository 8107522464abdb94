SPECIFICATION CounterSpec
CONSTANTS
    Browsers = {b1, b2}
    Terminals = {t1}
    WarehouseOf <- Shop
    LastDay = 2
    LastClosing = 3
    LastCharge = 2
    LastSwitch = 0
    Unset = Unset
    drink = drink
    cheese = cheese
    deli = deli
    None = None
INVARIANTS
    DayAddsUp
PROPERTIES
    EntryAsAsked
    RetryGetsItsZ
CHECK_DEADLOCK FALSE
