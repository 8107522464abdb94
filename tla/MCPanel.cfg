SPECIFICATION CasesSpec
CONSTANTS
    Admins = {ana, eva}
    Users = {ana, eva, leo}
    Roles = {boss, clerk}
    Permissions = {"manage", "sell"}
    Kinds = {"create", "role", "edit", "activate", "deactivate", "permissions"}
    AtOnce = 1
    LastRequest = 3
    LastEdit = 2
    Cats = {1, 2}
    CategoryNames = {1, 2}
    UnitNames = {1, 2}
    Editors = {ana, eva}
    Buttons = {"create", "basics", "pricing", "show", "hide", "delete", "newUnit", "rename", "dropUnit"}
    Losses = TRUE
    MostRequests = 2
    MostTyped = 1
    Unset = Unset
    Tabs = {1, 2}
    MenuEditors = {ana, eva}
    MenuButtons = {"create", "update", "show", "hide", "delete"}
    TillOpen = TRUE
    MenuLosses = TRUE
    MostPresses = 2
    MostStrokes = 1
    Nowhere = Nowhere
    ana = ana
    eva = eva
    leo = leo
    boss = boss
    clerk = clerk
    None = None
INVARIANTS
    SomeoneCanRecover
PROPERTIES
    
    PanelAgrees
CHECK_DEADLOCK FALSE
