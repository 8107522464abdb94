SPECIFICATION OfficeSpec
CONSTANTS
    Messages = {m1, m2, m3}
    Workers = {w1, w2}
    MaxAttempts = 2
    BatchLimit = 2
    MaxCrashes = 1
    pan = pan
    vino = vino
    None = None
    NoVersion = NoVersion
    Owners = {"bread"}
    Editors = {"ana"}
    Viewers = {"till"}
    Photos = {"p", "q"}
    Removals = FALSE
    LastChoice = 3
    NoPicture = NoPicture
INVARIANTS
    DeliveriesAddUp
    PicturesAgree
PROPERTIES
    WaitsEnd
CHECK_DEADLOCK FALSE
