CONSTANTS
    Owners = {bread}
    Editors = {ana}
    Viewers = {till}
    Photos = {p, q}
    Removals = TRUE
    LastChoice = 3
    NoPicture = NoPicture
SPECIFICATION PicturesSpec
INVARIANTS PictureIsCurrent
CHECK_DEADLOCK FALSE
