SPECIFICATION FairSpec
CONSTANTS
    Cadences = {c}
    Unread = Unread
    None = None
    Never = Never
    Drawn <- Several
    Speeds = {1}
    Jump = 5
    WallAhead = 0
    ModelClockInterval = 2
    Prompt = TRUE
    Troubles = {"timeout"}
    MaxTroubles = 1
    MaxReal = 3
CHECK_DEADLOCK FALSE
PROPERTIES
    LooksEnd
