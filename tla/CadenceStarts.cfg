SPECIFICATION Spec
CONSTANTS
    Cadences = {c}
    Unread = Unread
    None = None
    Never = Never
    Drawn <- Several
    Speeds = {0, 1, 3}
    Jump = 5
    WallAhead = 0
    ModelClockInterval = 2
    Prompt = TRUE
    Troubles = {"faster", "jump", "lastDue", "interval", "kind", "stream", "mark", "refuse", "throw", "timeout", "crash"}
    MaxTroubles = 2
    MaxReal = 4
CHECK_DEADLOCK FALSE
INVARIANTS
    StartedOnce
    RanThroughIsDue
    DueAsSaid
    HeldIsStored
