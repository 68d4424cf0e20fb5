SPECIFICATION Spec
CONSTANTS
    wait = wait
    work = work
    beside = beside
    end = end
    Nodes = {wait, work, beside, end}
    Drawings <- Both
    MaxAttempts = 2
    MaxCrashes = 2
    MaxLost = 1
    MaxAsks = 1
CHECK_DEADLOCK FALSE
INVARIANTS
    CallsAreSpared
    WaitsAreHeld
    NothingLeftUnderWay
PROPERTIES
    StartedAgainIsOver
    EndStays
