SPECIFICATION Spec
CONSTANTS
    wait = wait
    work = work
    beside = beside
    end = end
    Nodes = {wait, work, beside, end}
    Drawings <- Both
    MaxAttempts = 2
    MaxCrashes = 1
    MaxLost = 0
    MaxAsks = 1
CHECK_DEADLOCK FALSE
PROPERTIES
    StoppedCallsNothing
