SPECIFICATION FairSpec
CONSTANTS
    a = a
    b = b
    c = c
    end = end
    left = left
    right = right
    Nodes = {a, b, c, end}
    Choices = {left, right}
    Drawings <- Sweeps
    MaxConcurrency = 2
    MaxAttempts = 2
    MaxLost = 2
INVARIANTS
    CalledInOrder
    SuccessIsEarned
    EndIsRecorded
    CallsWithinPolicy
    WaitIsRecorded
    WaitsHaveVigils
PROPERTIES
    FinishedIsFinal
    SweepEnds
    StopIsHeard
