SPECIFICATION Spec
CONSTANTS
    Things = {a, b}
    InPage = {a}
    Values = {v, w}
    Moods = {calm, warned}
    Unset = Unset
    Absent = Absent
    None = None
    MaxChanges = 2
    MaxOpens = 2
    MaxMoves = 1
CHECK_DEADLOCK FALSE
INVARIANTS
    StoreIsExact
    StatesAreExact
SYMMETRY Alike
