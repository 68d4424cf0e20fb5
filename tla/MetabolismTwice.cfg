SPECIFICATION Spec
CONSTANTS
    water = water
    power = power
    house = house
    Rels = {water, power}
    SubjectOf <- OfOneHouse
    Callers = {c, d}
    Stream = Stream
    Loops = {l1, l2, l3, l4}
    None = None
    Unreadable = Unreadable
    Huge = Huge
    Quantities = {2, Huge}
    Frequencies = {0, 2}
    Given <- Misstated
    FarOff = {}
    Ending = {}
    Edited = {water}
    MaxCalls = 2
    MaxEdits = 0
    MaxFaults = 0
CHECK_DEADLOCK FALSE
INVARIANT OneLoopEach
