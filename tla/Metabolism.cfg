SPECIFICATION FairSpec
CONSTANTS
    water = water
    power = power
    house = house
    Rels = {water, power}
    SubjectOf <- OfOneHouse
    Callers = {c}
    Stream = Stream
    Loops = {l1, l2, l3, l4}
    None = None
    Unreadable = Unreadable
    Huge = Huge
    Quantities = {2, Huge}
    Frequencies = {0, 2}
    Given <- Misstated
    FarOff = {power}
    Ending = {power}
    Edited = {water}
    MaxCalls = 3
    MaxEdits = 2
    MaxFaults = 1
CHECK_DEADLOCK FALSE
INVARIANTS
    LoopsAreFound
    Watched
    ConfigFollows
PROPERTIES
    StopComes
