SPECIFICATION FairSpec
CONSTANTS
    list = list
    board = board
    narrow = narrow
    Pages = {board}
    Selectors = {WHOLE_MODEL, narrow}
    WHOLE_MODEL = WHOLE_MODEL
    Asks <- OneNarrow
    Ids = {s1, s2, s3, s4}
    None = None
    MaxReaders = 1
    MaxStale = 1
    MaxHead = 2
    MaxFaults = 2
INVARIANTS
    NoneAbandoned
    FollowsThePage
    NoGap
PROPERTIES
    ComesLive
