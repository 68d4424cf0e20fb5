SPECIFICATION Spec
CONSTANTS
  Positions = {p, q}
  Drawn = Drawn
  None = None
  Addresses = {x, y}
  Shares = {seed}
  Seed = seed
  Populations = {n}
  POLLS_AFTER_SUBMIT = 1
  MaxFetches = 1
  MaxTurns = 1
  MaxPosts = 2
  MaxReads = 2
  MaxFaults = 1
SYMMETRY Alike
CONSTRAINT FewInFlight
INVARIANTS FetchedIsHere ModelHoldsThePage ReportIsOfTheModel
CHECK_DEADLOCK FALSE
