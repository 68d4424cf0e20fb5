SPECIFICATION Spec
CONSTANTS
  Service = Service
  Success = Success
  Fail = Fail
  NoPipeline = NoPipeline
  Held <- MCHeld
  MAX_HISTORY = 2
  MaxPlaced = 2
  MaxEdits = 2
  MaxOpens = 2
  MaxSaves = 2
  MaxFaults = 1
INVARIANTS SavedReadsAsDrawn ShownIsEdited RunsWhatIsShown
PROPERTIES OthersKept
CHECK_DEADLOCK FALSE
