SPECIFICATION Spec
CONSTANTS
  Levers = {bl, br}
  Callbacks = {g1}
  SavedStates <- SavedParked
  ExtEvents <- DriveEvents
  WriteOutcomes = {TRUE}
  CueOutcomes = {TRUE}
  ReadsBlock = TRUE
  MaxQueue = 1
  MaxEdges = 2
SYMMETRY Symmetry
CHECK_DEADLOCK FALSE
INVARIANT ParkedBrakeEngaged
