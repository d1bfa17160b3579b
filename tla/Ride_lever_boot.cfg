SPECIFICATION Spec
CONSTANTS
  Levers = {bl, br}
  Callbacks = {g1}
  SavedStates <- SavedDrive
  ExtEvents <- NoEvents
  WriteOutcomes = {TRUE}
  CueOutcomes = {TRUE}
  ReadsBlock = TRUE
  MaxQueue = 0
  MaxEdges = 1
SYMMETRY Symmetry
CHECK_DEADLOCK FALSE
INVARIANT HeldLeverBrakes
