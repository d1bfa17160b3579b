SPECIFICATION FairSpec
CONSTANTS
  Levers = {bl}
  Callbacks = {g1}
  SavedStates <- SomeSaved
  ExtEvents <- RideEvents
  WriteOutcomes = {TRUE, FALSE}
  CueOutcomes = {TRUE}
  ReadsBlock = FALSE
  Calm = {}
  MaxQueue = 1
  MaxEdges = 1
CHECK_DEADLOCK FALSE
INVARIANTS TypeOK LockedIsDark DarkEcuIsReported ParkedInterlock InterlockHolds DarkDashboardEntry RefusalIsQueued
PROPERTIES PoweredAfterBrake RefusedDriveEnds
