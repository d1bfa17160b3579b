SPECIFICATION FairSpec
CONSTANTS
  Scenarios <- AllScenarios
  ExtEvents <- RestEvents
  MaxQueue = 1
  Channels = {"kickstand", "left", "right", "horn"}
  Debounced = {"kickstand"}
  IdleSettings <- OffOrOn
INVARIANTS TypeOK StandEndsDrive TimerOnlyAtRest IdleVehicleLocksUnless CountdownIsTimed StandbyIsDark BlinkersFollowSwitches HornEndsWithButton
PROPERTY KickstandIsHeard
CHECK_DEADLOCK FALSE
