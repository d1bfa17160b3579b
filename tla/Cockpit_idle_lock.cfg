SPECIFICATION Spec
CONSTANTS
  Scenarios <- JustHopOn
  ExtEvents <- RestEvents
  MaxQueue = 1
  Channels = {"kickstand", "left", "right", "horn"}
  Debounced = {"kickstand"}
  IdleSettings <- OffOrOn
INVARIANT IdleVehicleLocks
CHECK_DEADLOCK FALSE
