SPECIFICATION Spec
CONSTANTS
  FirstSaved <- Parked
  ExtEvents <- LockEvents
  StateRequests <- UnlockOnly
  HardwareRequests <- NoRequests
  MaxQueue = 1
  MaxRequests = 2
  MaxRestarts = 0
CHECK_DEADLOCK FALSE
PROPERTY UnlockNotDropped
