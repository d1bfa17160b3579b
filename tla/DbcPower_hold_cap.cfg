SPECIFICATION Spec
CONSTANTS
  FirstSaved <- Parked
  ExtEvents <- LockEvents
  StateRequests <- NoRequests
  HardwareRequests <- NoRequests
  MaxQueue = 1
  MaxRequests = 2
  MaxRestarts = 0
CHECK_DEADLOCK FALSE
INVARIANT HoldIsCapped
