SPECIFICATION FairSpec
CONSTANTS
  FirstSaved <- NoneOrParked
  ExtEvents <- LockEvents
  StateRequests <- Requests
  HardwareRequests <- NoRequests
  MaxQueue = 1
  MaxRequests = 2
  MaxRestarts = 1
CHECK_DEADLOCK FALSE
PROPERTY DeferredUnlockServed
