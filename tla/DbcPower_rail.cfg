SPECIFICATION Spec
CONSTANTS
  FirstSaved <- NoneOrParked
  ExtEvents <- LockEvents
  StateRequests <- Requests
  HardwareRequests <- OnOffForce
  MaxQueue = 1
  MaxRequests = 3
  MaxRestarts = 1
CHECK_DEADLOCK FALSE
INVARIANTS TypeOK RailHasHolder UpdateIsWatched InhibitorsFollowHolds HibernationIsOneShutdown UnlockWaitsForStandby
PROPERTY UpdateOutlivesStandby
