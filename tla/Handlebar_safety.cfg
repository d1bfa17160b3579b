SPECIFICATION Spec
CONSTANTS
  Workers = {w1, w2}
  ExtEvents <- SteeringEvents
  Requests <- SomeRequests
  Coarse = TRUE
  Retries = 1
  MaxLocks = 2
  MaxRequests = 1
  MaxMoves = 1
SYMMETRY Symmetry
VIEW Distinguished
CHECK_DEADLOCK FALSE
INVARIANTS TypeOK CoilsRest WindowIsCancellable ParkedIsFree StandbyLatch
