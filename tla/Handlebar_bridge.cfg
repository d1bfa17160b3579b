SPECIFICATION Spec
CONSTANTS
  Workers = {w1, w2}
  ExtEvents <- StandbyEvents
  Requests <- NoRequests
  Coarse = FALSE
  Retries = 2
  MaxLocks = 2
  MaxRequests = 0
  MaxMoves = 0
SYMMETRY Symmetry
CHECK_DEADLOCK FALSE
INVARIANT SidesComplementary
