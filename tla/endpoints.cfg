\* All six kinds of objects. Nothing goes wrong: the cache lags.
CONSTANTS
  None = None
  Order <- FullOrder
  CreatingTimeout = 0
  PodUnreadyTimeout = 0
  MaxUid = 1
  MaxTime = 0
  Scenarios <- Quiet
SPECIFICATION Spec
INVARIANT RunningHasEndpoints
CHECK_DEADLOCK FALSE
