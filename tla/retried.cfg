\* All six kinds of objects. One API call fails.
CONSTANTS
  None = None
  Order <- FullOrder
  CreatingTimeout = 0
  PodUnreadyTimeout = 0
  MaxUid = 1
  MaxTime = 0
  Scenarios <- CallFault
SPECIFICATION Spec
PROPERTY TransientErrorsRetried
CHECK_DEADLOCK FALSE
