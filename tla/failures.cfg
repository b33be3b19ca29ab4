\* A failed call, a permanent error, a lost pod, an unready one and a tick of the
\* clock; or the session made again under its name, with a crash and a foreign object.
CONSTANTS
  None = None
  Order <- ShortOrder
  CreatingTimeout = 0
  PodUnreadyTimeout = 0
  MaxUid = 2
  MaxTime = 1
  Scenarios <- Failures
SPECIFICATION Spec
INVARIANTS TypeOK UndisturbedNeverFails
PROPERTIES FailsOnlyAfterTimeout OwnersAreLive
CHECK_DEADLOCK FALSE
