\* A failed call or an edit, with a crash, a broker outage and a confirm that is
\* lost; and a failed call with an edit.
CONSTANTS
  None = None
  Order <- ShortOrder
  CreatingTimeout = 0
  PodUnreadyTimeout = 0
  MaxUid = 1
  MaxTime = 0
  Scenarios <- EventFailures
SPECIFICATION Spec
INVARIANTS AnnotationHonest UndisturbedNeverFails
PROPERTIES ImplementsLifecycle
CHECK_DEADLOCK FALSE
