\* A failed call, an unready pod and a lost container, init container or pod; or a
\* crash and a foreign object; or an edit and a broker outage; or time passing.
CONSTANTS
  None = None
  Order <- ShortOrder
  CreatingTimeout = 0
  PodUnreadyTimeout = 0
  MaxUid = 1
  MaxTime = 1
  Scenarios <- PodFailures
  Container <- TwoContainers
SPECIFICATION PodSpec
INVARIANTS PodTypeOK FirstTerminalOpensVM RunningWasServed
PROPERTY ImplementsReconciler
CHECK_DEADLOCK FALSE
