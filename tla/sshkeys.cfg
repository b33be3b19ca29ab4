\* The session is deleted and made again under the same name.  Nothing fails.
CONSTANTS
  None = None
  Order <- ShortOrder
  CreatingTimeout = 0
  PodUnreadyTimeout = 0
  MaxUid = 2
  MaxTime = 0
  Scenarios <- Recreation
  Container <- TwoContainers
SPECIFICATION PodSpec
INVARIANT TerminalOpensVM
CHECK_DEADLOCK FALSE
