\* One call that fails for good or one edit by others, between any two steps.
CONSTANTS
  None = None
  MaxFaults = 1
SPECIFICATION FairSpec
CHECK_DEADLOCK FALSE
INVARIANT TypeOK
PROPERTIES
  TerminatingIsFinal
  NothingMadeForTheGone
  RunningReported
