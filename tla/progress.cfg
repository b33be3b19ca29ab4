\* A failed call, with a broker outage, which may end, or with a lost pod.
CONSTANTS
  None = None
  Order <- ShortOrder
  CreatingTimeout = 0
  PodUnreadyTimeout = 0
  MaxUid = 1
  MaxTime = 0
  Scenarios <- Outages
SPECIFICATION FairSpec
PROPERTIES DeletionCompletes PhaseRecorded CreatingSettles LostPodNoticed
CHECK_DEADLOCK FALSE
