\* Nothing fails and nobody else edits the session.
CONSTANTS
  None = None
  MaxFaults = 0
SPECIFICATION FairSpec
CHECK_DEADLOCK FALSE
PROPERTY DeletionFinishes
