\* Two workers, three calls and three connections: one call's failure meets
\* another's reconnect and a third call follows.
CONSTANTS
  None = None
  w1 = w1
  w2 = w2
  Worker <- Workers
  MaxCalls = 3
  MaxDials = 3
SPECIFICATION FairSpec
CHECK_DEADLOCK FALSE
INVARIANTS
  TypeOK
  ConfirmedIsStored
  NoConnectionLeft
  ClosedIsFinal
PROPERTIES
  ImplementsPublishing
  
