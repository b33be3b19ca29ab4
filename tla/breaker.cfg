\* Three callers and two probes at a time; a breaker that trips at the third
\* consecutive failure, so that failed probes alone do not trip it, and an interval that empties the counts while closed.
CONSTANTS
  None = None
  c1 = c1
  c2 = c2
  c3 = c3
  Caller <- Callers
  MaxRequests = 2
  Interval = 2
  Timeout = 1
  FailureLimit = 2
  MaxTime = 6
  MaxCalls = 6
  MaxResets = 2
SPECIFICATION Spec
SYMMETRY Symmetry
CHECK_DEADLOCK FALSE
INVARIANTS
  TypeOK
  Accounting
  ProbesBounded
PROPERTIES
  
  LateResultsIgnored
  
