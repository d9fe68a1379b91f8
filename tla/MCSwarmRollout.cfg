\* A service of two tasks and a sibling; a wait of three intervals.
SPECIFICATION Spec
CONSTANTS
  svc1 = svc1
  svc2 = svc2
  Services <- MCServices
  Target <- MCTarget
  Replicas = 2
  MaxFails = 1
  Timeout = 3
  Grace = 2
  FailPolls = 2
INVARIANT RolloutTypeOK
PROPERTIES HonestExit 
CHECK_DEADLOCK FALSE
