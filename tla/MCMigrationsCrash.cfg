SPECIFICATION Spec
CONSTANTS
  r1 = r1
  r2 = r2
  r3 = r3
  d1 = d1
  d2 = d2
  Nobody = Nobody
  Replicas <- MCTwo
  NumFiles = 4
  Dests <- MCDests
  Target <- MCTarget
  Sources <- MCSources
  MaxCrashes = 1
  SlowHolder = TRUE
  CopyMayFail = TRUE
INVARIANTS LedgerInOrder
 
