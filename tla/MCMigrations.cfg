SPECIFICATION Spec
CONSTANTS
  r1 = r1
  r2 = r2
  r3 = r3
  d1 = d1
  d2 = d2
  Nobody = Nobody
  Replicas <- MCReplicas
  NumFiles = 4
  Dests <- MCDests
  Target <- MCTarget
  Sources <- MCSources
  MaxCrashes = 0
  SlowHolder = FALSE
  CopyMayFail = FALSE
INVARIANTS TypeOK  AppliedOnce 
SYMMETRY Symmetry
