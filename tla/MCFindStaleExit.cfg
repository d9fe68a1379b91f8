SPECIFICATION GatewaySpec
CONSTANTS
  MaxRuns = 2
  MaxLog = 6
  Versions <- MCVersions
  TornWrites = FALSE
  LostWrites = FALSE
  Methods <- MCSelfMethods
  Containerized <- MCSelfContainer
  Self = TRUE
  SameVersion = FALSE
  CommandLines <- MCText
  SupervisorMayDie = FALSE
  MaxCrashes = 0
  SlowSupervisor = FALSE
  TightRaces = FALSE
INVARIANTS OwnVerdict
CHECK_DEADLOCK FALSE
