SPECIFICATION GatewaySpec
CONSTANTS
  MaxRuns = 1
  MaxLog = 6
  Versions <- MCVersions
  TornWrites = FALSE
  LostWrites = FALSE
  Methods <- MCSelfMethods
  Containerized <- MCSelfContainer
  Self = TRUE
  SameVersion = FALSE
  CommandLines <- MCText
  SupervisorMayDie = TRUE
  MaxCrashes = 1
  SlowSupervisor = TRUE
  TightRaces = FALSE
INVARIANTS GatewayTypeOK RunningHasFinisher TailSeesExit
PROPERTIES ImplementsVerdict UsesStore EveryRunDecided
CHECK_DEADLOCK FALSE
