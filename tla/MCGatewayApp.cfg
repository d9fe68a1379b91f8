SPECIFICATION GatewaySpec
CONSTANTS
  MaxRuns = 2
  MaxLog = 6
  Versions <- MCVersions
  TornWrites = FALSE
  LostWrites = FALSE
  Methods <- MCContainers
  Containerized <- MCContainers
  Self = FALSE
  SameVersion = FALSE
  CommandLines <- MCText
  SupervisorMayDie = FALSE
  MaxCrashes = 1
  SlowSupervisor = FALSE
  TightRaces = TRUE
INVARIANTS LogDecides SuccessWasDeployed TornDownFirst
PROPERTIES EveryRunDecided
CHECK_DEADLOCK FALSE
