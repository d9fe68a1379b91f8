SPECIFICATION StoreSpec
CONSTANTS
  MaxRuns = 2
  MaxLog = 2
  Versions <- MCVersions
  TornWrites = TRUE
  LostWrites = TRUE
PROPERTY DecidedIsFinal
