SPECIFICATION StoreSpec
CONSTANTS
  MaxRuns = 2
  MaxLog = 3
  Versions <- MCVersions
  TornWrites = TRUE
  LostWrites = FALSE
INVARIANTS TypeOK VerdictDurable MetaFollowsLog
