SPECIFICATION Spec
CONSTANTS
    Clients = {"client"}
    MaxReconnects = 1
    MaxRuns = 2
    MaxLog = 2
    Versions = {"old", "new"}
    TornWrites = FALSE
    LostWrites = FALSE
INVARIANTS StreamTypeOK ReadsTheLog SuccessIsReal
CHECK_DEADLOCK FALSE
 
