SPECIFICATION Spec
CONSTANTS
    Branches <- MCBranches
    BranchIds <- MCBranchIds
    Mainlines <- MCMainlines
    GroupSeq <- MCGroupSeq
    Files <- MCFiles
    MaxRuns = 2
    MaxBumps = 1
INVARIANTS FlowTypeOK  
  
CHECK_DEADLOCK FALSE
