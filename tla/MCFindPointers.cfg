SPECIFICATION Spec
CONSTANTS
    Workspace <- MCWorkspace
    Projects <- MCProjects
    Assets <- MCAssets
    Deps <- MCDeps
    Packs <- MCPacks
    AssetSeq <- MCAssetSeq
    ProjectSeq <- MCProjectSeq
    Targets <- MCTargets
    TargetSeq <- MCTargetSeq
    MaxReleases = 4
    MaxBuilds = 2
    MaxFaults = 1
INVARIANTS PointersMoved
CHECK_DEADLOCK FALSE
