SPECIFICATION Spec
CONSTANTS
    Workspace <- MCWorkspace
    Projects <- MCProjects
    Assets <- MCAssets
    Deps <- MCDeps
    Packs <- MCPacks
    AssetSeq <- MCAssetSeq
    ProjectSeq <- MCProjectSeq
    Targets <- MCTargets
    TargetSeq <- MCTargetSeq
    MaxReleases = 8
    MaxBuilds = 3
    MaxFaults = 2
INVARIANTS TypeOK FlagMeansComplete PublicMeansPushed SuccessMeansReleases RegistryIsRelease TagsFollowReleases OwnTarball
CHECK_DEADLOCK FALSE
PROPERTIES EventuallyReleased
