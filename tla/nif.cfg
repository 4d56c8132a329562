SPECIFICATION ASpec
CONSTANTS
    Obj <- MCObj
    Files <- MCFiles
INVARIANTS
    SkeletonsFit
    SceneIsTree
    SkeletonOverItsShapes
    LevelsHidden
    TurnedSafely
    PlayersSafe
    TracksReach
    MaterialTracksApply
PROPERTY
    AttachmentsFollow
CHECK_DEADLOCK FALSE
