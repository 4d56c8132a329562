SPECIFICATION ASpec
CONSTANTS
    Obj <- MCObj
    Files <- MCFiles
INVARIANT LevelsDrawn
CHECK_DEADLOCK FALSE
