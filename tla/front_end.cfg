CONSTANTS
    Archives <- MCArchives
    Listings <- MCListings
    Scenes <- MCScenes
    Targets <- MCTargets
    StartAsset = "bomb"
    FontSets <- MCFontSets
    NArchives = 2
    NQueries = 2
    MaxSessions = 2
SPECIFICATION Spec
INVARIANTS
    ScreenSafe
    StoredComplete
    
    ListsRight
    ViewerTells
PROPERTIES
    BackLeadsUp
    AutoCycleTriesAll
    InitEnds
CHECK_DEADLOCK FALSE
