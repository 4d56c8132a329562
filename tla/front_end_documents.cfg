CONSTANTS
    Archives <- MCArchives
    Listings <- MCListings
    Scenes <- MCScenes
    Targets <- MCTargets
    StartAsset = "bomb"
    FontSets <- MCFontSets
    NArchives = 0
    NQueries = 0
    MaxSessions = 1
SPECIFICATION Spec
INVARIANT DocumentsHold
CHECK_DEADLOCK FALSE
