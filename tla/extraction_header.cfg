CONSTANTS
    Infos <- MCFewInfos
    Buf = 4
    MaxQueries = 2
SPECIFICATION FairSpec
PROPERTY HeaderHolds
CHECK_DEADLOCK FALSE
