CONSTANTS
    Infos <- MCInfos
    Buf = 4
    MaxQueries = 3
SPECIFICATION Spec
INVARIANTS
    ExtractionSafe
    OwnRowsFirst
    ForeignOnlyLeftOver
CHECK_DEADLOCK FALSE
