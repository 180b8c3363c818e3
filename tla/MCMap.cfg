CONSTANTS
    Keys = {"a", "ab", "b", "c", "d"}
    Values = {1, 2}
    Hash <- MCHash
    Begins <- MCBegins
    MAP_DEFAULT_BUCKET_SIZE = 2
    InitSizes = {0, 1}
    MaxBuckets = 8
SPECIFICATION MapSpec
INVARIANT MapIsFunction
PROPERTY WalksVisitOnce
CHECK_DEADLOCK FALSE
