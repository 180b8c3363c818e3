CONSTANTS
    Meta = 1
    Link = 1
    NUMBER_OF_POOLS = 3
    POOL_BLOCK_SIZE = 8
    ArenaSize = 6
    Word = 2
    MaxRegions = 2
    Handles = {h1}
    Sizes = {1, 3}
    MINIMUM_SIZE = 2
    Slack = 2
    Kinds = 2
    V = V
    MaxLen = 3
SPECIFICATION Spec
INVARIANTS
    SegmentsInOnePlace
    VectorIsSequence
PROPERTY ContentsKept
CHECK_DEADLOCK FALSE
