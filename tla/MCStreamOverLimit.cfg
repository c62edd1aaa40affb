SPECIFICATION StFairSpec
CONSTANTS
    Kinds = {"single", "merge", "mp3"}
    Chunks = 2
    PipeCap = 1
    Limits = {0, 1}
PROPERTY
    OverLimitEnds
CHECK_DEADLOCK FALSE
