\* The walk as written hands the builder the list head on every iteration.
CONSTANTS
    VFrames <- MC_VFrames
    PFrames <- MC_PFrames
    Sizes <- MC_Sizes
    MemSize = 4
    MaxPages = 2
SPECIFICATION BuildSpec
INVARIANT ChunksMatchReference
CHECK_DEADLOCK FALSE
