\* The walk frees pages->data, the head page, on every iteration.
CONSTANTS
    VFrames <- MC_VFrames
    PFrames <- MC_PFrames
    Sizes <- MC_Sizes
    MemSize = 4
    MaxPages = 2
SPECIFICATION BuildSpec
INVARIANT PagesFreedOnce
CHECK_DEADLOCK FALSE
