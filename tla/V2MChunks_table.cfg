\* The v2m table: the walk and setup_v2m_table as the code runs them, and
\* the insert helpers and mmap_m2p_chunks as pure operators against the
\* reference table, over every sorted page list of up to three pages.  The
\* build stops once setup_v2m_table has returned.
CONSTANTS
    VFrames <- MC_VFrames
    PFrames <- MC_PFrames
    Sizes <- MC_Sizes
    MemSize = 4
    MaxPages = 3
SPECIFICATION BuildSpec
INVARIANT TypeOK
INVARIANT BuilderMatchesReference
INVARIANT LookupCorrect
CHECK_DEADLOCK FALSE
