CONSTANTS
    SB_DEPTH = 2
    BYTES = 1
    ROB_DEPTH = 4
    Width = 1
    Words <- OneWord
    MemOps = {"LR", "SC", "SW", "AMO"}
    N_LSU = 1
    Translation <- Either
    MaxOps = 3
SPECIFICATION FairSpec
INVARIANT MemoryIsArchitectural
PROPERTY Drains
