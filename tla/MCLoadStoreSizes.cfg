CONSTANTS
    SB_DEPTH = 2
    BYTES = 2
    ROB_DEPTH = 4
    Width = 1
    Words <- OneWord
    MemOps = {"LW", "LB", "SW", "SB"}
    N_LSU = 1
    Translation <- Translated
    MaxOps = 3
SPECIFICATION Spec
INVARIANT LoadIsProgramOrder
