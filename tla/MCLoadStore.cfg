CONSTANTS
    SB_DEPTH = 2
    BYTES = 1
    ROB_DEPTH = 4
    Width = 2
    Words <- TwoWords
    MemOps = {"LW", "SW"}
    N_LSU = 1
    Translation <- Translated
    MaxOps = 4
SPECIFICATION Spec
INVARIANTS LsTypeOK StoresInOrder MemoryIsArchitectural LoadIsProgramOrder
