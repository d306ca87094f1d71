CONSTANTS
    Lines = {0, 1}
    Stored = {0, 1}
    SETS = 1
    Ways = {0}
    Words = {0}
    Vals = {0, 1}
    N_MSHR = 2
    Lanes = {0, 1}
    DELAY = 2
    QNUM = 2
    IDX = 4
    SECTORS = 1
    SPAN = 4
    Values = {0, 1}
    Image0 <- MCImage
    Chains <- MCChains
    NCPU = 2
    NTASK = 3
    HALVES = 10
    Wide <- MCWide
    Starts <- MCStarts
    Jumps <- MCJumps
    FETCH_WIDTH = 2
    IB_DEPTH = 4
    DISPATCH_WIDTH = 2
    RENAME_PENDING_DEPTH = 3
SPECIFICATION Spec
INVARIANTS
    PartsTypeOK
    StoresKept ResponseIsLoads OnePlacePerLoad LookupNeverWaits
    AnsweredOnce ServedInOrder InterruptNotLost
    OneCpuPerStack ResumesWhereItStopped MutualExclusion
    OnePath WholeInstructions
PROPERTIES HeadsReturn TasksRun LockIsReleased FetchGoesOn
