CONSTANTS
    HALVES = 10
    Wide <- MCWide
    Starts <- MCStarts
    Jumps <- NextJumps
    FETCH_WIDTH = 2
    IB_DEPTH = 4
    DISPATCH_WIDTH = 2
    RENAME_PENDING_DEPTH = 3
SPECIFICATION ISpec
INVARIANT OnePath
