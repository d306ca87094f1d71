CONSTANTS
    Pcs <- TwoPcs
    REQ_DEPTH = 2
    INF_DEPTH = 2
    FQ_DEPTH = 2
    EPOCHS = 2
    HIT_PIPELINE_EN = TRUE
    BYPASS_EN = TRUE
    MaxLines = 1
    Translation <- Translated
    PageFaults <- Either
    Fences = FALSE
SPECIFICATION Spec
INVARIANT FaultIsPrecise
