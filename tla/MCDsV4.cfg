SPECIFICATION DsSpec
CONSTANTS
    Window = 3
    TopK = 2
    Ratios <- MCTestRatios
    MaxSeqLen = 9
    MaxTable = 9
    DraftBlock = 2
INVARIANT
    DecodeMatchesPrefill
CHECK_DEADLOCK FALSE
