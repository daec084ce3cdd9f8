SPECIFICATION PathSpec
CONSTANTS
    Seqs = {s1, s2}
    Confs <- MCRecurrent
    Layers <- MCLayers
    PromptLen = 1
    MaxCtx = 3
INVARIANT
    FallbackClean
CHECK_DEADLOCK FALSE
