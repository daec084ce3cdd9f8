SPECIFICATION ServingSpec
CONSTANTS
    r1 = r1
    r2 = r2
    r3 = r3
    Reqs <- MCThreeReqs
    SeqIds <- MCThreeIds
    Kinds <- MCMixedKinds
    PromptLen <- MCPromptLen
    MaxNew <- MCMaxNew
    KVCapacity = 3
    StateCapacity = 2
    BlockSize = 2
    MaxTokens = 4
    NoSeq = NoSeq
    NoSlot = NoSlot
    ChunkSize = 1
    MaxConcurrency = 2
    PromptLens = {1, 8}
    MaxNews = {1, 2}
    UseStates = {TRUE}
    MaxContext = 8
    MaxQueued = 2
    MaxDeltas = 1
INVARIANTS
    ServingTypeOK
    EngineMatchesScheduler
    DoneIsOver
    ReplyComplete
PROPERTIES
    NothingAfterDone
CHECK_DEADLOCK FALSE
