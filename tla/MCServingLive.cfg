SPECIFICATION ServingFairSpec
CONSTANTS
    r1 = r1
    r2 = r2
    r3 = r3
    Reqs <- MCReqs
    SeqIds <- MCSeqIds
    Kinds <- MCLiveKinds
    PromptLen <- MCShortPrompts
    MaxNew <- MCOneNew
    KVCapacity = 2
    StateCapacity = 1
    BlockSize = 2
    MaxTokens = 4
    NoSeq = NoSeq
    NoSlot = NoSlot
    ChunkSize = 1
    MaxConcurrency = 2
    PromptLens = {1}
    MaxNews = {1}
    UseStates = {TRUE}
    MaxContext = 8
    MaxQueued = 2
    MaxDeltas = 1
PROPERTIES
    Answered
    MemoryReturns
    PlacesReturn
CHECK_DEADLOCK FALSE
