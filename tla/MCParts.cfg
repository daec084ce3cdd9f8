SPECIFICATION PartsSpec
CONSTANTS
    s1 = s1
    s2 = s2
    s3 = s3
    a = a
    b = b
    s = s
    SeqIds <- MCSeqIds
    KVCapacity = 4
    StateCapacity = 2
    BlockSize = 2
    MaxTokens = 6
    NoSeq = NoSeq
    NoSlot = NoSlot
    Seqs <- MCTwoSeqs
    Confs <- MCConfs
    Layers <- MCLayers
    PromptLen = 1
    MaxCtx = 3
    Tokens <- MCTokens
    NoToken = NoToken
    StopIds <- MCStopIds
    Calls <- MCCalls
    Greedy <- MCGreedy
    MaxLen = 5
    Contexts <- MCContexts
    ByteTables <- MCBytes
    Window = 3
    TopK = 2
    Ratios <- MCRatios
    MaxSeqLen = 15
    MaxTable = 13
    DraftBlock = 2
    Kinds <- MCKinds
    ConvKernel = 3
    Ratio = 2
    Budget = 2
    NGram = 3
    Taps = 2
    MinCap = 2
    MaxPositions = 6
    Holders <- MCTwoSeqs
    KVLayers = {0, 1}
    BytesPerToken = 2
    PlanBlockSize = 2
    BudgetBytes = 13
    Utilization = 90
    MaxBuffers = 6
    TP = 2
    Block = 4
    Geometries <- MCGeometries
    WorldSize = 2
    Tags = {"o_proj", "logits"}
    Shapes = {1, 2}
    MaxPartials = 2
    Strides <- MCStrides
    Kernels <- MCKernels
    KVHeads = 2
    RowWords = 2
    Buffers = {"k", "v"}
    StartCtxs = {1, 2}
    MaxRows = 7
INVARIANTS
    KVTypeOK
    FreeOrOwned
    TablesMatchOwners
    NoSharing
    StagedExact
    NothingMissed
    DeviceRowsCurrent
    SpecTypeOK
    EndsForAReason
    ContinuesPrefill
    CachesExact
    PlacementExact
    ShardsExact
    BlocksExact
    RowsWhereRead
    RoundsApart
PROPERTIES
    HeldUntilFreed
    PlainSpec
    MtpExact
    GenerateExact
    LoopsReturn
CHECK_DEADLOCK FALSE
