SPECIFICATION FairSpec
CONSTANTS
    SeqIds <- MCSeqIds
    KVCapacity = 3
    StateCapacity = 1
    BlockSize = 2
    MaxTokens = 6
    NoSeq = NoSeq
    NoSlot = NoSlot
    ChunkSize = 2
    MaxConcurrency = 2
    PromptLens = {1, 3}
    MaxNews = {1, 3}
    UseStates = {TRUE, FALSE}
INVARIANTS
    TypeOK
    OnePlace
    ArrivalOrder
    ReservationHeld
    AdmitNeverRaises
PROPERTIES
    PumpIsMaximal
    FitFinishes
    ImplementsService
