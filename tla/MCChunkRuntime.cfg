SPECIFICATION FairSpec
CONSTANTS
    Chunk <- MCChunk
    Large <- MCLarge
    Persistent <- MCPersistent
    Trainable <- MCTrainable
    NBlocks = 5
    ChunksOf <- MCChunksOf
    OffloadBlocks <- MCOffload
    NBuffer = 3
    Sharding <- BothModes
    MicroBatches = 2
    MaxSteps = 2
    MaxHandles = 2
    MaxFailures = 1
    NoChunk = NoChunk
    NoSlot = NoSlot
    InLarge = InLarge
    Placeholder = Placeholder
    OnCpu = OnCpu
    Model <- MCModel
    SChunk = 4
    Frozen <- MCFrozen
    Models <- MCModels
    Candidates <- MCCandidates
    BlockCounts <- MCBlockCounts
INVARIANTS
    Inv
    ComputeReadsOwnBuffer
    FloorSuffices
    SteppedOncePerStep
    LayoutKeepsBlocks
    LeastWaste
PROPERTIES
    UsesPoolWell
    Finishes
