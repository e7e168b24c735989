SPECIFICATION FairSpec
CONSTANTS
    Sizes = {1, 5}
    NumProc = 2
    ChunksPerWorker = 1
    MinChunk = 1
    MaxChunk = 2
    InFlight = 1
    WriterBatch = 3
    MaxFaults = 1
    Rank = {r1, r2, r3}
    NoRank = NoRank
    MaxRuns = 2
INVARIANTS
    Inv
    WholeDataOnly
    CleansUp
    RaisesOnlyForCause
PROPERTY
    Settles
