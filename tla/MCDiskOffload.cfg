SPECIFICATION DiskFairSpec
CONSTANTS
    NTensors = 3
    SaveWorkers = 1
    MaxPrefetch = 1
    Prefetcher = {w1, w2}
    MaxFaults = 1
    NoTensor = NoTensor
INVARIANTS
    Inv
    FailsOnlyWithItsSave
PROPERTIES
    Settles
