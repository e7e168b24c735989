SPECIFICATION DiskSpec
CONSTANTS
    NTensors = 3
    SaveWorkers = 1
    MaxPrefetch = 1
    Prefetcher = {w1, w2}
    MaxFaults = 0
    NoTensor = NoTensor
INVARIANT PrefetchersSurvive
