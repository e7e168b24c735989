SPECIFICATION Spec
CONSTANTS
    t1 = t1
    t2 = t2
    t3 = t3
    Tensor <- MCTensor
    Size <- MCSize
    Capacity = 7
    Align = 2
    Closer = {k1, k2}
    NoExtent = NoExtent
INVARIANTS
    Tiled
    UnpacksOwnBytes
    RegionOutlivesCopies
