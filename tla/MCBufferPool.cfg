SPECIFICATION Spec
CONSTANTS
    c1 = c1
    c2 = c2
    c3 = c3
    c4 = c4
    big = big
    k1 = k1
    k2 = k2
    Chunk <- MCChunk
    Large <- MCLarge
    Client <- MCClient
    NBuffer = 3
    NoChunk = NoChunk
    NoSlot = NoSlot
INVARIANTS
    IInv
    ExhaustedOnlyWhenHeld
PROPERTIES
    HeldStaysPut
    ImplementsResidentCache
