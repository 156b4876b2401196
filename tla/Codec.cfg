SPECIFICATION Spec
CONSTANTS
    ChunkModes <- MCChunkModes
    Ints <- MCInts
    Sizes = {1, 2, 4, 8}
    Data <- MCData
    KeyVals <- MCKeyVals
    NumberSet <- MCNumbers
    MaxPending = 2
INVARIANTS
    InStep
    RoundTrip
    NumberOrder
    NumberNormal
