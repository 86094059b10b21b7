SPECIFICATION Spec
CONSTANTS
    MaxElems = 5
    MaxCalls = 3
    Epoch = 4
    Clients <- MCStagers
    ChunkBytes = 1
    VersBytes = 3
    WbBytes = 2
    FloorBytes = 3
    CapBytes = 6
    TuneBytes = 3
    TuneChunks = 3
INVARIANTS
    CallsDeliver
    BuffersHold
    ChunksMoveOn
PROPERTIES
    GrowsUnused
CHECK_DEADLOCK FALSE
