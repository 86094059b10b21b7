SPECIFICATION Spec
CONSTANTS
    c1 = c1
    c2 = c2
    c3 = c3
    c4 = c4
    c5 = c5
    None = None
    Records <- MCRecords
    Loaded <- MCLoaded
    Cap = 3
    NumThreads = 2
    Reclaim = TRUE
    Sizes = {1, 2, 3, 4}
    LastEpoch = 3
INVARIANTS
    IndexMatchesSlots
    VictimsDistinct
    EnoughVictims
    FlaggedAreDeleted
    TransfersMatchIndex
PROPERTIES
    ImplementsBinding
SYMMETRY MCSymmetry
