SPECIFICATION Spec
CONSTANTS
    Cursors <- MCCursors
    Counts <- MCCounts
    Stamps <- MCStamps
    HalfGens = 2
    Nothing = Nothing
PROPERTIES
    ReadsAtomic
