SPECIFICATION FairSpec
CONSTANTS
    r1 = r1
    r2 = r2
    r3 = r3
    g1 = g1
    g2 = g2
    None = None
    Records <- MCRecords
    Initial <- MCInitial
    Slots <- MCSlots
    NEpochs = 3
    Batches <- MCOverlapping
    MaxCrashes = 2
INVARIANTS
    RollbackSound
    OneDiscardedSlot
    AdmitUncontended
    ReadsSerial
    NothingLost
    FinalStateSerial
PROPERTIES
    EvictedNeverDirty
    ImplementsSerialStore
    RunTerminates
