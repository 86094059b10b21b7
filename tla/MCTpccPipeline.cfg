SPECIFICATION Spec
CONSTANTS
    o1 = o1 o2 = o2 o3 = o3 s1 = s1 ol = ol st = st
    Records <- MCRecords
    Initial <- MCInitial
    TableOf <- MCTableOf
    FlushOrder <- MCFlushOrder
    SubmitOrder <- MCSubmitOrder
    Capacity <- MCCapacity
    Warm <- MCWarm
    NEpochs = 3
    Batches <- MCBatches
    MaxCrashes = 2
    None = None
INVARIANTS RollbackSound MarkerBeforeBytes ReadsSerial FinalStateSerial
