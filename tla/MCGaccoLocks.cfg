CONSTANTS
    Records = {1, 2, 3}
    NTxns = 3
    OpsPerTxn = 2
    NEpochs = 2
    Batches <- MCBatches
    BlockSize = 2
    Resident = 2
SPECIFICATION FairSpec
INVARIANTS
    HeldInTurn
    RunsSerially
PROPERTIES
    KernelsEnd
