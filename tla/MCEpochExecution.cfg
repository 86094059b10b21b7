SPECIFICATION FairSpec
CONSTANTS
    Records = {1, 2}
    Epoch = 3
    Work <- MCWork
    MaxPieces = 4
    NumWarps = 1
    Resident = 3
    Threads = 2
    TxnPieces = 2
    Starts <- MCStarts
INVARIANTS
    ReadsSerial
    RecordReadsSerial
    CommittedKept
    LeavesSerialState
PROPERTIES
    Terminates
