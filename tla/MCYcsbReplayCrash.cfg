SPECIFICATION Spec
CONSTANTS
    Keys <- MCKeys
    Starting = 1
    NumRecords = 5
    Batches <- MCBatches1
    LastEpoch <- MCLastEpoch1
    MaxCrashes <- MCMaxCrashes1
    CrashInReplay = FALSE
    Nothing = Nothing
INVARIANTS CursorsNameTarget
