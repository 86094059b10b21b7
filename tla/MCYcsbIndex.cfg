SPECIFICATION Spec
CONSTANTS
    Keys <- MCKeys
    Starting = 1
    NumRecords = 4
    Batches <- MCBatches
    LastEpoch <- MCLastEpoch
    MaxCrashes <- MCMaxCrashes
    CrashInReplay = FALSE
    Nothing = Nothing
INVARIANTS TypeOK ResolvesSerially IndexSerial RejectedInsertUndone
PROPERTIES PublishedLogStable
