CONSTANTS
    Width <- MCWidth
    NSeg = 4
    LastFull = FALSE
    MaxLoss = 0
    MaxDrop = 1
    CtrlCapacity = 3
    QueueCapacity = 2
    SaveMayFail = TRUE
SPECIFICATION Spec
INVARIANT TypeOK
INVARIANT AckedImpliesPersisted
INVARIANT SenderRetainsUnacked
CHECK_DEADLOCK FALSE
