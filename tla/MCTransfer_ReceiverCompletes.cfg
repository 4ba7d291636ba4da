CONSTANTS
    Width <- MCWidth
    NSeg = 2
    LastFull = FALSE
    MaxLoss = 1
    MaxDrop = 1
    CtrlCapacity = 3
    QueueCapacity = 2
    SaveMayFail = FALSE
SPECIFICATION FairSpec
PROPERTY ReceiverCompletes
CHECK_DEADLOCK FALSE
