\* Full reads, sequence numbers below 256.
CONSTANTS
    SeqVals = {1, 2, 3}
    ReadSize = 10
    ShortReads = FALSE
    MaxPackets = 5
SPECIFICATION Spec
INVARIANT TypeOK
INVARIANT HandledWereSent
