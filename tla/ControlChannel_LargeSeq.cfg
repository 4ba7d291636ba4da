\* Full reads; seq_no 769 (bytes 01 03 00 00) as in a partition of 770+ segments.
CONSTANTS
    SeqVals = {769}
    ReadSize = 10
    ShortReads = FALSE
    MaxPackets = 5
SPECIFICATION Spec
INVARIANT HandledWereSent
