CONSTANTS
    Width <- MCWidth
    SeqNos <- MCSeqNos
SPECIFICATION Spec
INVARIANT AddRecords
