CONSTANTS
    Width <- MCWidth
    SeqNos <- MCSeqNos
SPECIFICATION Spec
INVARIANT TypeOK
INVARIANT RangesOrdered
INVARIANT NoPhantomSeqNo
INVARIANT CompleteMeansReceived
