CONSTANTS
    U32Vals <- MCU32Vals
    IndexVals <- MCIndexVals
    Names <- MCNames
    PayloadLens <- MCPayloadLens
    ExtraCaps <- MCExtraCaps
    PartSizes <- MCPartSizes
SPECIFICATION Spec
INVARIANT TypeOK
INVARIANT WireLayout
INVARIANT RoundTrip
INVARIANT PartitionRebuilt
\* Each behaviour is one packet's trip, which ends once it is decoded, or
\* one partition's, which ends by repeating saves.
CHECK_DEADLOCK FALSE
