------------------------------ MODULE MCCodec ------------------------------
(* Boundary values for the codec: 0, one byte, a carry into the second and *)
(* third byte, and the largest uint32 TLC represents; payload lengths 0, 1 *)
(* and UDP_PACKET_DATA_SIZE; names shorter than, exactly at, and longer    *)
(* than the 19 bytes strncpy keeps.                                        *)
(* Partition sizes around the segment size, for the partition trips.      *)
EXTENDS Codec

MCU32Vals == {0, 1, 256, 65536, 2147483647}
MCIndexVals == {0, 1, 255}
MCNames == {<<>>, <<97, 98>>, [i \in 1..19 |-> 97], [i \in 1..21 |-> 98]}
MCPayloadLens == {0, 1, UDP_PACKET_DATA_SIZE}
MCExtraCaps == {}
\* Partitions of no byte, one byte, one byte short of, exactly, one byte
\* over, and two segments and a byte over UDP_PACKET_DATA_SIZE.
MCPartSizes == {0, 1, UDP_PACKET_DATA_SIZE - 1, UDP_PACKET_DATA_SIZE,
                UDP_PACKET_DATA_SIZE + 1, 2 * UDP_PACKET_DATA_SIZE + 1}
\* Buffers with room for any header plus a short payload.
=============================================================================
