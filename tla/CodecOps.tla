------------------------------ MODULE CodecOps ------------------------------
(***************************************************************************)
(* The packet codec (src/src/ucp_packet.c): the three constructors, the    *)
(* per-kind encoders and decoders, and the dispatching ucp_packet_encode / *)
(* ucp_packet_decode.                                                      *)
(*                                                                         *)
(* A buffer is a sequence of bytes; C's buf[k] is At(buf, k).  A packet is *)
(* a record with the fields of its union member.  Encoding returns the     *)
(* bytes it writes, or EncodeFail for the code's (size_t)-1.  Decoding     *)
(* writes into a caller's packet, so it takes that packet and returns it   *)
(* unchanged when the code returns early.                                  *)
(*                                                                         *)
(* Payload bytes are copied by memcpy, so a payload is a byte sequence     *)
(* whose content is fixed by its length; what is checked is how the        *)
(* header fields are split into and rebuilt from bytes.  uint32 fields     *)
(* take values below 2^31, the largest TLC integers.                       *)
(*                                                                         *)
(* The operators are shared by Codec, which walks one packet through the   *)
(* program's calls, and ControlChannel, which decodes a TCP byte stream.   *)
(***************************************************************************)
EXTENDS Integers, Sequences

\* defines.h
UDP_PACKET_DATA_SIZE == 9 * 1024 - 50
UDP_PACKET_SIZE == UDP_PACKET_DATA_SIZE + 50

\* sizeof(ucp_packet_t) on LP64: type (4) + padding (4) + the largest union
\* member, ucp_data_packet_t: flag, seq_no, offset (12) + padding (4) +
\* seg_len (8) + segment_data (9166), rounded up to a multiple of 8.
SizeofPacket == 9200

\* ucp_packet.h
UCP_PACKET_TYPE_CTRL == 1
UCP_PACKET_TYPE_DATA == 2
UCP_PACKET_TYPE_METADATA == 3
CtrlFlags == {1, 2, 3}          \* UCP_FLAG_ACK, NACK, FIN
DataFlags == {0, 1, 2}          \* UCP_FLAG_DATA_SEGMENT, START, END
NameSize == 20                  \* sizeof desination_name

\* What an encoder returns: the length it reports and the bytes it wrote;
\* on failure (size_t)-1 and nothing written.
EncodeFail == -1
Written(bytes) == [ret |-> Len(bytes), bytes |-> bytes]
Failed == [ret |-> EncodeFail, bytes |-> <<>>]

Byte == 0..255
At(buf, k) == buf[k + 1]

\* (v >> 8*i) & 0xFF for i = 0..n-1, and the | of shifted bytes back.
LE(v, n) == [i \in 1..n |-> (v \div 2^(8 * (i - 1))) % 256]
BE(v, n) == [i \in 1..n |-> (v \div 2^(8 * (n - i))) % 256]
FromLE(buf, k, n) == LET RECURSIVE F(_)
                         F(i) == IF i = n THEN 0
                                 ELSE At(buf, k + i) * 2^(8 * i) + F(i + 1)
                     IN F(0)
FromBE(buf, k, n) == LET RECURSIVE F(_)
                         F(i) == IF i = n THEN 0
                                 ELSE At(buf, k + i) * 2^(8 * (n - 1 - i)) + F(i + 1)
                     IN F(0)

\* The bytes memcpy copies from the caller's segment buffer.
Payload(len) == [i \in 1..len |-> i % 256]

-----------------------------------------------------------------------------
(* Constructors, the ucp_packet_init functions: a zeroed packet, fields set. *)

ZeroPacket == [type |-> 0]

\* ucp_packet_init_ctrl
InitCtrl(seqNo, flag) ==
    [type |-> UCP_PACKET_TYPE_CTRL, flag |-> flag, seq_no |-> seqNo]

\* ucp_packet_init_data; file_io_get_next_packet sets the flag afterwards.
InitData(seqNo, offset, data, flag) ==
    [type |-> UCP_PACKET_TYPE_DATA, flag |-> flag, seq_no |-> seqNo,
     offset |-> offset, seg_len |-> Len(data), data |-> data]

\* strncpy of at most 19 bytes into the zeroed 20-byte field.
NameField(name) ==
    [i \in 1..NameSize |-> IF i <= Len(name) /\ i < NameSize THEN name[i] ELSE 0]

\* ucp_packet_init_metadata
InitMetadata(name, index, size) ==
    [type |-> UCP_PACKET_TYPE_METADATA, part_index |-> index,
     part_size |-> size, name |-> NameField(name)]

-----------------------------------------------------------------------------
(* Encoders and decoders.                                                  *)

\* Mutant: the seq_no bytes written without the & 0xFF mask.
EncodeDataUnmasked(p, bufLen) ==
    IF bufLen < SizeofPacket THEN Failed
    ELSE Written(<<p.type, p.flag % 256>>
         \o [i \in 1..4 |-> p.seq_no \div 2^(8 * (i - 1))]
         \o LE(p.offset, 4) \o LE(p.seg_len, 2) \o p.data)

\* ucp_packet_encode_data
EncodeData(p, bufLen) ==
    IF bufLen < SizeofPacket THEN Failed
    ELSE Written(<<p.type, p.flag % 256>> \o LE(p.seq_no, 4) \o LE(p.offset, 4)
         \o LE(p.seg_len, 2) \o p.data)

\* ucp_packet_decode_data
DecodeData(buf, bufLen, into) ==
    IF bufLen < SizeofPacket THEN into
    ELSE LET len == FromLE(buf, 10, 2)
         IN [type |-> At(buf, 0), flag |-> At(buf, 1),
             seq_no |-> FromLE(buf, 2, 4), offset |-> FromLE(buf, 6, 4),
             seg_len |-> len, data |-> SubSeq(buf, 13, 12 + len)]

\* Mutant: the seq_no bytes written most significant first.
EncodeCtrlBigEndian(p, bufLen) ==
    IF bufLen < 6 THEN Failed
    ELSE Written(<<p.type, p.flag % 256>> \o BE(p.seq_no, 4))

\* ucp_packet_encode_ctrl_data
EncodeCtrlData(p, bufLen) ==
    IF bufLen < 6 THEN Failed
    ELSE Written(<<p.type, p.flag % 256>> \o LE(p.seq_no, 4))

\* Mutant: seq_no read back most significant byte first.
DecodeCtrlDataBigEndian(buf, bufLen, into) ==
    IF bufLen < 6 THEN into
    ELSE [type |-> At(buf, 0), flag |-> At(buf, 1), seq_no |-> FromBE(buf, 2, 4)]

\* ucp_packet_decode_ctrl_data
DecodeCtrlData(buf, bufLen, into) ==
    IF bufLen < 6 THEN into
    ELSE [type |-> At(buf, 0), flag |-> At(buf, 1), seq_no |-> FromLE(buf, 2, 4)]

\* ucp_packet_encode_meta_data: part_size is written big-endian.
EncodeMetaData(p, bufLen) ==
    IF bufLen < SizeofPacket THEN Failed
    ELSE Written(<<p.type % 256, p.part_index % 256>> \o BE(p.part_size, 4) \o p.name)

\* ucp_packet_decode_meta_data
DecodeMetaData(buf, bufLen, into) ==
    IF bufLen < SizeofPacket THEN into
    ELSE [type |-> At(buf, 0), part_index |-> At(buf, 1),
          part_size |-> FromBE(buf, 2, 4), name |-> SubSeq(buf, 7, 6 + NameSize)]

\* ucp_packet_encode: dispatch on the packet's type.
Encode(p, bufLen) ==
    CASE p.type = UCP_PACKET_TYPE_DATA     -> EncodeData(p, bufLen)
      [] p.type = UCP_PACKET_TYPE_CTRL     -> EncodeCtrlData(p, bufLen)
      [] p.type = UCP_PACKET_TYPE_METADATA -> EncodeMetaData(p, bufLen)

\* ucp_packet_decode: dispatch on byte 0; an unknown tag leaves the packet.
Decode(buf, bufLen, into) ==
    CASE At(buf, 0) = UCP_PACKET_TYPE_DATA     -> DecodeData(buf, bufLen, into)
      [] At(buf, 0) = UCP_PACKET_TYPE_METADATA -> DecodeMetaData(buf, bufLen, into)
      [] At(buf, 0) = UCP_PACKET_TYPE_CTRL     -> DecodeCtrlData(buf, bufLen, into)
      [] OTHER                                 -> into

=============================================================================
