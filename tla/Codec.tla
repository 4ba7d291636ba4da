------------------------------- MODULE Codec -------------------------------
(***************************************************************************)
(* One packet's trip through the codec (src/src/ucp_packet.c) along the    *)
(* path the program gives it: built by its constructor, encoded into the   *)
(* sender's buffer, decoded by the peer into a zeroed packet.  The codec   *)
(* operators themselves are in CodecOps.                                   *)
(*                                                                         *)
(* A DATA packet's path goes on past the decode: the receiver saves it     *)
(* into the file it created from the METADATA's part_size.  A partition    *)
(* trip follows all of one partition's DATA packets along that path, cut   *)
(* by file_io_get_next_packet and saved in any order, any one again.  The  *)
(* file operators are in FileIOOps.                                        *)
(***************************************************************************)
EXTENDS FileIOOps

CONSTANTS
    U32Vals,        \* values for seq_no, offset and part_size
    IndexVals,      \* values for the uint8_t part_index
    Names,          \* destination names given to ucp_packet_init_metadata
    PayloadLens,    \* segment lengths given to ucp_packet_init_data
    ExtraCaps,      \* buffer sizes tried besides the callers' own
    PartSizes       \* partition sizes, as ftell reports them

ASSUME /\ U32Vals \subseteq 0..(2147483647)
       /\ IndexVals \subseteq 0..255
       /\ PayloadLens \subseteq 0..UDP_PACKET_DATA_SIZE
       /\ Names \subseteq Seq(1..255)
       /\ PartSizes \subseteq 0..2147483647

(* One packet's trip: built by its constructor, encoded into the sender's  *)
(* buffer, decoded by the peer into a zeroed packet.                       *)

\* The packets the program builds: the CTRL packets of send_ctrl_packet,
\* the DATA packets of file_io_get_next_packet and the METADATA packet of
\* block_thread.
Built ==
    {InitCtrl(s, f) : s \in U32Vals, f \in CtrlFlags}
    \cup {InitData(s, o, Payload(l), f) : s \in U32Vals, o \in U32Vals,
                                           l \in PayloadLens, f \in DataFlags}
    \cup {InitMetadata(nm, i, sz) : nm \in Names, i \in IndexVals, sz \in U32Vals}

\* Buffer handed to ucp_packet_encode: uint8_t buf[10] in the server's
\* send_ctrl_packet, uint8_t buf[UDP_PACKET_SIZE] in the client's block_thread.
SenderCap(p) == IF p.type = UCP_PACKET_TYPE_CTRL THEN 10 ELSE UDP_PACKET_SIZE

\* buf_len given to ucp_packet_decode: the client passes the bytes read from
\* TCP (one whole CTRL packet here), the server sizeof(recv_buffer).
ReceiverLen(p, buf) ==
    IF p.type = UCP_PACKET_TYPE_CTRL THEN Len(buf) ELSE UDP_PACKET_SIZE

VARIABLES
    pkt, cap, sent, out,    \* one packet's trip
    part,                   \* a partition trip: the partition's size
    file,                   \*   the receiver's partition file
    unsaved,                \*   the indices of DATA packets not yet saved
    pc                      \* "built", "encoded", "decoded"; "partition"

vars == <<pkt, cap, sent, out, part, file, unsaved, pc>>

\* The DATA packets file_io_get_next_packet cuts from the partition.
Segments(size) == ReadSegments(Partition(size), 0, 0)

TypeOK ==
    /\ pkt \in Built \cup {ZeroPacket}
    /\ cap \in Nat
    /\ sent \in [ret : Nat \cup {EncodeFail}, bytes : Seq(Byte)]
    /\ pc \in {"built", "encoded", "decoded", "partition"}
    /\ file \in Seq(Byte)

\* A packet trip starts from a built packet; a partition trip from the
\* receiver's main having taken the METADATA and run
\* file_io_open_file_of_size with its decoded part_size.
Init ==
    \/ /\ pkt \in Built
       /\ cap \in {SenderCap(pkt)} \cup ExtraCaps
       /\ sent = Written(<<>>)
       /\ out = ZeroPacket
       /\ pc = "built"
       /\ part = 0 /\ file = <<>> /\ unsaved = {}
    \/ /\ part \in PartSizes
       /\ file = OpenFileOfSize(<<>>, AnnouncedSize(part))
       /\ unsaved = DOMAIN Segments(part)
       /\ pc = "partition"
       /\ pkt = ZeroPacket /\ cap = 0 /\ sent = Written(<<>>) /\ out = ZeroPacket

EncodeStep ==
    /\ pc = "built"
    /\ sent' = Encode(pkt, cap)
    /\ pc' = "encoded"
    /\ UNCHANGED <<pkt, cap, out, part, file, unsaved>>

\* A failed encode returns (size_t)-1 and nothing valid reaches the peer.
DecodeStep ==
    /\ pc = "encoded"
    /\ sent.ret # EncodeFail
    /\ out' = Decode(sent.bytes, ReceiverLen(pkt, sent.bytes), ZeroPacket)
    /\ pc' = "decoded"
    /\ UNCHANGED <<pkt, cap, sent, part, file, unsaved>>

\* The receiving thread takes DATA packet k of the partition from its
\* recv_buffer and file_io_save_packet writes it; the network may deliver
\* the packets in any order, and the sender's retransmission may deliver
\* one that was saved already.
SaveSegment ==
    /\ pc = "partition"
    /\ \E k \in DOMAIN Segments(part) :
          /\ file' = SavePacket(file, OverTheWire(Segments(part)[k]))
          /\ unsaved' = unsaved \ {k}
    /\ UNCHANGED <<pkt, cap, sent, out, part, pc>>

Next == EncodeStep \/ DecodeStep \/ SaveSegment

Spec == Init /\ [][Next]_vars

-----------------------------------------------------------------------------
(* Reference: the wire layout of spec section 4.1, byte by byte.           *)

LEByte(v, i) == (v \div 256^i) % 256

SpecByte(p, k) ==
    CASE k = 0 -> p.type
      [] p.type = UCP_PACKET_TYPE_CTRL ->
            IF k = 1 THEN p.flag ELSE LEByte(p.seq_no, k - 2)
      [] p.type = UCP_PACKET_TYPE_DATA ->
            CASE k = 1  -> p.flag
              [] k <= 5  -> LEByte(p.seq_no, k - 2)
              [] k <= 9  -> LEByte(p.offset, k - 6)
              [] k <= 11 -> LEByte(p.seg_len, k - 10)
              [] OTHER   -> p.data[k - 11]
      [] p.type = UCP_PACKET_TYPE_METADATA ->
            CASE k = 1  -> p.part_index
              [] k <= 5  -> LEByte(p.part_size, 5 - k)
              [] OTHER   -> p.name[k - 5]

SpecLen(p) ==
    CASE p.type = UCP_PACKET_TYPE_CTRL     -> 6
      [] p.type = UCP_PACKET_TYPE_DATA     -> 12 + p.seg_len
      [] p.type = UCP_PACKET_TYPE_METADATA -> 6 + NameSize

SpecWire(p) == [k \in 1..SpecLen(p) |-> SpecByte(p, k - 1)]

-----------------------------------------------------------------------------
(* Properties.                                                             *)

\* Round-trip law (spec section 8): what ucp_packet_decode rebuilds from the
\* bytes ucp_packet_encode wrote is the packet the constructor built, for
\* every kind, including payload lengths 0 and UDP_PACKET_DATA_SIZE and the
\* big-endian part_size of METADATA.
RoundTrip == pc = "decoded" => out = pkt

\* The bytes ucp_packet_encode writes are exactly the layout of spec section
\* 4.1: little-endian seq_no, offset and length, big-endian part_size, the
\* 20-byte NUL-padded name, and nothing after the payload.
WireLayout ==
    (pc = "encoded" /\ sent.ret # EncodeFail) =>
        /\ sent.bytes = SpecWire(pkt)
        /\ sent.ret = Len(sent.bytes)

\* Reference: the 1-based index of the segment that carries byte i of a
\* partition, when every segment but the last is UDP_PACKET_DATA_SIZE long.
SegmentOf(i) == (i - 1) \div UDP_PACKET_DATA_SIZE + 1

\* The receiver's file is, at every moment, exactly what the DATA packets
\* saved so far make it: whatever order file_io_save_packet runs in, and
\* however often a retransmitted packet is saved again, each byte of a
\* segment already saved is the partition's byte, each byte of a segment
\* not yet saved is still the zero file_io_open_file_of_size wrote, and the
\* file keeps the size the sender's ftell measured; so once every packet
\* file_io_get_next_packet cut is saved, the file is the partition.
PartitionRebuilt ==
    pc = "partition" =>
        LET P == Partition(part)
        IN file = [i \in 1..part |-> IF SegmentOf(i) \in unsaved THEN 0 ELSE P[i]]

=============================================================================
