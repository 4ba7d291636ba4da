------------------------------ MODULE FileIOOps ------------------------------
(***************************************************************************)
(* The partition file operations of src/src/file_io.c that the transfer    *)
(* uses, as operators on file contents.  A file is a sequence of bytes.    *)
(* The sender cuts its partition into DATA packets with                    *)
(* file_io_get_next_packet, one fread of up to UDP_PACKET_DATA_SIZE bytes  *)
(* at a time.  The receiver creates a zero-filled file of the announced    *)
(* part_size with file_io_open_file_of_size, and writes each DATA packet   *)
(* at its offset with file_io_save_packet, in whatever order the packets   *)
(* arrive.                                                                 *)
(***************************************************************************)
EXTENDS CodecOps

UCP_FLAG_DATA_SEGMENT == 0
UCP_FLAG_DATA_START == 1
UCP_FLAG_DATA_END == 2

\* The bytes of a partition: split copies the file's bytes, so content is
\* fixed by position; period 251 is prime to UDP_PACKET_DATA_SIZE, so a
\* segment saved at the wrong offset shows.
Partition(size) == [i \in 1..size |-> i % 251]

\* What fread(buffer, 1, UDP_PACKET_DATA_SIZE, fp) returns at position pos.
FreadLen(file, pos) ==
    IF Len(file) - pos > UDP_PACKET_DATA_SIZE THEN UDP_PACKET_DATA_SIZE
                                             ELSE Len(file) - pos

\* Mutant: the offset is taken by ftell after the fread.
RECURSIVE ReadSegmentsOffsetAfterRead(_, _, _)
ReadSegmentsOffsetAfterRead(file, pos, seqNo) ==
    LET n == FreadLen(file, pos)
        offset == pos + n
        flag == IF offset = 0 THEN UCP_FLAG_DATA_START
                ELSE IF pos + n = Len(file) /\ n < UDP_PACKET_DATA_SIZE
                     THEN UCP_FLAG_DATA_END ELSE UCP_FLAG_DATA_SEGMENT
    IN IF n = 0 THEN <<>>
       ELSE <<InitData(seqNo, offset, SubSeq(file, pos + 1, pos + n), flag)>>
            \o ReadSegmentsOffsetAfterRead(file, pos + n, seqNo + 1)

\* The packets successive file_io_get_next_packet calls return, from file
\* position pos, until one returns NULL: offset = ftell, then an fread of
\* up to UDP_PACKET_DATA_SIZE bytes; a read of 0 bytes ends it.  The first
\* is flagged START; another is flagged END when its fread hit the end of
\* the file, which is a short read (feof), not a full one that ends there.
RECURSIVE ReadSegments(_, _, _)
ReadSegments(file, pos, seqNo) ==
    LET n == FreadLen(file, pos)
        offset == pos
        flag == IF offset = 0 THEN UCP_FLAG_DATA_START
                ELSE IF pos + n = Len(file) /\ n < UDP_PACKET_DATA_SIZE
                     THEN UCP_FLAG_DATA_END ELSE UCP_FLAG_DATA_SEGMENT
    IN IF n = 0 THEN <<>>
       ELSE <<InitData(seqNo, offset, SubSeq(file, pos + 1, pos + n), flag)>>
            \o ReadSegments(file, pos + n, seqNo + 1)

\* file_io_open_file_of_size: fopen "wb" empties the file, then the loop
\* writes zeros, at most UDP_PACKET_DATA_SIZE bytes at a time, until
\* remaining is 0.
RECURSIVE OpenFileOfSize(_, _)
OpenFileOfSize(file, remaining) ==
    LET writeSize == IF remaining > UDP_PACKET_DATA_SIZE THEN UDP_PACKET_DATA_SIZE
                                                         ELSE remaining
    IN IF remaining = 0 THEN file
       ELSE OpenFileOfSize(file \o [i \in 1..writeSize |-> 0], remaining - writeSize)

\* file_io_save_packet: fseek to the packet's offset (past the end leaves
\* a hole read as zeros) and fwrite seg_len bytes of segment_data there,
\* overwriting or extending the file.
SavePacket(file, p) ==
    LET last == IF Len(file) > p.offset + p.seg_len THEN Len(file)
                                                   ELSE p.offset + p.seg_len
    IN [i \in 1..last |->
          IF p.offset < i /\ i <= p.offset + p.seg_len THEN p.data[i - p.offset]
          ELSE IF i <= Len(file) THEN file[i] ELSE 0]

\* A DATA packet's trip through the codec: encoded into the client's
\* buf[UDP_PACKET_SIZE] and decoded from the server's recv_buffer.
OverTheWire(p) ==
    DecodeData(EncodeData(p, UDP_PACKET_SIZE).bytes, UDP_PACKET_SIZE, ZeroPacket)

\* part_size as the receiver decodes it from the METADATA packet.
AnnouncedSize(size) ==
    DecodeMetaData(EncodeMetaData(InitMetadata(<<>>, 0, size), UDP_PACKET_SIZE).bytes,
                   UDP_PACKET_SIZE, ZeroPacket).part_size

=============================================================================
