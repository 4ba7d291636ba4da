# TLA+ models of UCP

UCP copies a file over UDP. The sender splits the file into partitions, and
one thread per partition sends that partition's segments. The receiver writes
the segments into a partition file. It reports what is missing over a TCP
control channel: an ACK for each stored segment, a NACK for each gap, and a
FIN when everything is in. The modules here model the C sources under
`src/src/` and check them with TLC.

## The system

| Part | Source | State | Operations |
|---|---|---|---|
| Packet codec | `ucp_packet.c/.h`, `defines.h` | none; pure functions | `ucp_packet_init_*`, the per-kind `encode_*` / `decode_*`, the dispatchers `ucp_packet_encode` and `ucp_packet_decode` |
| Sequencer | `sequencer.c` | ordered list of received ranges, `maxSeqNo`, `expectedLastSeqNo` | `sequencer_init`, `_add`, `_check`, `_complete` (merges, then tests), `_iterate_missing_segments` |
| Sender flow | `ucp_client.c` | global `pending` and `in_flight` lists, global `done`, file cursor | `block_thread`, `get_next_packet`, `find_packet`, `on_ack_received` |
| Control channel | `tcp_socket.c` | the TCP byte stream, the child socket in `server_fd_set` | receiver side: `tcp_client_send`, `tcp_client_disconnect`; sender side: `tcp_server_tick` (a `select` with a 1.1 s timeout), `tcp_server_receive` (one `read` of up to 1024 bytes, or EOF and `close_child_socket`) |
| Receiver flow | `ucp_server.c` | event queue behind a mutex, sequencer, partition file | `main`, `receiving_thread`, `sequencing_thread`, `sequencing_queue_push/pop`, `send_ctrl_packet` |
| File I/O | `file_io.c` | the partition file, its position | `file_io_get_next_packet` (ftell, fread, START/END flags), `file_io_open_file_of_size`, `file_io_save_packet` |
| Linked list | `linked_list.c/.h` | an anchor element, `next`/`prev` pointers, heap cells, `num_members` | `LinkedListInit`, `Append`, `Prepend`, `InsertAfter`, `InsertBefore`, `Unlink`, `UnlinkAll`; queries `Empty`, `Length`, `First`, `Last`, `Next`, `Prev`, `Find` |
| Process setup | `main` of `ucp_client.c` and `ucp_server.c`, `create_socket`, `udp_socket.c` | bound ports per host, thread states | argument parsing, thread creation and join, UDP/TCP binds, the METADATA hand-shake |
| Statistics | `report_statistics` | | printing |

How the parts interact, for one partition:

1. The sender sends METADATA over UDP. It then waits for the receiver to connect
   back over TCP.
2. The receiver gets METADATA, opens the file and connects back. It then starts
   two threads:
   - the **receiving thread** saves each DATA segment. It pushes an ACK event
     onto the queue, or a NACK event and exits if the save fails.
   - the **sequencing thread** busy-loops while `!sequencer_complete`. On each
     event it sends the event's ACK or NACK and calls `sequencer_add`. It then
     sends a NACK for every gap. When the loop ends it sends FIN and cancels
     the receiving thread.
3. Each iteration of the sender does three things. `get_next_packet` picks a
   packet in this order: the head of pending, then the next file segment, then
   the head of in-flight for a re-send. The packet is sent and appended to
   in-flight. One `tcp_server_tick` then handles at most one CTRL packet:
   - ACK removes the packet from in-flight.
   - NACK moves it to pending.
   - FIN sets `done`.

Several things make this hard to test:
- Two receiver threads meet at a queue.
- UDP may lose datagrams or deliver them in any order.
- One `read` may return several CTRL packets, and only the first is decoded.
  The rest of the buffer is dropped, so the next read can start mid-packet.
- A save can fail halfway through a transfer.
- The sequencer's range list is uint32 arithmetic with wrap-around.
- `sequencer_complete` merges only pairs of ranges per call.

## Modules

| Module | Models | Variables ↔ code |
|---|---|---|
| `SequencerOps` | the pure operators of `sequencer.c` | one operator per branch of `sequencer_add` (`Branch`, `ExtendLast`, `ExtendFirst`, `AddTo`), `Check`, `MergePass` (the pairwise loop, `RECURSIVE`), `IsComplete`, `MissingSegments`. Arithmetic is modulo `2^Width`. |
| `Sequencer` | the sequencer as a component | `seq`, `maxSeqNo` and `expectedLastSeqNo` are the struct fields. `Add(n, isLast)` is the whole `sequencer_add`. `Complete` is the merge pass of `sequencer_complete`, and `CompleteAnswer` is its return value. `added` and `lastGiven` are history variables. |
| `CodecOps` | the pure functions of `ucp_packet.c` | one operator per constructor, encoder and decoder, and the two dispatchers `Encode` and `Decode`. Shared by `Codec` and `ControlChannel`. |
| `FileIOOps` | the file operations of `file_io.c` the transfer calls | `ReadSegments` (the successive `file_io_get_next_packet` calls, `RECURSIVE`), `OpenFileOfSize` (the zero-filling loop, `RECURSIVE`), `SavePacket` (fseek and fwrite at the offset), `OverTheWire` and `AnnouncedSize` (a DATA packet and the METADATA part_size through the codec). |
| `Codec` | a packet's trip through `ucp_packet.c`, and a partition's trip through the codec into the receiver's file | `pkt` is the packet a constructor built. `sent` is the encoder's return value and the bytes it wrote into a caller's buffer of size `cap`. `out` is the packet decoded into a zeroed `ucp_packet_t`. `EncodeStep` and `DecodeStep` pass these through the call sites' buffer sizes. In a partition trip, `part` is the partition size, `file` the receiver's file as `file_io_open_file_of_size` made it from the decoded part_size, and `unsaved` the packets not yet saved. `SaveSegment` is one save by the receiving thread: any packet, in any order, possibly again. |
| `Transfer` | one partition end to end: `block_thread`, `get_next_packet`, `on_ack_received`, `tcp_server_tick`/`receive`, the receiver's `main`, `receiving_thread` and `sequencing_thread`, `file_io_get_next_packet` and `file_io_save_packet` | Sender: `sPC`, `cursor` (the file offset, counted in segments), `pending`, `inflight`, `done`. Network: `metaInFlight`, `udp` (the set of datagrams in transit), `ctrl` (the TCP stream as a sequence of CTRL packets). Receiver: `rPC`, `rcvAlive`, `seqPC`, `queue`, `rseq`/`rmax`/`rexp` (its sequencer), `persisted`. `acked` is history. Each action is a whole handler or one loop iteration; the comment above each action names the code it models. |
| `ControlChannel` | the TCP control channel as bytes: `send_ctrl_packet` and `tcp_client_send`, `tcp_client_disconnect`, `tcp_server_tick`, `tcp_server_receive`, `close_child_socket`, `on_ack_received` | `stream` is the bytes written and not yet read. `txOpen` is the receiver's connection, `rxOpen` the child socket in `server_fd_set`, `done` the sender's global flag. `sent` and `handled` are history: the CTRL packets sent, and what `on_ack_received` acted on, marked by whether decode wrote `rsp_pkt`. |
| `ListSpec` | what `linked_list.c` promises | an abstract sequence `list`, with one action per call acting at a position. `op` records the call and its position. |
| `LinkedList` | `linked_list.c` at the pointer level | `next` and `prev` are the elements' pointers, `Anchor` the anchor element embedded in `LinkedList`, `Elems` the heap cells malloc can return, `allocated` the cells in use, `num_members` the count. One action per call; queries are operators. `LinkedListInsertAfter`/`Before` may fail on malloc, `Append`/`Prepend` do not check it. The refinement mapping `AbsList` walks `next` from the anchor. |
| `Session` | both processes' `main` and `block_thread`'s setup | `mainPC`/`joinIdx` are the client main and its join loop. `tPC[i]` is thread i's progress through `create_socket`, `tcp_server_start`, the METADATA send and the accept loop. `sPC` is the receiver main. `host` is where the receiver runs. `bound` is the set of (host, protocol, port) sockets bound. `udp` is the set of METADATA and DATA datagrams in transit (`Datagram(to, from, kind)`). `conn` is the thread the receiver connected to. `fileOpen` is whether the receiver main opened `thread_ctx.handle` with `file_io_open_file_of_size`, which it does only when its first datagram is METADATA. `restarts` counts kills of the receiver process (`ReceiverRestart`, at most `MaxRestarts`): the kernel closes its UDP socket and drops what was queued, and the new `main` starts with a fresh `thread_ctx`. `BlockThreadSendData` is one iteration of `block_thread`'s send loop, which keeps sending DATA and never resends METADATA. The transfer itself is one step, `TransferEnds`; `Transfer` models it. |
| `MCSequencer`, `MCCodec`, `MCTransfer`, `MCLinkedList` | model-checking instances | constant values |

More on the modelling choices:
- **UDP in transit is a set.** A duplicate datagram collapses into the one
  already there. Reordering is free, because any member may be received next.
  Loss is the `LoseMeta` and `LoseData` actions, bounded by `MaxLoss`.
- **Coalesced reads.** `TickRead(k)` consumes the first `k` queued CTRL packets
  and applies only the head, because that is how much one `read` returns and
  what `on_ack_received` decodes. At most `MaxDrop` reads coalesce. This is
  the packet-level view. `ControlChannel` shows it is exact only while reads stay
  aligned on packet boundaries (see below).
- **Read size.** `ControlChannel` replaces the 1024-byte buffer by `ReadSize`
  10. Where reads cut the stream depends only on the buffer size modulo 6, and
  1024 and 10 both leave 4. Full reads then start at packet offsets 0, 4, 2,
  0, ... as in the program, after 2 packets instead of 171. `ShortReads` lets
  a read return fewer bytes than are queued, as TCP does when the bytes
  arrived in separate segments. No run sets it now: with short reads
  `HandledWereSent` fails in the same way as with large sequence numbers.
- **Uninitialised `rsp_pkt`.** When `ucp_packet_decode` does not write
  `rsp_pkt`, `on_ack_received` branches on stack contents. The model lets
  that branch be any of ACK, NACK, FIN or none, and marks the action
  `"uninit"`.
- **Heap cells.** `LinkedList` takes malloc's result from a set of three
  cells, so every list of up to three elements, in every pointer layout, is
  reached. A freed cell keeps its stale fields, as in the program.
- **Field width.** Sequence numbers keep their uint32 semantics modulo
  `2^Width`, with Width 3 or 4. This is enough for the sentinel `UINT32_MAX`
  and for the wrap of `firstSeqNo - 1` at 0 to be reached. TLC integers stop
  at 2^31, so Width cannot be 32.
- **Codec values.** The codec's uint32 fields take values up to 2^31-1.
  Payloads are the bytes `memcpy` copies, and they are fixed by their length.
- **Duplicate function definitions.** `ucp_server.c` defines `send_ctrl_packet`,
  `send_ack`, `send_nack` and `send_fin` twice. The second copy, at lines
  63-86, is UDP-based with uint16 sequence numbers, so the file does not
  compile as given. The model follows the first copy, the TCP one, which the
  design describes.

## Runs

| Run | Bounds | Shows |
|---|---|---|
| `sequencer_safety` (pass) | SeqNos 0..4, Width 4, every call order | The ranges stay ordered and disjoint (`RangesOrdered`). No number is claimed without being added (`NoPhantomSeqNo`). `sequencer_complete` answers TRUE only when 0..expectedLast were all added and one add carried isLast (`CompleteMeansReceived`). 557 states. |
| `sequencer_lost_add` (violation) | same | `AddRecords` fails. Adding 2 then 0 loses the 0, because no branch of the scan loop matches it. |
| `codec_roundtrip` (pass) | seq/offset/size ∈ {0,1,256,65536,2^31-1}; payload length 0, 1, 9166; names of length 0, 2, 19, 21 | `WireLayout`: encoding writes exactly the layout of spec §4.1, including the big-endian part_size. `RoundTrip`: decoding gives back the constructed packet. `PartitionRebuilt`: partitions of 0, 1, D−1, D, D+1 and 2D+1 bytes (D = 9166), cut by `file_io_get_next_packet`, are sent through the codec and saved in any order, with repeats. At every step the receiver's file is exactly what the saves so far make it: the partition's bytes in every segment saved, zeros in every segment not yet saved, and the partition's size. This is checked against an independent reference (`SegmentOf`: byte i belongs to segment (i−1) div D + 1). Once every packet is saved, the file equals the partition. 919 states. |
| `transfer_safety` (pass) | 4 segments, save may fail, 1 coalesced read, CTRL stream ≤ 3, queue ≤ 2 | `AckedImpliesPersisted`: the sender forgets a packet only after the receiver persisted it. `SenderRetainsUnacked`: every packet sent and not acknowledged is in pending or in-flight. Four segments is the smallest count at which a merge pass is left incomplete (`SeqIdle`). About 2.7 M states in 2.5 min. |
| `transfer_sender_live` (pass) | 2 segments, 1 loss | `SenderTerminates`: the send loop always ends, either with every segment acknowledged or on FIN. |
| `transfer_receiver_hangs` (violation) | same | `ReceiverCompletes` fails. Both segments arrive and are ACKed, but `expectedLastSeqNo` stays `UINT32_MAX`, so the receiver spins forever. |
| `transfer_fin_after_failed_save` (violation) | 2 segments, save may fail | `FinMeansDelivered` fails. The failed save's NACK event is taken as the last segment, so FIN is sent with nothing persisted. |
| `linkedlist_refines` (pass) | 3 heap cells, 2 objects, every call order | `WellFormed`: the pointers form one cycle through the anchor, `prev` inverts `next`, the linked cells are the allocated ones and `num_members` counts them. `QueriesAgree`: the queries answer as the list they stand for. `ImplementsListSpec`: `LinkedList` refines `ListSpec`, so each call acts at the position its name promises. 9,521 states. |
| `ctrl_framing_small_seq` (pass) | seq_no ∈ {1,2,3}, full reads, 5 CTRL packets | `HandledWereSent`: every ACK, NACK or FIN decoded from the bytes was sent. Five packets are needed for a read to start at offset 2 with 6 bytes behind it. About 1.05 M states in 20 s. |
| `ctrl_framing_large_seq` (violation) | seq_no 769, full reads, 5 packets | `HandledWereSent` fails. The read starting two bytes into a packet with seq_no 769 (bytes `01 03 00 00`) decodes as CTRL flag 3, a FIN, and the sender sets `done`. |
| `session_client_hangs` (violation) | 3 threads; the receiver on its own host or the client's | `ClientTerminates` fails. Client and receiver share a host, and the receiver binds UDP 6342 first. Thread 1 then cannot bind its port 6341 + 1 = 6342 and exits. Thread 0's transfer completes, so the receiver exits. Thread 2 sent its METADATA to port 6344, where nothing listens, and it waits in `accept` for ever. `main`'s `pthread_join` waits on it. The shortest trace TLC reports is simpler still: thread 0's METADATA is lost, and thread 2 again waits in `accept` for ever. No thread ever resends METADATA. 337 states. |
| `session_receiver_restart` (violation) | 1 thread, 1 restart of the receiver, on either host | `ServesAnnouncedFile` fails. The receiver takes the METADATA, opens the file, dials back and serves. It is killed and started again. Meanwhile thread 0, already in its send loop, sends DATA. The new `main`'s first `recvfrom` takes that DATA packet, so `file_io_open_file_of_size` is skipped (`ucp_server.c:221`). `main` still connects back to the thread's TCP server, whose listening socket is still open, and it starts `receiving_thread`, which saves through an unopened `FILE *`. With `MaxRestarts = 0` the invariant holds. |

Between them, the passing runs fire every action of every module:
- `transfer_sender_live` fires the loss actions.
- `transfer_safety` fires every other action of `Transfer`.
- `linkedlist_refines` fires every `LinkedList` call, including a failed malloc.
- `ctrl_framing_small_seq` fires every `ControlChannel` action, including
  both branches on an unwritten `rsp_pkt`.
- `codec_roundtrip` fires `EncodeStep`, `DecodeStep` and `SaveSegment`.
- `Session` has only violation runs: the client process, as written, does
  not end, and a restarted receiver serves without a file.

The refinement is checked as a property: `ImplementsListSpec == Abs!Spec`,
where `Abs` is `INSTANCE ListSpec WITH list <- AbsList`. `AbsList` is the
sequence of objects met walking `next` from the anchor. The history variable
`op` ties each call to its position in the abstract list, so an insertion on
the wrong side of its element fails the refinement even when the list stays
well formed.

Every property of a passing run has a mutant in `PROJECT.json`. A mutant is
an operator written just above the definition it replaces. It is a plausible
slip in that code, and TLC finds the property violated once it is swapped in.

The violation runs are listed under "findings" in `PROJECT.json`. In short:
- The sequencing thread computes isLast from the CTRL flag
  (`ucp_server.c:180`). So the receiver never completes after a clean
  transfer, and it completes falsely after a failed save.
- `sequencer_add` loses some out-of-order numbers and leaves some adjacent
  ranges unmerged.
- The client never exits. It joins ten threads, but only thread 0 is
  given a destination, and the receiver serves one METADATA on one port.
- The control channel has no framing. With sequence numbers of 769 or more,
  or when TCP returns part of what was written, the sender acts on CTRL
  packets that were never sent, including a FIN that stops it. A read too
  short to decode makes it act on an uninitialised `rsp_pkt`.
- A receiver restarted during a transfer takes a DATA packet as its first
  datagram. It then connects back and saves into a file it never opened
  (`ucp_server.c:221`). Spec section 4.5 says it opens the file from METADATA
  before dialling back.

## Fairness

`FairSpec` puts weak fairness on every sender and receiver action, because each
is a thread step that runs whenever its thread can run. The sender's
`TickRead` gets strong fairness. A sender that keeps ticking will eventually
see data that is queued, but `select` may time out on any single tick, so
`TickRead` is enabled only intermittently. Losses, save failures and
coalesced reads get no fairness: the network, the disk and the kernel choose
them, and the model bounds how often they happen. The receiver runs are
checked with `CHECK_DEADLOCK FALSE`, because the receiver really does block
for ever in the cases above. The codec runs use it too, because each
behaviour is a single packet's trip and ends when the packet is decoded.

`Session` puts weak fairness on every action except `LoseDatagram` and
`ReceiverRestart`. Each fair action is a step of a thread or a main that runs
whenever it can. Losing a datagram is the network's choice, and killing the
receiver is the operator's; both are bounded or optional. `Session.cfg` has `CHECK_DEADLOCK FALSE`,
because a thread blocked in `accept` and a main blocked in `pthread_join` is
the state the run is about.

## Not modelled

These parts are not modelled, or only partly:
- **Several partitions at once.** The client's global windows, the global
  `done` flag, and a server that binds only one port are all bugs that need
  more than one flow. Only thread 0 is given a destination, and the receiver
  binds only one port, so threads 1..9 never reach the windows. These are not
  hazards of the program as shipped. They are the next step once those bugs
  are fixed.
- **`pthread_cancel` inside the queue mutex.** Cancellation is deferred.
  `receiving_thread`'s cancellation points are `recvfrom` and the stdio calls
  of `file_io_save_packet`, none of which is inside `sequencing_queue_push`'s
  mutex. A cancel therefore loses at most a packet that arrives after FIN.
  The model takes each iteration of `receiving_thread` as atomic.
- **Socket errors**, including the dead `bytes_read < 0` check.
- **Malformed datagrams**, including `seg_len` from the wire overflowing
  `segment_data`.
- **`file_io_partition` and `file_io_merge`.** They shell out to `split` and
  `cat`.
- **The linked list inside `Transfer`.** `Transfer` keeps its windows and
  queue as TLA+ sequences. `linkedlist_refines` shows that the linked list
  behaves as such a sequence.
- **`malloc` failing in `LinkedListAppend`/`Prepend`.** The result is not
  checked, so failure is a NULL write and a crash, not a list state.
- **What the other threads do with uninitialised `dst_ip`.** `Session`
  models the client's `main` and all threads' setup. A thread other than 0
  reads `dst_ip` and `dst_filename` uninitialised. That undefined behaviour
  is modelled as a choice: the process crashes, or the METADATA goes
  nowhere.
- **Partitions of 4 GiB or more.** `part_size` and DATA offsets are uint32.
  TLC integers end at 2^31.
- **Three smaller disagreements** seen while modelling, kept out of the runs:
  - The DATA and METADATA encoders refuse any buffer smaller than
    `sizeof(ucp_packet_t)`, whatever the packet's size. The callers always
    pass larger buffers.
  - `sequencer_add` can leave two adjacent ranges unmerged, e.g. after adds
    of 0, 3, 2. `sequencer_complete`'s merge pass repairs this.
  - `rsp_pkt` in `on_ack_received` is an uninitialised local, and
    `ucp_packet_decode` writes it only when byte 0 is a known type and the
    read is long enough. After a short read, or one that starts mid-packet,
    the sender branches on stack contents (`ucp_client.c:184`). `ControlChannel`
    still models this branch as a choice, and `ctrl_framing_small_seq` fires
    it. Its own violation run was retired because the framing finding has
    the same root cause.
  - `file_io_get_next_packet` flags END only after a short read. A
    partition whose size is a multiple of the segment size never sends END,
    and neither does a one-segment partition, whose only packet is START.
    The receiver takes isLast from the CTRL flag (`ucp_server.c:180`), so
    this changes nothing in the program as shipped.
- **Statistics.** They only print.

## Plan

1. A `SharedWindows` module: N partition flows sharing `pending`, `in_flight`
   and `done`. It is worth checking only with the thread-start and port bugs
   set aside, because with them threads 1..9 never reach the windows.
2. An abstract `ReliableTransfer` specification (the receiver ends up holding
   the partition, and FIN means delivered), with `Transfer` refining it under
   a fixed sequencing thread.
3. Malformed-datagram inputs to the decoder. An empty partition (NSeg = 0)
   has been checked by hand against `ReceiverCompletes`, which fails. It has
   no run of its own, because the `ucp_server.c:180` bug already fails that
   property. Runs are at the project's limit of twelve, so any new question
   has to replace a weaker run.
