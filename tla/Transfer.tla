------------------------------ MODULE Transfer ------------------------------
(***************************************************************************)
(* One partition flow end to end:                                          *)
(*   - the sender thread block_thread of src/src/ucp_client.c with its     *)
(*     get_next_packet window logic and the on_ack_received callback run   *)
(*     from tcp_server_tick;                                               *)
(*   - the UDP datagrams in transit, which may be lost or reordered;       *)
(*   - the receiver of src/src/ucp_server.c: main (METADATA, reverse TCP   *)
(*     connect, join), the receiving thread and the sequencing thread,     *)
(*     which share a mutex-protected queue of events;                      *)
(*   - the TCP back channel carrying CTRL packets, where one read() may    *)
(*     return several queued CTRL packets of which on_ack_received decodes *)
(*     only the first.                                                     *)
(* A DATA packet is identified by its seq_no: file_io_get_next_packet      *)
(* numbers segments 0, 1, ... in file order, so seq_no i carries offset    *)
(* i * UDP_PACKET_DATA_SIZE and its flag is a function of i (DataFlag).    *)
(***************************************************************************)
EXTENDS SequencerOps

CONSTANTS
    NSeg,          \* number of DATA segments of the partition
    LastFull,      \* the last segment fills UDP_PACKET_DATA_SIZE exactly
    SaveMayFail,   \* file_io_save_packet may fail on the receiver
    MaxLoss,       \* bound on datagrams the network drops
    MaxDrop,       \* bound on reads that return more than one CTRL packet
    CtrlCapacity,  \* bound on CTRL packets queued in the TCP connection
    QueueCapacity  \* bound on the receiver's event queue

ASSUME /\ NSeg \in Nat /\ NSeg < UMax
       /\ LastFull \in BOOLEAN /\ SaveMayFail \in BOOLEAN
       /\ {MaxLoss, MaxDrop} \subseteq Nat
       /\ {CtrlCapacity, QueueCapacity} \subseteq Nat \ {0}

Segs == 0..(NSeg - 1)

\* ucp_flag_t and ucp_flag_data_t, with the values the C enums give them.
UCP_FLAG_ACK == 1
UCP_FLAG_NACK == 2
UCP_FLAG_FIN == 3
UCP_FLAG_DATA_SEGMENT == 0
UCP_FLAG_DATA_START == 1
UCP_FLAG_DATA_END == 2

\* The flag file_io_get_next_packet gives segment i: START at offset 0, else
\* END when fread hit end of file, which it does only on a short last read.
DataFlag(i) ==
    IF i = 0 THEN UCP_FLAG_DATA_START
    ELSE IF i = NSeg - 1 /\ ~LastFull THEN UCP_FLAG_DATA_END
    ELSE UCP_FLAG_DATA_SEGMENT

Ctrl(flag, n) == [flag |-> flag, seq |-> n]

VARIABLES
    \* sender (ucp_client.c)
    sPC,            \* "meta", "accept", "send", "tick" or "exited"
    cursor,         \* segments read so far by file_io_get_next_packet
    pending,        \* pending_packet_list, as seq_nos
    inflight,       \* in_flight_packet_list, as seq_nos
    done,           \* the done flag set by a FIN
    \* network
    metaInFlight,   \* the METADATA datagram is in transit
    udp,            \* DATA datagrams in transit
    ctrl,           \* CTRL packets written to the TCP connection, not yet read
    losses, drops,  \* counters for the bounds MaxLoss and MaxDrop
    \* receiver (ucp_server.c)
    rPC,            \* main: "wait_meta", "running" or "joined"
    rcvAlive,       \* the receiving thread is running
    seqPC,          \* sequencing thread: "loop" or "done"
    queue,          \* seq_queue: events [seq, flag, isLast]
    rseq, rmax, rexp,  \* the sequencing thread's sequencer_t
    persisted,      \* segments written to the partition file
    \* history
    acked           \* segments the sender dropped from in-flight on an ACK

senderVars == <<sPC, cursor, pending, inflight, done>>
netVars == <<metaInFlight, udp, ctrl, losses, drops>>
receiverVars == <<rPC, rcvAlive, seqPC, queue, rseq, rmax, rexp, persisted>>
vars == <<senderVars, netVars, receiverVars, acked>>

TypeOK ==
    /\ sPC \in {"meta", "accept", "send", "tick", "exited"}
    /\ cursor \in 0..NSeg
    /\ pending \in Seq(Segs) /\ inflight \in Seq(Segs)
    /\ done \in BOOLEAN
    /\ metaInFlight \in BOOLEAN
    /\ udp \subseteq Segs
    /\ ctrl \in Seq([flag : {UCP_FLAG_ACK, UCP_FLAG_NACK, UCP_FLAG_FIN}, seq : 0..UMax])
    /\ losses \in 0..MaxLoss /\ drops \in 0..MaxDrop
    /\ rPC \in {"wait_meta", "running", "joined"}
    /\ rcvAlive \in BOOLEAN
    /\ seqPC \in {"loop", "done"}
    /\ queue \in Seq([seq : Segs, flag : {UCP_FLAG_ACK, UCP_FLAG_NACK}, isLast : BOOLEAN])
    /\ rseq \in Seq([first : 0..UMax, last : 0..UMax])
    /\ rmax \in 0..UMax /\ rexp \in 0..UMax
    /\ persisted \subseteq Segs
    /\ acked \subseteq Segs

Init ==
    /\ sPC = "meta" /\ cursor = 0 /\ pending = <<>> /\ inflight = <<>>
    /\ done = FALSE
    /\ metaInFlight = FALSE /\ udp = {} /\ ctrl = <<>>
    /\ losses = 0 /\ drops = 0
    /\ rPC = "wait_meta" /\ rcvAlive = FALSE /\ seqPC = "loop"
    /\ queue = <<>>
    /\ rseq = <<>> /\ rmax = 0 /\ rexp = UMax   \* sequencer_init
    /\ persisted = {}
    /\ acked = {}

-----------------------------------------------------------------------------
(* Sender: block_thread.                                                   *)

\* Send the METADATA packet over UDP, then wait in accept.
SendMeta ==
    /\ sPC = "meta"
    /\ metaInFlight' = TRUE
    /\ sPC' = "accept"
    /\ UNCHANGED <<cursor, pending, inflight, done, udp, ctrl, losses, drops,
                   receiverVars, acked>>

\* tcp_server_accept returns once the receiver has dialled back.
Accept ==
    /\ sPC = "accept"
    /\ rPC # "wait_meta"
    /\ sPC' = "send"
    /\ UNCHANGED <<cursor, pending, inflight, done, netVars, receiverVars, acked>>

\* One loop iteration up to the tick: get_next_packet returned packet p,
\* which is sent over UDP and appended to the in-flight window.
Transmit(p) ==
    /\ udp' = udp \cup {p}
    /\ sPC' = "tick"
    /\ UNCHANGED <<done, metaInFlight, ctrl, losses, drops, receiverVars, acked>>

\* get_next_packet, first choice: pop the head of the pending window.
SendPending ==
    /\ sPC = "send"
    /\ pending # <<>>
    /\ pending' = Tail(pending)
    /\ inflight' = Append(inflight, Head(pending))
    /\ UNCHANGED cursor
    /\ Transmit(Head(pending))

\* Fault variant of SendFromFile: a read is attempted past the end of the
\* partition and still yields a packet.
SendFromFilePastEnd ==
    /\ sPC = "send"
    /\ pending = <<>>
    /\ cursor' = cursor + 1
    /\ inflight' = Append(inflight, cursor)
    /\ UNCHANGED pending
    /\ Transmit(cursor)

\* get_next_packet, second choice: file_io_get_next_packet reads a segment.
SendFromFile ==
    /\ sPC = "send"
    /\ pending = <<>>
    /\ cursor < NSeg
    /\ cursor' = cursor + 1
    /\ inflight' = Append(inflight, cursor)
    /\ UNCHANGED pending
    /\ Transmit(cursor)

\* get_next_packet, third choice: the file is exhausted, so the head of the
\* in-flight window is popped and re-sent (and appended again).
Resend ==
    /\ sPC = "send"
    /\ pending = <<>>
    /\ cursor = NSeg
    /\ inflight # <<>>
    /\ inflight' = Append(Tail(inflight), Head(inflight))
    /\ UNCHANGED <<cursor, pending>>
    /\ Transmit(Head(inflight))

\* get_next_packet returns NULL: the send loop ends.
SenderExit ==
    /\ sPC = "send"
    /\ pending = <<>> /\ cursor = NSeg /\ inflight = <<>>
    /\ sPC' = "exited"
    /\ UNCHANGED <<cursor, pending, inflight, done, netVars, receiverVars, acked>>

\* Index of the first packet of window w with seq_no n (find_packet), or 0.
Find(w, n) == SelectInSeq(w, LAMBDA x : x = n)

\* Fault variant of OnCtrl: a NACK unlinks the packet from in-flight without
\* appending it to pending.
OnCtrlNackDrops(m) ==
    LET i == Find(inflight, m.seq) IN
    CASE m.flag = UCP_FLAG_ACK /\ i # 0 ->
            /\ inflight' = RemoveAt(inflight, i)
            /\ acked' = acked \cup {m.seq}
            /\ UNCHANGED <<pending, done>>
      [] m.flag = UCP_FLAG_NACK /\ i # 0 ->
            /\ inflight' = RemoveAt(inflight, i)
            /\ UNCHANGED <<pending, acked, done>>
      [] m.flag = UCP_FLAG_FIN ->
            /\ done' = TRUE
            /\ UNCHANGED <<pending, inflight, acked>>
      [] OTHER ->
            UNCHANGED <<pending, inflight, acked, done>>

\* Fault variant of OnCtrl: an ACK looks the packet up in the pending window
\* instead of the in-flight window.
OnCtrlAckSearchesPending(m) ==
    LET i == Find(inflight, m.seq)
        j == Find(pending, m.seq) IN
    CASE m.flag = UCP_FLAG_ACK /\ j # 0 ->
            /\ pending' = RemoveAt(pending, j)
            /\ acked' = acked \cup {m.seq}
            /\ UNCHANGED <<inflight, done>>
      [] m.flag = UCP_FLAG_NACK /\ i # 0 ->
            /\ pending' = Append(pending, inflight[i])
            /\ inflight' = RemoveAt(inflight, i)
            /\ UNCHANGED <<acked, done>>
      [] m.flag = UCP_FLAG_FIN ->
            /\ done' = TRUE
            /\ UNCHANGED <<pending, inflight, acked>>
      [] OTHER ->
            UNCHANGED <<pending, inflight, acked, done>>

\* on_ack_received for CTRL packet m: the new values of the two windows,
\* the done flag and the acked history.
OnCtrl(m) ==
    LET i == Find(inflight, m.seq) IN
    CASE m.flag = UCP_FLAG_ACK /\ i # 0 ->
            /\ inflight' = RemoveAt(inflight, i)
            /\ acked' = acked \cup {m.seq}
            /\ UNCHANGED <<pending, done>>
      [] m.flag = UCP_FLAG_NACK /\ i # 0 ->
            /\ pending' = Append(pending, inflight[i])
            /\ inflight' = RemoveAt(inflight, i)
            /\ UNCHANGED <<acked, done>>
      [] m.flag = UCP_FLAG_FIN ->
            /\ done' = TRUE
            /\ UNCHANGED <<pending, inflight, acked>>
      [] OTHER ->
            UNCHANGED <<pending, inflight, acked, done>>

\* tcp_server_tick: select returns readable data; read() returns the first
\* k queued CTRL packets, on_ack_received handles the first of them, the
\* rest of the buffer is discarded.  Then the loop tests done.
TickRead(k) ==
    /\ sPC = "tick"
    /\ k \in 1..Len(ctrl)
    /\ k > 1 => drops < MaxDrop
    /\ drops' = IF k > 1 THEN drops + 1 ELSE drops
    /\ ctrl' = SubSeq(ctrl, k + 1, Len(ctrl))
    /\ OnCtrl(Head(ctrl))
    /\ sPC' = IF done' THEN "exited" ELSE "send"
    /\ UNCHANGED <<cursor, metaInFlight, udp, losses, receiverVars>>

\* tcp_server_tick: select times out with nothing read.
TickTimeout ==
    /\ sPC = "tick"
    /\ sPC' = IF done THEN "exited" ELSE "send"
    /\ UNCHANGED <<cursor, pending, inflight, done, netVars, receiverVars, acked>>

-----------------------------------------------------------------------------
(* Network.                                                                *)

LoseMeta ==
    /\ metaInFlight /\ losses < MaxLoss
    /\ metaInFlight' = FALSE /\ losses' = losses + 1
    /\ UNCHANGED <<senderVars, udp, ctrl, drops, receiverVars, acked>>

LoseData(p) ==
    /\ p \in udp /\ losses < MaxLoss
    /\ udp' = udp \ {p} /\ losses' = losses + 1
    /\ UNCHANGED <<senderVars, metaInFlight, ctrl, drops, receiverVars, acked>>

-----------------------------------------------------------------------------
(* Receiver: main.                                                         *)

\* Receive METADATA, create the zero-filled partition file, connect back
\* over TCP and start the receiving and sequencing threads.
RecvMeta ==
    /\ rPC = "wait_meta" /\ metaInFlight
    /\ metaInFlight' = FALSE
    /\ rPC' = "running" /\ rcvAlive' = TRUE
    /\ UNCHANGED <<senderVars, udp, ctrl, losses, drops, seqPC, queue,
                   rseq, rmax, rexp, persisted, acked>>

\* pthread_join of both threads returns; the receiver reports success.
Join ==
    /\ rPC = "running" /\ seqPC = "done" /\ ~rcvAlive
    /\ rPC' = "joined"
    /\ UNCHANGED <<senderVars, netVars, rcvAlive, seqPC, queue, rseq, rmax,
                   rexp, persisted, acked>>

(* Receiver: receiving_thread.                                             *)

\* Receive DATA packet p and persist it; on success push an ACK event whose
\* is_last says whether p is flagged END.
RecvData(p) ==
    /\ rcvAlive /\ p \in udp
    /\ Len(queue) < QueueCapacity
    /\ udp' = udp \ {p}
    /\ persisted' = persisted \cup {p}
    /\ queue' = Append(queue, [seq |-> p, flag |-> UCP_FLAG_ACK,
                               isLast |-> DataFlag(p) = UCP_FLAG_DATA_END])
    /\ UNCHANGED <<senderVars, metaInFlight, ctrl, losses, drops, rPC,
                   rcvAlive, seqPC, rseq, rmax, rexp, acked>>

\* Fault variant of RecvDataSaveFails: the failed save still pushes an ACK.
RecvDataSaveFailsAcks(p) ==
    /\ SaveMayFail
    /\ rcvAlive /\ p \in udp
    /\ Len(queue) < QueueCapacity
    /\ udp' = udp \ {p}
    /\ queue' = Append(queue, [seq |-> p, flag |-> UCP_FLAG_ACK, isLast |-> FALSE])
    /\ rcvAlive' = FALSE
    /\ UNCHANGED <<senderVars, metaInFlight, ctrl, losses, drops, rPC,
                   seqPC, rseq, rmax, rexp, persisted, acked>>

\* file_io_save_packet fails: push a NACK event and end the thread.
RecvDataSaveFails(p) ==
    /\ SaveMayFail
    /\ rcvAlive /\ p \in udp
    /\ Len(queue) < QueueCapacity
    /\ udp' = udp \ {p}
    /\ queue' = Append(queue, [seq |-> p, flag |-> UCP_FLAG_NACK, isLast |-> FALSE])
    /\ rcvAlive' = FALSE
    /\ UNCHANGED <<senderVars, metaInFlight, ctrl, losses, drops, rPC,
                   seqPC, rseq, rmax, rexp, persisted, acked>>

(* Receiver: sequencing_thread, one iteration of                           *)
(*   while (!sequencer_complete(s)) { if (pop) { send; add; nack all } }   *)
(* sequencer_complete runs its merge pass on every test.                   *)

Merged == MergePass(rseq)
SeqDone == rseq # <<>> /\ IsComplete(Merged, rexp)

\* An event is popped: its ACK or NACK is sent, the sequencer is told about
\* it with isLast = (flag == UCP_FLAG_DATA_END) as the code writes it, and
\* a NACK is sent for every number sequencer_iterate_missing_segments yields.
SeqProcess ==
    LET ev    == Head(queue)
        last  == ev.flag = UCP_FLAG_DATA_END
        r     == AddTo(Merged, ev.seq)
        max   == NewMax(rmax, ev.seq, last)
        gaps  == SetToSortSeq(MissingSegments(r, max), <)
        nacks == [j \in DOMAIN gaps |-> Ctrl(UCP_FLAG_NACK, gaps[j])]
        out   == <<Ctrl(ev.flag, ev.seq)>> \o nacks
    IN
    /\ seqPC = "loop" /\ rPC = "running" /\ ~SeqDone
    /\ queue # <<>>
    /\ Len(ctrl) + Len(out) <= CtrlCapacity
    /\ queue' = Tail(queue)
    /\ ctrl' = ctrl \o out
    /\ rseq' = r /\ rmax' = max
    /\ rexp' = NewExpectedLast(rexp, ev.seq, last)
    /\ UNCHANGED <<senderVars, metaInFlight, udp, losses, drops, rPC, rcvAlive,
                   seqPC, persisted, acked>>

\* The queue is empty: the iteration only runs the merge pass.
SeqIdle ==
    /\ seqPC = "loop" /\ rPC = "running" /\ ~SeqDone
    /\ queue = <<>>
    /\ Merged # rseq
    /\ rseq' = Merged
    /\ UNCHANGED <<senderVars, netVars, rPC, rcvAlive, seqPC, queue, rmax,
                   rexp, persisted, acked>>

\* sequencer_complete answers TRUE: send FIN with expectedLastSeqNo and
\* cancel the receiving thread.
SeqFinish ==
    /\ seqPC = "loop" /\ rPC = "running" /\ SeqDone
    /\ Len(ctrl) < CtrlCapacity
    /\ ctrl' = Append(ctrl, Ctrl(UCP_FLAG_FIN, rexp))
    /\ rseq' = Merged
    /\ rcvAlive' = FALSE
    /\ seqPC' = "done"
    /\ UNCHANGED <<senderVars, metaInFlight, udp, losses, drops, rPC, queue,
                   rmax, rexp, persisted, acked>>

-----------------------------------------------------------------------------
SenderNext ==
    \/ SendMeta \/ Accept \/ SendPending \/ SendFromFile \/ Resend
    \/ SenderExit \/ TickTimeout \/ \E k \in 1..CtrlCapacity : TickRead(k)

NetworkNext == LoseMeta \/ \E p \in Segs : LoseData(p)

ReceiverNext ==
    \/ RecvMeta \/ Join \/ SeqProcess \/ SeqIdle \/ SeqFinish
    \/ \E p \in Segs : RecvData(p) \/ RecvDataSaveFails(p)

Next == SenderNext \/ NetworkNext \/ ReceiverNext

\* Every thread keeps running while it can (weak fairness); a sender that
\* keeps ticking eventually reads queued CTRL data (strong fairness, since
\* select may time out in between).  Losses and coalesced reads are not
\* fair: the network and the kernel choose them, a bounded number of times.
Fairness ==
    /\ WF_vars(SendMeta) /\ WF_vars(Accept) /\ WF_vars(SendPending)
    /\ WF_vars(SendFromFile) /\ WF_vars(Resend) /\ WF_vars(SenderExit)
    /\ WF_vars(TickTimeout) /\ SF_vars(\E k \in 1..CtrlCapacity : TickRead(k))
    /\ WF_vars(RecvMeta) /\ WF_vars(Join)
    /\ WF_vars(SeqProcess) /\ WF_vars(SeqIdle) /\ WF_vars(SeqFinish)
    /\ \A p \in Segs : WF_vars(RecvData(p))

Spec == Init /\ [][Next]_vars
FairSpec == Spec /\ Fairness

-----------------------------------------------------------------------------
(* Properties.                                                             *)

\* The sender drops a packet from its windows on an ACK only after the
\* receiver has written that segment: the ACK event is pushed after
\* file_io_save_packet succeeds, travels through the queue, the sequencing
\* thread and the TCP stream, and names the packet find_packet removes.
AckedImpliesPersisted == acked \subseteq persisted

\* Every segment the sender has read from the file is either acknowledged
\* or still held in the pending or in-flight window: get_next_packet, the
\* re-append after sending, and the NACK move between windows never lose
\* a packet.
SenderRetainsUnacked ==
    \A n \in 0..(cursor - 1) :
        n \in acked \/ n \in ToSet(pending) \/ n \in ToSet(inflight)

\* Once connected, the sender eventually leaves its send loop: re-sending
\* the head of the in-flight window recovers lost datagrams and ACKs lost
\* in coalesced reads.
SenderTerminates == (sPC = "send") ~> (sPC = "exited")

\* Once the sender is connected, the receiver eventually sees its sequencer
\* complete, sends FIN and main returns (spec, section 4.5).  The sequencing
\* thread passes flag == UCP_FLAG_DATA_END, not is_last, as isLast.
ReceiverCompletes == (sPC = "send") ~> (rPC = "joined")

\* A FIN, which ends the sender's flow and makes the receiver report
\* success, is sent only when every segment has been written (spec, 4.5 and
\* section 7: a persistence error is fatal for the connection).
FinMeansDelivered == seqPC = "done" => Segs \subseteq persisted

=============================================================================
