--------------------------- MODULE ControlChannel ---------------------------
(***************************************************************************)
(* The TCP control channel of one partition as a byte stream.  The         *)
(* receiver's send_ctrl_packet (src/src/ucp_server.c) encodes each ACK,    *)
(* NACK or FIN into 6 bytes and tcp_client_send writes them; the sender's  *)
(* tcp_server_tick and tcp_server_receive (src/src/tcp_socket.c) read up   *)
(* to 1024 bytes at a time, and on_ack_received (src/src/ucp_client.c)     *)
(* decodes the first packet of what was read into an uninitialised         *)
(* ucp_packet_t and acts on it.  Nothing in the stream marks where a       *)
(* packet starts, so a read that ends inside a packet leaves the next read *)
(* misaligned.                                                             *)
(*                                                                         *)
(* ReadSize stands for the 1024-byte buffer.  Since only its remainder     *)
(* modulo 6 decides where reads cut packets, a ReadSize with the same      *)
(* remainder gives the same cuts in fewer bytes.  With ShortReads a read   *)
(* may return fewer bytes than are queued, as it does when the data        *)
(* arrived in several TCP segments.                                        *)
(***************************************************************************)
EXTENDS CodecOps, Sequences, FiniteSetsExt

CONSTANTS
    SeqVals,        \* seq_no values the receiver acknowledges
    ReadSize,       \* sizeof(buffer) in tcp_server_receive
    ShortReads,     \* may read return fewer bytes than are queued?
    MaxPackets      \* bound on the CTRL packets the receiver sends

ASSUME /\ SeqVals \subseteq 0..2147483647
       /\ ReadSize \in Nat /\ ReadSize % 6 = 1024 % 6
       /\ ShortReads \in BOOLEAN
       /\ MaxPackets \in Nat \ {0}

UCP_FLAG_ACK == 1
UCP_FLAG_NACK == 2
UCP_FLAG_FIN == 3

\* send_ctrl_packet's buffer: uint8_t buf[10].
CtrlBufSize == 10

\* The value rsp_pkt.ctrl_packet.seq_no has when decode did not write it.
UninitSeq == -1

VARIABLES
    stream,     \* bytes written by the receiver and not yet read
    sent,       \* history: the CTRL packets the receiver sent, in order
    txOpen,     \* the receiver's tcp_client_t is connected
    rxOpen,     \* the child socket is in the sender's server_fd_set
    done,       \* the sender's global done flag
    handled     \* history: what on_ack_received acted on

vars == <<stream, sent, txOpen, rxOpen, done, handled>>

\* An action of on_ack_received: from = "bytes" when decode wrote rsp_pkt,
\* "uninit" when it did not and the handler read the stack's old contents.
Handled(f, s, from) == [flag |-> f, seq_no |-> s, from |-> from]

FinSent == \E i \in 1..Len(sent) : sent[i].flag = UCP_FLAG_FIN

Init ==
    /\ stream = <<>>
    /\ sent = <<>>
    /\ txOpen = TRUE
    /\ rxOpen = TRUE
    /\ done = FALSE
    /\ handled = {}

-----------------------------------------------------------------------------
(* The receiver.                                                           *)

\* tcp_client_send: send() of the segment's data_len bytes onto the stream.
TcpClientSend(bytes) == stream' = stream \o bytes

\* Mutant: the segment carries the whole buffer instead of data_len bytes.
SendCtrlPacketWholeBuffer(s, f) ==
    LET r == EncodeCtrlData(InitCtrl(s, f), CtrlBufSize)
    IN /\ txOpen /\ ~FinSent
       /\ Len(sent) < IF f = UCP_FLAG_FIN THEN MaxPackets ELSE MaxPackets - 1
       /\ TcpClientSend(r.bytes \o [i \in 1..(CtrlBufSize - r.ret) |-> 0])
       /\ sent' = Append(sent, InitCtrl(s, f))
       /\ UNCHANGED <<txOpen, rxOpen, done, handled>>

\* send_ctrl_packet and tcp_client_send: encode into buf[10], copy
\* data_len = 6 bytes into the segment and send them.  The sequencing
\* thread sends nothing after its FIN; one slot is kept for the FIN.
SendCtrlPacket(s, f) ==
    LET r == EncodeCtrlData(InitCtrl(s, f), CtrlBufSize)
    IN /\ txOpen /\ ~FinSent
       /\ Len(sent) < IF f = UCP_FLAG_FIN THEN MaxPackets ELSE MaxPackets - 1
       /\ TcpClientSend(r.bytes)
       /\ sent' = Append(sent, InitCtrl(s, f))
       /\ UNCHANGED <<txOpen, rxOpen, done, handled>>

\* tcp_client_disconnect, called by the receiver's main once both threads
\* have ended, which is after the FIN.
TcpClientDisconnect ==
    /\ txOpen /\ FinSent
    /\ txOpen' = FALSE
    /\ UNCHANGED <<stream, sent, rxOpen, done, handled>>

-----------------------------------------------------------------------------
(* The sender: one tcp_server_tick of block_thread's loop that finds the   *)
(* child socket readable.  A tick whose select times out changes nothing.  *)

\* Mutant: the FIN branch is a plain else, so any other flag ends the loop.
OnAckReceivedElseFin(rsp) ==
    IF rsp = ZeroPacket
    THEN \/ UNCHANGED <<handled, done>>
         \/ \E f \in CtrlFlags :
               /\ handled' = handled \cup {Handled(f, UninitSeq, "uninit")}
               /\ done' = (done \/ f = UCP_FLAG_FIN)
    ELSE IF rsp.type = UCP_PACKET_TYPE_CTRL
    THEN LET f == IF rsp.flag \in {UCP_FLAG_ACK, UCP_FLAG_NACK} THEN rsp.flag ELSE UCP_FLAG_FIN
         IN /\ handled' = handled \cup {Handled(f, rsp.seq_no, "bytes")}
            /\ done' = (done \/ f = UCP_FLAG_FIN)
    ELSE UNCHANGED <<handled, done>>

\* on_ack_received's branches on rsp_pkt: ACK and NACK act on seq_no, FIN
\* sets done, any other type prints "ACK failed".  When decode left rsp_pkt
\* unwritten the branch taken is whatever the stack held: any flag, or none.
OnAckReceived(rsp) ==
    IF rsp = ZeroPacket
    THEN \/ UNCHANGED <<handled, done>>
         \/ \E f \in CtrlFlags :
               /\ handled' = handled \cup {Handled(f, UninitSeq, "uninit")}
               /\ done' = (done \/ f = UCP_FLAG_FIN)
    ELSE IF rsp.type = UCP_PACKET_TYPE_CTRL /\ rsp.flag \in CtrlFlags
    THEN /\ handled' = handled \cup {Handled(rsp.flag, rsp.seq_no, "bytes")}
         /\ done' = (done \/ rsp.flag = UCP_FLAG_FIN)
    ELSE UNCHANGED <<handled, done>>

\* How many bytes one read of buffer[1024] returns when n are queued.
ReadLens(n) == IF ShortReads THEN 1..Min({ReadSize, n}) ELSE {Min({ReadSize, n})}

\* tcp_server_receive with bytes_read > 0: read k bytes into buffer[1024],
\* copy them into the segment with data_len = k, and call on_rx, which is
\* on_ack_received decoding data_len bytes into rsp_pkt.  ZeroPacket marks
\* an rsp_pkt that ucp_packet_decode did not write.
TcpServerReceive ==
    /\ rxOpen /\ ~done /\ stream # <<>>
    /\ \E k \in ReadLens(Len(stream)) :
          /\ stream' = SubSeq(stream, k + 1, Len(stream))
          /\ OnAckReceived(Decode(SubSeq(stream, 1, k), k, ZeroPacket))
    /\ UNCHANGED <<sent, txOpen, rxOpen>>

\* close_child_socket: close the descriptor and clear it from server_fd_set.
CloseChildSocket == rxOpen' = FALSE

\* tcp_server_receive with bytes_read == 0: the peer closed.
TcpServerReceiveEof ==
    /\ rxOpen /\ ~done /\ stream = <<>> /\ ~txOpen
    /\ CloseChildSocket
    /\ UNCHANGED <<stream, sent, txOpen, done, handled>>

\* tcp_server_tick when select reports the child socket readable: bytes
\* are queued, or the peer has closed.
TcpServerTick == TcpServerReceive \/ TcpServerReceiveEof

\* Both ends have stopped: the sender's loop ended on FIN, or its socket
\* is closed and it no longer reads.
Stopped ==
    /\ ~txOpen /\ (done \/ ~rxOpen)
    /\ UNCHANGED vars

Next ==
    \/ \E s \in SeqVals, f \in CtrlFlags : SendCtrlPacket(s, f)
    \/ TcpClientDisconnect
    \/ TcpServerTick
    \/ Stopped

Spec == Init /\ [][Next]_vars

-----------------------------------------------------------------------------
(* Properties.                                                             *)

TypeOK ==
    /\ stream \in Seq(Byte)
    /\ Len(stream) <= 6 * MaxPackets
    /\ sent \in Seq([type : {UCP_PACKET_TYPE_CTRL}, flag : CtrlFlags, seq_no : SeqVals])
    /\ txOpen \in BOOLEAN /\ rxOpen \in BOOLEAN /\ done \in BOOLEAN

\* Every ACK, NACK or FIN that on_ack_received decodes from the bytes it
\* read is one the receiver sent: reads that cut packets apart never make
\* the sender act on a packet assembled from the pieces of two.
HandledWereSent ==
    \A h \in handled :
        h.from = "bytes" =>
            \E i \in 1..Len(sent) : sent[i].flag = h.flag /\ sent[i].seq_no = h.seq_no

=============================================================================
