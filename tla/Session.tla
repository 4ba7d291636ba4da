------------------------------- MODULE Session -------------------------------
(***************************************************************************)
(* A whole copy: the client process (main and the block_thread threads of  *)
(* src/src/ucp_client.c) and the receiver process (main of                 *)
(* src/src/ucp_server.c), down to the sockets they bind and the datagram   *)
(* and connection that pair a thread with the receiver.  Each block_thread *)
(* binds UDP and TCP port CLIENT_BASE_PORT + idx, sends METADATA to        *)
(* SERVER_BASE_PORT + idx and waits in accept; the receiver binds UDP      *)
(* SERVER_BASE_PORT, takes one METADATA and connects back to the port it   *)
(* came from.  What happens once a pair is connected is the Transfer       *)
(* module's; here it is one step that ends both sides, as it does once     *)
(* ucp_server.c:180 is fixed.                                              *)
(*                                                                         *)
(* The receiver may be killed and started again (MaxRestarts times) while  *)
(* a thread keeps retransmitting DATA to its port; the new main takes      *)
(* whatever datagram comes first.                                          *)
(*                                                                         *)
(* Only thread_ctx[0] is given dst_ip and dst_filename; the other threads  *)
(* read them uninitialised.  That undefined behaviour is a choice between  *)
(* the process crashing and a METADATA sent where nothing listens.         *)
(***************************************************************************)
EXTENDS Integers

CONSTANTS
    NThreads,       \* NUM_THREADS
    ClientHost,     \* the host the client runs on
    ServerHost,     \* the host the receiver runs on; the deployment picks
    MaxRestarts     \* bound on restarts of the receiver process

CLIENT_BASE_PORT == 6341
SERVER_BASE_PORT == 6342

Threads == 0..(NThreads - 1)

VARIABLES
    mainPC,     \* the client's main: "start", "join", "returned", "crashed"
    joinIdx,    \* the thread main's join loop waits for
    tPC,        \* each block_thread: "none", "start", "bound", "accepting",
                \* "running", "exited"
    sPC,        \* the receiver's main: "start", "recv", "serving", "exited"
    host,       \* where the receiver runs: ServerHost or ClientHost
    bound,      \* the (host, protocol, port) triples bound by a socket
    udp,        \* datagrams in transit: [to, from] ports and kind
    conn,       \* the thread the receiver's connect reached, or -1
    fileOpen,   \* the receiver's thread_ctx.handle.fp was opened
    restarts    \* receiver restarts so far

vars == <<mainPC, joinIdx, tPC, sPC, host, bound, udp, conn, fileOpen, restarts>>

Datagram(to, from, kind) == [to |-> to, from |-> from, kind |-> kind]

Sock(h, proto, port) == [host |-> h, proto |-> proto, port |-> port]

\* bind() fails when the triple is taken on that host.
CanBind(h, proto, port) == Sock(h, proto, port) \notin bound

Init ==
    /\ mainPC = "start"
    /\ joinIdx = 0
    /\ tPC = [i \in Threads |-> "none"]
    /\ sPC = "start"
    /\ host \in {ServerHost, ClientHost}
    /\ bound = {}
    /\ udp = {}
    /\ conn = -1
    /\ fileOpen = FALSE
    /\ restarts = 0

-----------------------------------------------------------------------------
(* The client.                                                             *)

\* main: parse argv into thread_ctx[0] only, initialise both windows,
\* partition the file and create one thread per partition.
ClientMainStart ==
    /\ mainPC = "start"
    /\ mainPC' = "join"
    /\ tPC' = [i \in Threads |-> "start"]
    /\ UNCHANGED <<joinIdx, sPC, host, bound, udp, conn, fileOpen, restarts>>

\* main's join loop: pthread_join(thread_ctx[joinIdx]) returns once that
\* thread has exited; after the last, report_statistics and return 0.
ClientMainJoin ==
    /\ mainPC = "join"
    /\ tPC[joinIdx] = "exited"
    /\ IF joinIdx = NThreads - 1 THEN /\ mainPC' = "returned"
                                      /\ UNCHANGED joinIdx
                                 ELSE /\ joinIdx' = joinIdx + 1
                                      /\ UNCHANGED mainPC
    /\ UNCHANGED <<tPC, sPC, host, bound, udp, conn, fileOpen, restarts>>

\* create_socket: udp_socket_initialise and udp_socket_bind on the port;
\* -1 when the bind fails.
CreateSocket(p) == CanBind(ClientHost, "udp", p)

\* block_thread: create_socket(CLIENT_BASE_PORT + idx) returns -1 when
\* the UDP bind fails and the thread returns; otherwise tcp_server_start
\* binds the same TCP port.
BlockThreadBind(i) ==
    LET p == CLIENT_BASE_PORT + i IN
    /\ mainPC = "join" /\ tPC[i] = "start"
    /\ IF CreateSocket(p)
       THEN /\ bound' = bound \cup {Sock(ClientHost, "udp", p), Sock(ClientHost, "tcp", p)}
            /\ tPC' = [tPC EXCEPT ![i] = "bound"]
       ELSE /\ tPC' = [tPC EXCEPT ![i] = "exited"]
            /\ UNCHANGED bound
    /\ UNCHANGED <<mainPC, joinIdx, sPC, host, udp, conn, fileOpen, restarts>>

\* block_thread: inet_addr(dst_ip), ucp_packet_init_metadata(dst_filename)
\* and udp_socket_send to SERVER_BASE_PORT + idx.  Thread 0 reaches the
\* receiver's host; another thread's dst_ip and dst_filename are
\* uninitialised, so the process crashes or the datagram reaches nothing.
BlockThreadSendMetadata(i) ==
    /\ mainPC = "join" /\ tPC[i] = "bound"
    /\ \/ /\ i = 0
          /\ udp' = udp \cup {Datagram(SERVER_BASE_PORT + i, CLIENT_BASE_PORT + i, "METADATA")}
          /\ tPC' = [tPC EXCEPT ![i] = "accepting"]
          /\ UNCHANGED mainPC
       \/ /\ i # 0
          /\ tPC' = [tPC EXCEPT ![i] = "accepting"]
          /\ UNCHANGED <<mainPC, udp>>
       \/ /\ i # 0
          /\ mainPC' = "crashed"
          /\ tPC' = [j \in Threads |-> "exited"]
          /\ UNCHANGED udp
    /\ UNCHANGED <<joinIdx, sPC, host, bound, conn, fileOpen, restarts>>

\* block_thread: while (tcp_server_accept(tcp_server) == 0) usleep; it
\* leaves the loop once the receiver's connect has reached its port.
BlockThreadAccept(i) ==
    /\ mainPC = "join" /\ tPC[i] = "accepting"
    /\ conn = i
    /\ tPC' = [tPC EXCEPT ![i] = "running"]
    /\ UNCHANGED <<mainPC, joinIdx, sPC, host, bound, udp, conn, fileOpen, restarts>>

\* One iteration of block_thread's send loop: get_next_packet returns a
\* packet (a new segment, or an in-flight one again while no ACK comes),
\* and udp_socket_send sends it as DATA to SERVER_BASE_PORT + idx.
BlockThreadSendData(i) ==
    /\ mainPC = "join" /\ tPC[i] = "running"
    /\ udp' = udp \cup {Datagram(SERVER_BASE_PORT + i, CLIENT_BASE_PORT + i, "DATA")}
    /\ UNCHANGED <<mainPC, joinIdx, tPC, sPC, host, bound, conn, fileOpen, restarts>>

\* The send loop of block_thread and the receiver's two threads, to the
\* end (see Transfer); then the receiver joins them and disconnects.
TransferEnds(i) ==
    /\ mainPC = "join" /\ tPC[i] = "running" /\ sPC = "serving"
    /\ tPC' = [tPC EXCEPT ![i] = "exited"]
    /\ sPC' = "exited"
    /\ UNCHANGED <<mainPC, joinIdx, host, bound, udp, conn, fileOpen, restarts>>

-----------------------------------------------------------------------------
(* The receiver and the network.                                           *)

\* main: udp_socket_initialise and udp_socket_bind on SERVER_BASE_PORT;
\* main returns -1 when the bind fails.
ServerMainBind ==
    /\ sPC = "start"
    /\ IF CanBind(host, "udp", SERVER_BASE_PORT)
       THEN /\ bound' = bound \cup {Sock(host, "udp", SERVER_BASE_PORT)}
            /\ sPC' = "recv"
       ELSE /\ sPC' = "exited"
            /\ UNCHANGED bound
    /\ UNCHANGED <<mainPC, joinIdx, tPC, host, udp, conn, fileOpen, restarts>>

\* main: a blocking udp_socket_receive_from on its port takes the first
\* datagram, whatever it is; file_io_open_file_of_size runs only when it
\* decodes as METADATA.  Either way main goes on to tcp_client_connect
\* back to the datagram's source port, and returns -1 when nothing listens
\* there; otherwise it starts the receiving and sequencing threads.  The
\* source port is the thread's UDP port, which is also the port of its TCP
\* server, whose listening socket stays in the select set.
ServerMainRecv ==
    /\ sPC = "recv"
    /\ \E d \in udp :
          /\ d.to = SERVER_BASE_PORT
          /\ udp' = udp \ {d}
          /\ fileOpen' = (d.kind = "METADATA")
          /\ LET t == d.from - CLIENT_BASE_PORT IN
             IF Sock(ClientHost, "tcp", d.from) \in bound /\ t \in Threads
                /\ mainPC = "join"
             THEN /\ conn' = t /\ sPC' = "serving"
             ELSE /\ sPC' = "exited" /\ UNCHANGED conn
    /\ UNCHANGED <<mainPC, joinIdx, tPC, host, bound, restarts>>

\* The receiver process is killed while it waits or serves, and started
\* again: the kernel closes its UDP socket and drops what was queued on it,
\* and the new main starts with a fresh, unopened thread_ctx.handle.
ReceiverRestart ==
    /\ sPC \in {"recv", "serving"} /\ restarts < MaxRestarts
    /\ sPC' = "start"
    /\ bound' = bound \ {Sock(host, "udp", SERVER_BASE_PORT)}
    /\ udp' = {d \in udp : d.to # SERVER_BASE_PORT}
    /\ fileOpen' = FALSE
    /\ restarts' = restarts + 1
    /\ UNCHANGED <<mainPC, joinIdx, tPC, host, conn>>

\* A datagram is lost.
LoseDatagram ==
    /\ \E d \in udp : udp' = udp \ {d}
    /\ UNCHANGED <<mainPC, joinIdx, tPC, sPC, host, bound, conn, fileOpen, restarts>>

Next ==
    \/ ClientMainStart
    \/ ClientMainJoin
    \/ \E i \in Threads : \/ BlockThreadBind(i)
                          \/ BlockThreadSendMetadata(i)
                          \/ BlockThreadAccept(i)
                          \/ BlockThreadSendData(i)
                          \/ TransferEnds(i)
    \/ ServerMainBind
    \/ ServerMainRecv
    \/ ReceiverRestart
    \/ LoseDatagram

\* Every thread and both mains run whenever they can; the network's loss
\* of a datagram and the killing of the receiver are never forced.
Fairness ==
    /\ WF_vars(ClientMainStart) /\ WF_vars(ClientMainJoin)
    /\ \A i \in Threads : /\ WF_vars(BlockThreadBind(i))
                          /\ WF_vars(BlockThreadSendMetadata(i))
                          /\ WF_vars(BlockThreadAccept(i))
                          /\ WF_vars(BlockThreadSendData(i))
                          /\ WF_vars(TransferEnds(i))
    /\ WF_vars(ServerMainBind) /\ WF_vars(ServerMainRecv)

Spec == Init /\ [][Next]_vars /\ Fairness

-----------------------------------------------------------------------------
(* Properties.                                                             *)

\* The client process ends: its main returns from the join loop (or, at
\* worst, the undefined behaviour of the other threads kills it), whatever
\* the deployment and the order in which threads and the receiver run.
ClientTerminates == <>(mainPC \in {"returned", "crashed"})

\* The receiver's threads write only into the partition file main sized
\* from a METADATA packet: whenever main has dialled back and started the
\* receiving thread, which calls file_io_save_packet on
\* thread_ctx.handle, that handle was opened.
ServesAnnouncedFile == sPC = "serving" => fileOpen

=============================================================================
