-------------------------------- MODULE Tcp ---------------------------------
(***************************************************************************)
(* Two SmallOS hosts that talk TCP over a network that loses, duplicates,  *)
(* delays and reorders frames: the socket layer of socket.c, the system    *)
(* calls of syscall_net.c and process.c with their blocking loops, and the *)
(* tcp task of tcp.c.                                                      *)
(*                                                                         *)
(* A system call runs with interrupts off up to the hlt of its loop, so it *)
(* is one action up to there and one action from each wake-up to the next. *)
(* Each frame is handled in one action, whether a call drains the card     *)
(* (net_poll_drain) or the tcp task does: a frame that a call would drain  *)
(* is one the network delivers just before the call.                       *)
(***************************************************************************)
EXTENDS Integers, Sequences, FiniteSets, SequencesExt

(***************************************************************************)
(* The TCP stack of tcp.c as operators on the record h of one host:        *)
(*   h.conns    s_conns          h.slots    s_slots                        *)
(*   h.aport    s_active_port    h.aconn    s_active_conn                  *)
(*   h.eph      s_next_ephemeral                                           *)
(*   h.socks    s_sockets        h.wait     the wait queues of the sockets *)
(*   h.st       scheduling state of the processes of the host              *)
(*   h.out      segments handed to the network card in this step           *)
(*   h.nic, h.mem  what the environment grants in this step: whether the   *)
(*              card accepts frames, whether pmm has contiguous frames     *)
(*   h.opens    history: connections opened by a SYN                       *)
(*   h.cut      history: why connections of this host were dropped         *)
(*   h.lost     history: why bytes were thrown away unread                 *)
(* A buffer is the sequence of bytes it holds: it is allocated exactly     *)
(* when it is not empty.  Sequence numbers are modulo SeqSpace.              *)
(***************************************************************************)

CONSTANTS
    NumConns,        \* TCP_MAX_CONNECTIONS
    NumSlots,        \* TCP_MAX_LISTENERS
    Socks,           \* entries of s_sockets
    Procs,           \* processes of a host
    SeqSpace,          \* 2^32
    RxSize,          \* TCP_RX_BUFFER_SIZE
    TxSize,          \* TCP_TX_BUFFER_SIZE
    MaxWindow,       \* 0xFFFF
    MaxPayload,      \* TCP_MAX_PAYLOAD
    MaxRings,        \* how many buffers the caps on RX and TX bytes allow
    MaxRetries,      \* TCP_MAX_RETRIES
    MaxBacklog,      \* TCP_MAX_BACKLOG
    EphFirst, EphLast,    \* ephemeral ports
    IsnConnect, IsnAccept \* the two constants initial sequence numbers add to

Conns == 0..(NumConns - 1)
NoConn == -1
Add(a, b) == (a + b) % SeqSpace
(* (int)(a - b) on sequence numbers.                                       *)
Diff(a, b) ==
    LET d == (a - b) % SeqSpace IN IF 2 * d >= SeqSpace THEN d - SeqSpace ELSE d
Least(a, b) == IF a < b THEN a ELSE b

Closed ==
    [state |-> "CLOSED", accepted |-> FALSE, lport |-> 0, rport |-> 0,
     remote_seq_next |-> 0, local_seq_next |-> 0, timer |-> FALSE,
     retries |-> 0, rx |-> <<>>, rx_window_closed |-> FALSE, tx |-> <<>>,
     tx_seq_base |-> 0, tx_next_send |-> 0, tx_timer |-> FALSE,
     remote_window |-> 0, close_requested |-> FALSE, peer_closed |-> FALSE,
     local_read_closed |-> FALSE, local_write_closed |-> FALSE,
     local_fin_acked |-> FALSE]

NoSlot == [port |-> 0, active |-> FALSE, backlog |-> 0]
NoSock == [state |-> "FREE", lport |-> 0, conn |-> NoConn, backlog |-> 0,
           rshut |-> FALSE, wshut |-> FALSE, refs |-> {}]

(***************************** waking sockets ******************************)

Queues == Socks \X {"read", "write", "accept"}

(* wait_queue_wake_all on the queues qs.                                   *)
WakeQueues(h, qs) ==
    LET ps == UNION {h.wait[q] : q \in qs} IN
    [h EXCEPT !.st = [p \in Procs |-> IF p \in ps THEN "RUNNING" ELSE @[p]],
              !.wait = [q \in Queues |-> @[q] \ ps]]


(* socket_wake_tcp_connection.  A hang-up wakes both directions.           *)
WakeConn(h, port, k, evs) ==
    LET ss == {s \in Socks : /\ h.socks[s].state \in {"CONNECTED", "CONNECTING"}
                             /\ h.socks[s].lport = port
                             /\ h.socks[s].conn = k}
        ks == (IF {"IN", "HUP"} \cap evs # {} THEN {"read"} ELSE {})
              \cup (IF {"OUT", "HUP"} \cap evs # {} THEN {"write"} ELSE {}) IN
    WakeQueues(h, ss \X ks)

WakeListener(h, port) ==
    LET ss == {s \in Socks : h.socks[s].state = "LISTENING"
                             /\ h.socks[s].lport = port} IN
    WakeQueues(h, ss \X {"accept"})

(******************************** the tables *******************************)

SlotFor(h, port) ==
    LET is == {i \in 1..NumSlots : h.slots[i].port = port} IN
    IF is = {} THEN 0 ELSE CHOOSE i \in is : \A j \in is : i <= j

(* tcp_slot_for_port_create: 0 when the table is full.                     *)
SlotCreate(h, port) ==
    IF SlotFor(h, port) # 0 THEN SlotFor(h, port) ELSE SlotFor(h, 0)

ActiveSlot(h) == IF SlotFor(h, h.aport) # 0 THEN SlotFor(h, h.aport) ELSE 1

(* tcp_active_conn: the entry is recognised by its port alone.             *)
ActiveConn(h) ==
    IF /\ h.aconn \in Conns
       /\ h.conns[h.aconn].state # "CLOSED"
       /\ h.conns[h.aconn].lport = h.aport
    THEN h.aconn ELSE NoConn

UsePort(h, port) == [h EXCEPT !.aport = port, !.aconn = NoConn]
UseConn(h, port, k) == [h EXCEPT !.aport = port, !.aconn = k]

FindConn(h, lport, rport) ==
    LET ks == {k \in Conns : /\ h.conns[k].state # "CLOSED"
                             /\ h.conns[k].lport = lport
                             /\ h.conns[k].rport = rport} IN
    IF ks = {} THEN NoConn ELSE CHOOSE k \in ks : \A j \in ks : k <= j

AllocConn(h) ==
    LET ks == {k \in Conns : h.conns[k].state = "CLOSED"} IN
    IF ks = {} THEN NoConn ELSE CHOOSE k \in ks : \A j \in ks : k <= j

PortInUse(h, port) ==
    \/ port = 0
    \/ SlotFor(h, port) # 0
    \/ \E k \in Conns : h.conns[k].state # "CLOSED" /\ h.conns[k].lport = port

(* tcp_alloc_ephemeral_port: the first free port from eph on, 0 if none.   *)
EphemeralPort(h) ==
    LET n == EphLast - EphFirst + 1
        at(i) == EphFirst + ((h.eph - EphFirst + i) % n)
        free == {i \in 0..(n-1) : ~PortInUse(h, at(i))} IN
    IF free = {} THEN 0 ELSE at(CHOOSE i \in free : \A j \in free : i <= j)

Pending(h, port) ==
    {k \in Conns : /\ h.conns[k].state # "CLOSED"
                   /\ h.conns[k].lport = port
                   /\ ~h.conns[k].accepted}

(********************************* segments ********************************)

RxWindow(c) ==
    IF c.rx_window_closed THEN 0
    ELSE IF c.local_read_closed THEN Least(RxSize, MaxWindow)
    ELSE Least(RxSize - Len(c.rx), MaxWindow)

(* tcp_build_frame: what a receiver reads back from the frame.             *)
Segment(c, flags, seq, ack, data) ==
    [sport |-> c.lport, dport |-> c.rport, seq |-> seq, ack |-> ack,
     flags |-> flags, win |-> RxWindow(c), data |-> data]

(* tcp_send_segment for the connection k.                                  *)
SendSeg(h, k, flags, seq, data) ==
    IF ~h.nic THEN h
    ELSE [h EXCEPT !.out = @ \cup
            {Segment(h.conns[k], flags, seq,
                     IF flags = {"SYN"} THEN 0 ELSE h.conns[k].remote_seq_next,
                     data)}]

SendAck(h, k) == SendSeg(h, k, {"ACK"}, h.conns[k].local_seq_next, <<>>)

(* tcp_reset_connection.  why tells a connection both sides have finished  *)
(* from one that is given up.                                              *)
ResetConn(h, k, why) ==
    [WakeConn(h, h.conns[k].lport, k, {"IN", "OUT", "HUP"})
       EXCEPT !.conns[k] = Closed, !.cut = @ \cup {why},
              !.lost = IF h.conns[k].rx # <<>> THEN @ \cup {why} ELSE @]

(********************************* sending *********************************)

(* The bytes of the send buffer that flush may put on the wire: up to the  *)
(* window the peer advertised, in segments of at most MaxPayload.          *)
(* tcp_conn_tx_flush.                                                      *)
TxFlush(h, k) ==
    LET c == h.conns[k]
        from == Diff(c.tx_next_send, c.tx_seq_base)
        to == Least(Len(c.tx), c.remote_window)
        starts == {i \in from..(to-1) : (i - from) % MaxPayload = 0}
        segs == {Segment(c, {"ACK", "PSH"}, Add(c.tx_seq_base, i),
                         c.remote_seq_next,
                         SubSeq(c.tx, i + 1, Least(i + MaxPayload, to))) :
                   i \in starts} IN
    IF c.state # "ESTABLISHED" \/ from >= to \/ ~h.nic THEN h
    ELSE [h EXCEPT !.out = @ \cup segs,
                   !.conns[k].tx_next_send = Add(c.tx_seq_base, to),
                   !.conns[k].tx_timer = TRUE]

(* tcp_conn_tx_retransmit: probe a closed window, else send the oldest     *)
(* segment again.                                                          *)
TxRetransmit(h, k) ==
    LET c == h.conns[k]
        sent == Diff(c.tx_next_send, c.tx_seq_base)
        again(n) == SendSeg(h, k, {"ACK", "PSH"}, c.tx_seq_base,
                            SubSeq(c.tx, 1, Least(n, Len(c.tx)))) IN
    IF sent = 0 /\ c.remote_window = 0 THEN again(1)
    ELSE IF sent = 0 THEN TxFlush(h, k)
    ELSE again(Least(sent, MaxPayload))

(* tcp_begin_close: FIN only when the send buffer has drained.             *)
BeginClose(h, k) ==
    LET c == [h.conns[k] EXCEPT !.local_write_closed = TRUE]
        f == SendSeg(h, k, {"FIN", "ACK"}, c.local_seq_next, <<>>) IN
    IF c.state # "ESTABLISHED" THEN h
    ELSE IF c.tx # <<>> THEN
        TxFlush([h EXCEPT !.conns[k] = [c EXCEPT !.close_requested = TRUE]], k)
    ELSE WakeConn([f EXCEPT !.conns[k] =
                     [c EXCEPT !.local_seq_next = Add(@, 1), !.state = "FIN_WAIT",
                               !.close_requested = FALSE, !.local_fin_acked = FALSE,
                               !.timer = TRUE, !.retries = 0]],
                  c.lport, k, {"IN", "OUT", "HUP"})

(* How many bytes of the send buffer ack releases.                         *)
TxAcked(c, ack) ==
    Least(Diff(ack, c.tx_seq_base), Diff(c.tx_next_send, c.tx_seq_base))

(* tcp_conn_tx_ack.                                                        *)
TxAck(h, k, ack) ==
    LET c == h.conns[k]
        n == TxAcked(c, ack)
        rest == SubSeq(c.tx, n + 1, Len(c.tx))
        base == Add(c.tx_seq_base, n)
        done == rest = <<>>
        d == [c EXCEPT !.tx = rest,
                       !.tx_seq_base = IF done THEN c.local_seq_next ELSE base,
                       !.tx_next_send = IF done THEN c.local_seq_next ELSE @,
                       !.tx_timer = ~done]
        g == WakeConn([h EXCEPT !.conns[k] = d], c.lport, k, {"OUT"}) IN
    IF c.tx = <<>> THEN h
    ELSE IF n <= 0 THEN TxFlush(h, k)
    ELSE IF ~done THEN TxFlush(g, k)
    ELSE IF c.close_requested THEN BeginClose(g, k)
    ELSE g

(* tcp_conn_fin_ack.                                                       *)
FinAck(h, k, ack) ==
    LET c == h.conns[k] IN
    IF \/ c.state # "FIN_WAIT" \/ c.local_fin_acked
       \/ Diff(ack, c.local_seq_next) < 0
    THEN h
    ELSE IF c.peer_closed THEN ResetConn(h, k, "finished")
    ELSE [h EXCEPT !.conns[k].local_fin_acked = TRUE, !.conns[k].timer = FALSE,
                   !.conns[k].retries = 0]

(******************************** receiving ********************************)

(* tcp_conn_rx_push: how many of n bytes the buffer takes; none when it    *)
(* must be allocated and cannot be.                                        *)
RxRoom(h, k, n) ==
    LET c == h.conns[k]
        rings == Cardinality({j \in Conns : h.conns[j].rx # <<>>}) IN
    IF c.rx = <<>> /\ (~h.mem \/ rings >= MaxRings) THEN 0
    ELSE Least(n, RxSize - Len(c.rx))

RxPush(h, k, data) ==
    LET n == RxRoom(h, k, Len(data)) IN
    [h EXCEPT !.conns[k].rx = @ \o SubSeq(data, 1, n),
              !.conns[k].rx_window_closed =
                 IF h.conns[k].rx = <<>> THEN n = 0 ELSE @]


(* tcp_process_rx_payload: in-order bytes only, FIN only after all of the  *)
(* segment's bytes were taken.                                             *)
ProcessRxPayload(h, k, seq, data, flags) ==
    LET c == h.conns[k]
        n == IF c.local_read_closed THEN Len(data) ELSE RxRoom(h, k, Len(data))
        p == IF data = <<>> \/ c.local_read_closed THEN h
             ELSE IF n > 0 THEN WakeConn(RxPush(h, k, data), c.lport, k, {"IN"})
             ELSE RxPush(h, k, data)
        fin == "FIN" \in flags /\ n = Len(data)
        q == SendAck([p EXCEPT !.conns[k].remote_seq_next =
                                 Add(@, n + IF fin THEN 1 ELSE 0)], k)
        w == WakeConn([q EXCEPT !.conns[k].peer_closed = TRUE],
                      c.lport, k, {"IN", "HUP"}) IN
    IF seq # c.remote_seq_next THEN SendAck(h, k)
    ELSE IF ~fin THEN q
    ELSE IF c.state = "FIN_WAIT" /\ c.local_fin_acked
         THEN ResetConn(w, k, "finished")
    ELSE w

(* tcp_accept_syn: a SYN without payload for an active listener with room  *)
(* in its backlog and in the table.                                        *)
AcceptSyn(h, seg) ==
    LET i == SlotFor(h, seg.dport)
        g == UsePort(h, seg.dport)
        k == AllocConn(h)
        c == [Closed EXCEPT
                !.state = "SYN_RCVD", !.lport = seg.dport, !.rport = seg.sport,
                !.remote_seq_next = Add(seg.seq, 1),
                !.local_seq_next = Add(IsnAccept, k),
                !.tx_seq_base = Add(IsnAccept, k),
                !.tx_next_send = Add(IsnAccept, k),
                !.remote_window = seg.win, !.timer = TRUE] IN
    IF i = 0 THEN h
    ELSE IF \/ ~h.slots[i].active \/ "SYN" \notin seg.flags \/ seg.data # <<>>
            \/ /\ h.slots[i].backlog # 0
               /\ Cardinality(Pending(h, seg.dport)) >= h.slots[i].backlog
            \/ k = NoConn
         THEN g
    ELSE SendSeg([g EXCEPT !.aconn = k, !.conns[k] = c, !.opens = @ + 1], k,
                 {"SYN", "ACK"},
                 c.local_seq_next, <<>>)

(* The handshake completes: SYN_SENT and SYN_RCVD move past their SYN.     *)
Established(c) ==
    [c EXCEPT !.state = "ESTABLISHED", !.local_seq_next = Add(@, 1),
              !.tx_seq_base = Add(c.local_seq_next, 1),
              !.tx_next_send = Add(c.local_seq_next, 1)]

(* tcp_echo_payload: one segment that passed the checksum and length tests *)
(* of tcp_validate_ipv4 and tcp_validate_tcp_segment.                      *)
Input(h, seg) ==
    LET k == FindConn(h, seg.dport, seg.sport)
        g == [UseConn(h, seg.dport, k) EXCEPT !.conns[k].remote_window = seg.win]
        c == g.conns[k]
        plain == seg.data = <<>> /\ "FIN" \notin seg.flags
        opened == [Established(c) EXCEPT
                     !.remote_seq_next = Add(seg.seq, 1), !.timer = FALSE,
                     !.retries = 0]
        o == WakeConn(SendAck([g EXCEPT !.conns[k] = opened], k), c.lport, k,
                      {"OUT"})
        a == IF "ACK" \in seg.flags
             THEN FinAck(TxAck(g, k, seg.ack), k, seg.ack) ELSE g
        b == WakeListener([a EXCEPT !.conns[k] = Established(@)], seg.dport) IN
    CASE k = NoConn -> AcceptSyn(h, seg)
      [] k # NoConn /\ "RST" \in seg.flags ->
           ResetConn(UseConn(h, seg.dport, k), k, "reset")
      [] k # NoConn /\ "RST" \notin seg.flags ->
           IF c.state = "SYN_SENT" THEN
              IF {"SYN", "ACK"} \subseteq seg.flags
                 /\ seg.ack = Add(c.local_seq_next, 1)
              THEN IF plain THEN o
                   ELSE ProcessRxPayload(o, k, Add(seg.seq, 1), seg.data, seg.flags)
              ELSE g
           ELSE IF a.conns[k].state \in {"FIN_WAIT", "ESTABLISHED"} THEN
              ProcessRxPayload(a, k, seg.seq, seg.data, seg.flags)
           ELSE IF /\ a.conns[k].state = "SYN_RCVD"
                   /\ "ACK" \in seg.flags
                   /\ seg.ack = Add(c.local_seq_next, 1) THEN
              IF plain THEN b
              ELSE ProcessRxPayload(b, k, seg.seq, seg.data, seg.flags)
           ELSE a

(******************************** the timers *******************************)

(* One turn of the loop of tcp_maybe_retransmit.  due: the timer of the    *)
(* connection has expired; idle: TCP_FIN_WAIT_TICKS have passed since its  *)
(* last activity.                                                          *)
Service(h, k, due, idle) ==
    LET c == h.conns[k]
        u == UseConn(h, c.lport, k)
        f == TxFlush(u, k)
        again(flags, seq) ==
            IF ~(due /\ c.timer) THEN u
            ELSE IF c.retries >= MaxRetries THEN ResetConn(u, k, "retries")
            ELSE SendSeg([u EXCEPT !.conns[k].retries = @ + 1], k, flags, seq, <<>>)
        fin == IF c.local_fin_acked THEN u
               ELSE again({"FIN", "ACK"}, Add(c.local_seq_next, -1)) IN
    CASE c.state = "CLOSED" -> [h EXCEPT !.aconn = k]
      [] c.state = "SYN_SENT" -> again({"SYN"}, c.local_seq_next)
      [] c.state = "SYN_RCVD" -> again({"SYN", "ACK"}, c.local_seq_next)
      [] c.state = "ESTABLISHED" ->
           IF c.tx_timer /\ due /\ c.tx # <<>> THEN TxRetransmit(f, k)
           ELSE f
      [] c.state = "FIN_WAIT" ->
           IF c.local_fin_acked /\ c.peer_closed THEN ResetConn(u, k, "finished")
           ELSE IF fin.conns[k].state # "CLOSED" /\ idle
                THEN ResetConn(fin, k, "idle")
           ELSE fin

(* tcp_maybe_retransmit: every entry of the table, in order.               *)
MaybeRetransmit(h, due, idle) ==
    FoldLeft(LAMBDA g, i : Service(g, i - 1, i - 1 \in due, i - 1 \in idle),
             h, [i \in 1..NumConns |-> i])

(************************ calls of the socket layer ************************)

(* tcp_reset_slot_connections.                                             *)
ResetSlotConns(h, port, accepted_too) ==
    LET hit(g, k) == /\ g.conns[k].state # "CLOSED" /\ g.conns[k].lport = port
                     /\ accepted_too \/ ~g.conns[k].accepted IN
    FoldLeft(LAMBDA g, i : IF hit(g, i - 1) THEN ResetConn(g, i - 1, "listener")
                           ELSE g,
             h, [i \in 1..NumConns |-> i])

CloseListener(h, port) ==
    LET i == SlotFor(h, port)
        g == WakeListener([UsePort(h, port) EXCEPT
                             !.slots[i].active = FALSE, !.slots[i].backlog = 0],
                          port) IN
    IF i = 0 THEN h ELSE ResetSlotConns(g, port, FALSE)

(* tcp_socket_close_connection.                                            *)
CloseConnection(h, port, k) ==
    LET g == UseConn(h, port, k)
        b == BeginClose(g, k)
        c == b.conns[k] IN
    IF k \notin Conns \/ h.conns[k].state = "CLOSED" \/ h.conns[k].lport # port
    THEN h
    ELSE IF h.conns[k].state # "ESTABLISHED" THEN ResetConn(g, k, "closed")
    ELSE IF c.state = "FIN_WAIT" /\ c.peer_closed /\ c.local_fin_acked
         THEN ResetConn(b, k, "closed")
    ELSE b

(* tcp_socket_bind and tcp_socket_listen, as socket_listen_tcp calls them. *)
BindListen(h, port, backlog) ==
    LET i == SlotCreate(h, port)
        g == ResetSlotConns([UsePort(h, port) EXCEPT
                               !.slots[i] = [port |-> port, active |-> TRUE,
                                             backlog |-> 1]], port, TRUE) IN
    IF i = 0 THEN UsePort(h, port)
    ELSE [g EXCEPT !.slots[i].backlog = Least(backlog, MaxBacklog)]

(* tcp_socket_connect once arp_resolve has answered.                       *)
ConnectConn(h, lport, rport) ==
    LET k == AllocConn(h)
        isn == Add(IsnConnect, k)
        c == [Closed EXCEPT
                !.state = "SYN_SENT", !.accepted = TRUE, !.lport = lport,
                !.rport = rport, !.local_seq_next = isn, !.tx_seq_base = isn,
                !.tx_next_send = isn, !.remote_window = 1, !.timer = TRUE]
        g == SendSeg([UseConn(h, lport, k) EXCEPT !.conns[k] = c], k, {"SYN"},
                     isn, <<>>) IN
    IF k = NoConn THEN h
    ELSE IF ~h.nic THEN ResetConn(g, k, "unsent") ELSE g

AcceptReady(h) ==
    {k \in Conns : /\ h.conns[k].state = "ESTABLISHED" /\ ~h.conns[k].accepted
                   /\ h.conns[k].lport = h.slots[ActiveSlot(h)].port}

ConnEstablished(h) ==
    ActiveConn(h) # NoConn
    /\ h.conns[ActiveConn(h)].state \in {"ESTABLISHED", "FIN_WAIT"}

ConnectPending(h) ==
    ActiveConn(h) # NoConn /\ h.conns[ActiveConn(h)].state = "SYN_SENT"

RecvReady(h) ==
    ActiveConn(h) # NoConn
    /\ LET c == h.conns[ActiveConn(h)] IN
       c.rx # <<>> \/ c.peer_closed \/ c.local_read_closed

SendReady(h) ==
    ActiveConn(h) # NoConn
    /\ LET c == h.conns[ActiveConn(h)] IN
       c.state = "ESTABLISHED" /\ ~c.local_write_closed /\ Len(c.tx) < TxSize

(* tcp_socket_recv of up to n bytes: the bytes, and the window update.     *)
RecvData(h, n) ==
    LET c == h.conns[ActiveConn(h)] IN
    IF c.local_read_closed THEN <<>> ELSE SubSeq(c.rx, 1, Least(n, Len(c.rx)))

RecvPop(h, n) ==
    LET k == ActiveConn(h)
        m == Len(RecvData(h, n))
        rest == SubSeq(h.conns[k].rx, m + 1, Len(h.conns[k].rx))
        g == [h EXCEPT !.conns[k].rx = rest,
                       !.conns[k].rx_window_closed = @ /\ rest # <<>>] IN
    IF m = 0 THEN h ELSE SendAck(g, k)

(* tcp_socket_send: the error, or 0 when bytes can be queued.              *)
SendError(h) ==
    LET k == ActiveConn(h)
        rings == Cardinality({j \in Conns : h.conns[j].tx # <<>>}) IN
    CASE k = NoConn \/ h.conns[k].state # "ESTABLISHED" -> "ECONNRESET"
      [] h.conns[k].local_write_closed -> "EPIPE"
      [] h.conns[k].tx = <<>> /\ (~h.mem \/ rings >= MaxRings) -> "ENOMEM"
      [] Len(h.conns[k].tx) = TxSize -> "EAGAIN"
      [] OTHER -> "OK"

SendQueue(h, data) ==
    LET k == ActiveConn(h)
        c == h.conns[k]
        n == Least(Len(data), TxSize - Len(c.tx))
        d == [c EXCEPT
                !.tx = @ \o SubSeq(data, 1, n),
                !.tx_seq_base = IF c.tx = <<>> THEN c.local_seq_next ELSE @,
                !.tx_next_send = IF c.tx = <<>> THEN c.local_seq_next ELSE @,
                !.local_seq_next = Add(@, n)] IN
    [TxFlush([h EXCEPT !.conns[k] = d], k) EXCEPT !.conns[k].tx_timer = TRUE]

(* tcp_socket_shutdown in one direction.                                   *)
ShutRead(h) ==
    LET k == ActiveConn(h) IN
    WakeConn([h EXCEPT !.conns[k].local_read_closed = TRUE,
                       !.conns[k].rx = <<>>,
                       !.conns[k].rx_window_closed =
                          @ /\ h.conns[k].rx = <<>>],
             h.conns[k].lport, k, {"IN"})

ShutWrite(h) ==
    LET k == ActiveConn(h)
        g == IF h.conns[k].state = "ESTABLISHED" /\ ~h.conns[k].local_write_closed
             THEN BeginClose(h, k) ELSE h IN
    WakeConn(g, h.conns[k].lport, k, {"OUT"})

-----------------------------------------------------------------------------

CONSTANTS
    ServerPort,    \* the port the server listens on
    ListenPort,    \* TCP_LISTEN_PORT, the slot tcp_init creates
    MaxWire,       \* bound: frames in flight
    MaxCalls,      \* bound: listen and connect calls
    Programs,      \* what the programs on the two hosts may do: the calls
                   \* each makes and how many bytes it writes
    MaxFaults,     \* bound: frames lost, duplicated, delayed past a timer or
                   \* refused by the card, and allocations that fail
    Lengths,       \* lengths programs pass to recv
    Backlogs       \* backlogs programs pass to listen

VARIABLES
    prog,       \* the programs that run
    host,       \* the record of each host (above)
    wire,       \* frames in flight, each with its destination
    pc,         \* the call each process is in
    sent,       \* history: bytes send and write accepted
    got,        \* history: bytes recv and read returned
    finished,   \* history: the program closed its sending direction
    eof,        \* history: recv returned 0 on the connection
    calls,      \* history: listen and connect calls made
    faults      \* history: faults so far

vars == <<prog, host, wire, pc, sent, got, finished, eof, calls, faults>>
history == <<prog, sent, got, finished, eof, calls>>

Hosts == {"client", "server"}
Peer(x) == IF x = "client" THEN "server" ELSE "client"
Idle == [op |-> "idle", s |-> NoConn]
Call(op, s) == [op |-> op, s |-> s]

ASSUME TcpAssumption ==
    /\ NumConns \in Nat \ {0} /\ NumSlots \in Nat \ {0}
    /\ 2 * RxSize < SeqSpace /\ 2 * TxSize < SeqSpace
    /\ MaxPayload \in Nat \ {0}

NewHost ==
    [conns |-> [k \in Conns |-> Closed],
     slots |-> [i \in 1..NumSlots |->
                  IF i = 1 THEN [NoSlot EXCEPT !.port = ListenPort] ELSE NoSlot],
     aport |-> ListenPort, aconn |-> NoConn, eph |-> EphFirst,
     socks |-> [s \in Socks |-> NoSock],
     wait |-> [q \in Queues |-> {}],
     st |-> [p \in Procs |-> "RUNNING"],
     out |-> {}, nic |-> TRUE, mem |-> TRUE, opens |-> 0, cut |-> {}, lost |-> {}]

Init ==
    /\ prog \in Programs
    /\ host = [x \in Hosts |-> NewHost]
    /\ wire = {}
    /\ pc = [x \in Hosts |-> [p \in Procs |-> Idle]]
    /\ sent = [x \in Hosts |-> <<>>]
    /\ got = [x \in Hosts |-> <<>>]
    /\ finished = [x \in Hosts |-> FALSE]
    /\ eof = [x \in Hosts |-> FALSE]
    /\ calls = 0
    /\ faults = 0

(* What a step of x starts from: the card takes frames or not, memory is   *)
(* there or not.                                                           *)
Env(x, nic, mem) == [host[x] EXCEPT !.nic = nic, !.mem = mem]

(* The step of x ends in the record h: its frames go on the wire.          *)
Becomes(x, h) ==
    /\ host' = [host EXCEPT ![x] =
                  [h EXCEPT !.out = {}, !.nic = TRUE, !.mem = TRUE]]
    /\ wire' = wire \cup {[to |-> Peer(x), seg |-> g] : g \in h.out}
    /\ Cardinality(wire') <= MaxWire

(* The environment of this step: every fault uses up one of MaxFaults.     *)
Faults(bad) ==
    LET n == Cardinality({i \in DOMAIN bad : bad[i]}) IN
    faults + n <= MaxFaults /\ faults' = faults + n

Return(x, p) == pc' = [pc EXCEPT ![x][p] = Idle]

(* socket_wait and the loop's hlt.                                         *)
Park(x, p, h, op, s, q) ==
    /\ Becomes(x, [h EXCEPT !.st[p] = "WAITING", !.wait[<<s, q>>] = @ \cup {p}])
    /\ pc' = [pc EXCEPT ![x][p] = Call(op, s)]

(* The process is in call op on s and runs again; it may start a call; it  *)
(* may start one on its socket s.  A socket is shared by the processes     *)
(* that inherited it, so none goes away under a call.                      *)
In(x, p, op, s) == host[x].st[p] = "RUNNING" /\ pc[x][p] = Call(op, s)
Free(x, p, s, op) ==
    /\ op \in prog[x].ops
    /\ host[x].st[p] = "RUNNING" /\ pc[x][p] = Idle
    /\ host[x].socks[s].refs = {}
Starts(x, p, s, op) ==
    /\ op \in prog[x].ops
    /\ host[x].st[p] = "RUNNING" /\ pc[x][p] = Idle
    /\ p \in host[x].socks[s].refs

(***************************** the socket layer ****************************)

Streams == {"CONNECTED", "CONNECTING"}

(* socket_tcp_use.                                                         *)
UseSock(h, s) ==
    IF h.socks[s].state \in Streams
    THEN UseConn(h, h.socks[s].lport, h.socks[s].conn)
    ELSE UsePort(h, h.socks[s].lport)

(* socket_tcp_connection_established: also notes that connecting is over.  *)
SockEstablished(h, s) == h.socks[s].state \in Streams /\ ConnEstablished(UseSock(h, s))
NoteEstablished(h, s) ==
    LET u == UseSock(h, s) IN
    IF SockEstablished(h, s) THEN [u EXCEPT !.socks[s].state = "CONNECTED"] ELSE u

SockPending(h, s) ==
    /\ h.socks[s].state = "CONNECTING"
    /\ ~SockEstablished(h, s)
    /\ ConnectPending(UseSock(h, s))

SockRecvReady(h, s) ==
    /\ h.socks[s].state \in Streams
    /\ h.socks[s].rshut \/ RecvReady(UseSock(h, s))

SockSendReady(h, s) ==
    h.socks[s].state \in Streams /\ ~h.socks[s].wshut /\ SendReady(UseSock(h, s))

(* socket_create_kind, socket_bind_tcp and socket_listen_tcp, the calls of *)
(* a server before it accepts.                                             *)
Listen(x, p, s, backlog) ==
    LET h == [host[x] EXCEPT !.socks[s] =
                [NoSock EXCEPT !.refs = Procs, !.state = "BOUND", !.lport = ServerPort]]
        g == BindListen(h, ServerPort, backlog) IN
    /\ Free(x, p, s, "listen")
    /\ calls < MaxCalls
    /\ calls' = calls + 1
    /\ Becomes(x, IF SlotCreate(h, ServerPort) = 0 THEN [g EXCEPT !.socks[s] = NoSock]
                  ELSE [g EXCEPT !.socks[s].state = "LISTENING",
                                 !.socks[s].backlog = backlog])
    /\ UNCHANGED <<prog, pc, sent, got, finished, eof, faults>>

(* sys_socket and sys_connect: socket_connect_tcp on a new socket, up to   *)
(* the first wait.  A non-blocking caller returns with EINPROGRESS.        *)
Connect(x, p, s, nic, blocking) ==
    LET h == Env(x, nic, TRUE)
        port == EphemeralPort(h)
        g == ConnectConn([h EXCEPT !.eph = IF port = EphLast THEN EphFirst
                                           ELSE port + 1], port, ServerPort)
        made == [g EXCEPT !.socks[s] =
                   [NoSock EXCEPT !.refs = Procs, !.state = "CONNECTING", !.lport = port,
                                  !.conn = g.aconn]] IN
    /\ Faults(<<~nic>>)
    /\ Free(x, p, s, IF blocking THEN "connect" ELSE "nonblocking connect")
    /\ calls < MaxCalls
    /\ calls' = calls + 1
    /\ IF port = 0 \/ AllocConn(h) = NoConn \/ ~nic
       THEN Becomes(x, g) /\ UNCHANGED pc      \* the program closes the socket
       ELSE IF blocking THEN Park(x, p, made, "connect", s, "write")
       ELSE Becomes(x, made) /\ UNCHANGED pc
    /\ UNCHANGED <<prog, sent, got, finished, eof>>

(* The loop of sys_connect after a wake-up.                                *)
ConnectResumes(x, p, s) ==
    LET h == NoteEstablished(host[x], s) IN
    /\ In(x, p, "connect", s)
    /\ IF SockEstablished(host[x], s) \/ ~SockPending(host[x], s)
       THEN Becomes(x, h) /\ Return(x, p)
       ELSE Park(x, p, h, "connect", s, "write")
    /\ UNCHANGED <<history, faults>>

(* sys_accept: waits until a connection is established, then takes it into *)
(* a new socket.                                                           *)
Accept(x, p, s) ==
    LET u == UseSock(host[x], s)
        ready == AcceptReady(u) # {}
        k == CHOOSE i \in AcceptReady(u) : \A j \in AcceptReady(u) : i <= j
        free == {c \in Socks : host[x].socks[c].state = "FREE"}
        child(c) == [u EXCEPT !.conns[k].accepted = TRUE, !.aconn = k,
                              !.socks[c] = [NoSock EXCEPT
                                 !.refs = Procs, !.state = "CONNECTED", !.conn = k,
                                 !.lport = host[x].socks[s].lport]] IN
    /\ \/ Starts(x, p, s, "accept") /\ host[x].socks[s].state = "LISTENING"
       \/ In(x, p, "accept", s)
    /\ IF ready
       THEN /\ Becomes(x, IF free = {} THEN u ELSE child(CHOOSE c \in free : TRUE))
            /\ Return(x, p)
       ELSE Park(x, p, u, "accept", s, "accept")
    /\ UNCHANGED <<history, faults>>

(* process_handle_socket_read and sys_recv: data, end of file, or wait.    *)
Recv(x, p, s, n) ==
    LET h == NoteEstablished(host[x], s)
        take == SockEstablished(host[x], s) /\ ~h.socks[s].rshut
        data == IF take THEN RecvData(h, n) ELSE <<>> IN
    /\ \/ Starts(x, p, s, "recv") /\ host[x].socks[s].state \in Streams
       \/ In(x, p, "recv", s)
    /\ IF SockRecvReady(host[x], s)
       THEN /\ Becomes(x, IF take THEN RecvPop(h, n) ELSE h)
            /\ Return(x, p)
            /\ got' = [got EXCEPT ![x] = @ \o data]
            /\ eof' = [eof EXCEPT ![x] = @ \/ data = <<>>]
       ELSE IF SockEstablished(host[x], s) \/ SockPending(host[x], s)
       THEN /\ Park(x, p, h, "recv", s,
                    IF SockEstablished(host[x], s) THEN "read" ELSE "write")
            /\ UNCHANGED <<got, eof>>
       ELSE /\ Becomes(x, h)
            /\ Return(x, p)
            /\ eof' = [eof EXCEPT ![x] = TRUE]
            /\ UNCHANGED got
    /\ UNCHANGED <<prog, sent, finished, calls, faults>>

(* process_handle_socket_write of one byte: queued, refused, or wait for   *)
(* room.                                                                   *)
Send(x, p, s, nic, mem) ==
    LET h == NoteEstablished(Env(x, nic, mem), s)
        b == Len(sent[x]) + 1
        err == IF ~SockEstablished(host[x], s) THEN "EAGAIN"
               ELSE IF h.socks[s].wshut THEN "EPIPE" ELSE SendError(h) IN
    /\ Faults(<<~nic, ~mem>>)
    /\ \/ Starts(x, p, s, "send") /\ host[x].socks[s].state \in Streams
       \/ In(x, p, "send", s)
    /\ b <= prog[x].bytes
    /\ CASE err = "OK" ->
              /\ Becomes(x, SendQueue(h, <<b>>))
              /\ Return(x, p)
              /\ sent' = [sent EXCEPT ![x] = Append(@, b)]
         [] \/ err \in {"EPIPE", "ENOMEM", "ECONNRESET"}
            \/ /\ err = "EAGAIN"
               /\ ~SockEstablished(host[x], s) /\ ~SockPending(host[x], s) ->
              Becomes(x, h) /\ Return(x, p) /\ UNCHANGED sent
         [] OTHER ->
              Park(x, p, h, "send", s, "write") /\ UNCHANGED sent
    /\ UNCHANGED <<prog, got, finished, eof, calls>>

(* socket_shutdown_tcp.                                                    *)
Shutdown(x, p, s, how, nic) ==
    LET u == UseSock(Env(x, nic, TRUE), s)
        r == WakeQueues([ShutRead(u) EXCEPT !.socks[s].rshut = TRUE,
                                            !.cut = @ \cup {"shut"}],
                        {<<s, "read">>})
        w == WakeQueues([ShutWrite(u) EXCEPT !.socks[s].wshut = TRUE],
                        {<<s, "write">>}) IN
    /\ Faults(<<~nic>>)
    /\ Starts(x, p, s, how)
    /\ host[x].socks[s].state = "CONNECTED"
    /\ ActiveConn(u) # NoConn
    /\ u.conns[ActiveConn(u)].state \in {"ESTABLISHED", "FIN_WAIT"}
    /\ Becomes(x, IF how = "RD" THEN r ELSE w)
    /\ finished' = [finished EXCEPT ![x] = @ \/ how = "WR"]
    /\ UNCHANGED <<prog, pc, sent, got, eof, calls>>

(* socket_release: the last holder closes.                                 *)
Close(x, p, s, nic) ==
    LET h == WakeQueues(Env(x, nic, TRUE), {s} \X {"read", "write", "accept"})
        k == h.socks[s]
        last == k.refs = {p}
        c == IF k.state = "LISTENING" THEN CloseListener(h, k.lport)
             ELSE IF k.state \in Streams THEN CloseConnection(h, k.lport, k.conn)
             ELSE h IN
    /\ Faults(<<~nic>>)
    /\ Starts(x, p, s, "close")
    /\ IF last THEN Becomes(x, [c EXCEPT !.socks[s] = NoSock])
       ELSE Becomes(x, [host[x] EXCEPT !.socks[s].refs = @ \ {p}])
    /\ finished' = [finished EXCEPT ![x] = @ \/ (last /\ k.state \in Streams)]
    /\ UNCHANGED <<prog, pc, sent, got, eof, calls>>

(* socket_poll: besides reporting, it notes that connecting is over.       *)
Poll(x, p, s) ==
    /\ Starts(x, p, s, "poll")
    /\ host[x].socks[s].state = "CONNECTING"
    /\ SockEstablished(host[x], s)
    /\ Becomes(x, NoteEstablished(host[x], s))
    /\ UNCHANGED <<pc, history, faults>>

(*************************** network and tcp task **************************)

(* tcp_handle_ipv4_frame.  The frame may stay in flight: a duplicate.      *)
Deliver(f, nic, mem, again) ==
    /\ Faults(<<~nic, ~mem, again>>)
    /\ f \in wire
    /\ \E h \in {Input(Env(f.to, nic, mem), f.seg)} :
         /\ host' = [host EXCEPT ![f.to] =
                       [h EXCEPT !.out = {}, !.nic = TRUE, !.mem = TRUE]]
         /\ wire' = (IF again THEN wire ELSE wire \ {f})
                    \cup {[to |-> Peer(f.to), seg |-> g] : g \in h.out}
    /\ Cardinality(wire') <= MaxWire
    /\ UNCHANGED <<pc, history>>

Lose(f) ==
    /\ Faults(<<TRUE>>)
    /\ f \in wire
    /\ wire' = wire \ {f}
    /\ UNCHANGED <<host, pc, history>>

(* One pass of tcp_service_main over the connections of x.  A timer that   *)
(* expires while a frame is in flight means a frame delayed by that long.  *)
TcpTask(x, due, idle, nic) ==
    /\ Faults(<<~nic, due \cup idle # {} /\ wire # {}>>)
    /\ \A k \in due : host[x].conns[k].timer \/ host[x].conns[k].tx_timer
    /\ \A k \in idle : host[x].conns[k].state = "FIN_WAIT"
    /\ Becomes(x, MaybeRetransmit(Env(x, nic, TRUE), due, idle))
    /\ UNCHANGED <<pc, history>>

Next ==
    \/ \E f \in wire, nic, mem, again \in BOOLEAN : Deliver(f, nic, mem, again)
    \/ \E f \in wire : Lose(f)
    \/ \E x \in Hosts, due, idle \in SUBSET Conns, nic \in BOOLEAN :
         TcpTask(x, due, idle, nic)
    \/ \E p \in Procs, s \in Socks, b \in Backlogs : Listen("server", p, s, b)
    \/ \E p \in Procs, s \in Socks, nic, blocking \in BOOLEAN :
         Connect("client", p, s, nic, blocking)
    \/ \E x \in Hosts, p \in Procs, s \in Socks :
         \/ ConnectResumes(x, p, s)
         \/ Accept(x, p, s)
         \/ \E n \in Lengths : Recv(x, p, s, n)
         \/ \E nic, mem \in BOOLEAN : Send(x, p, s, nic, mem)
         \/ \E how \in {"RD", "WR"}, nic \in BOOLEAN : Shutdown(x, p, s, how, nic)
         \/ \E nic \in BOOLEAN : Close(x, p, s, nic)
         \/ Poll(x, p, s)

Spec == Init /\ [][Next]_vars

(******************************** properties *******************************)

TypeOK ==
    /\ \A x \in Hosts, k \in Conns :
         LET c == host[x].conns[k] IN
         /\ c.state \in {"CLOSED", "SYN_SENT", "SYN_RCVD", "ESTABLISHED", "FIN_WAIT"}
         /\ Len(c.rx) <= RxSize /\ Len(c.tx) <= TxSize
         /\ {c.tx_seq_base, c.tx_next_send, c.local_seq_next} \subseteq 0..(SeqSpace-1)
    /\ Cardinality(wire) <= MaxWire

(* The receiving side is cut off when it shut it down itself, when the     *)
(* connection was given up (retries, idle FIN_WAIT, local close), or when  *)
(* the end of the handshake threw away bytes it had not read yet.          *)
CutOff(x) == (host[x].cut \ {"finished"}) \cup host[x].lost # {}

TheStream == INSTANCE Stream WITH
    Ends <- Hosts, cut <- [x \in Hosts |-> CutOff(x)]


(* A process parked in a socket call has nothing to return yet: whatever   *)
(* makes the call able to return also takes it out of its queue, although  *)
(* frames, timers and other calls change the connection (wait queues of    *)
(* socket.c, socket_wake_tcp_connection, socket_wake_tcp_listener).        *)
CanReturn(x, p) ==
    LET s == pc[x][p].s
        h == host[x]
        gone == ~SockEstablished(h, s) /\ ~SockPending(h, s) IN
    CASE pc[x][p].op = "recv" -> SockRecvReady(h, s) \/ gone
      [] pc[x][p].op = "send" -> SockSendReady(h, s) \/ gone
      [] pc[x][p].op = "connect" -> ~SockPending(h, s)
      [] pc[x][p].op = "accept" -> AcceptReady(UseSock(h, s)) # {}

NoLostWakeup ==
    \A x \in Hosts, p \in Procs :
        host[x].st[p] = "WAITING" => ~CanReturn(x, p)

(* No entry of the connection table is forgotten: a connection belongs to  *)
(* an open socket, or is waiting under an active listener, or is closing,  *)
(* where the timers of the tcp task will free it (tcp_maybe_retransmit).   *)
Owned(x, k) ==
    \E s \in Socks : /\ host[x].socks[s].state \in Streams
                     /\ host[x].socks[s].conn = k
                     /\ host[x].socks[s].lport = host[x].conns[k].lport

NoConnectionForgotten ==
    \A x \in Hosts, k \in Conns :
        LET c == host[x].conns[k] IN
        \/ c.state = "CLOSED"
        \/ Owned(x, k)
        \/ c.state = "FIN_WAIT" \/ c.close_requested
        \/ /\ ~c.accepted
           /\ \E s \in Socks : /\ host[x].socks[s].state = "LISTENING"
                               /\ host[x].socks[s].lport = c.lport

(* Whatever waits for an answer of the peer has a timer running: no lost   *)
(* frame can leave a connection with unsent data, an unanswered SYN or an  *)
(* unacknowledged FIN and nothing to send it again.                        *)
RetryArmed ==
    \A x \in Hosts, k \in Conns :
        LET c == host[x].conns[k] IN
        /\ c.tx # <<>> => c.state = "ESTABLISHED" /\ c.tx_timer
        /\ c.state \in {"SYN_SENT", "SYN_RCVD"} => c.timer
        /\ c.state = "FIN_WAIT" /\ ~c.local_fin_acked => c.timer
=============================================================================
