-------------------------------- MODULE Vsock --------------------------------
(***************************************************************************)
(* A vsock connection of the guest and the transmit queue it shares with   *)
(* all the others (vm-common/kernel_virtio_vsock.c, kernel_virtio.c).      *)
(*                                                                         *)
(* The application creates a socket, connects, reads, writes, shuts down   *)
(* and closes.  Every operation is a critical section of the connections   *)
(* lock; connect and close sleep on the connection's state.  Pollers (the  *)
(* helper thread, and every thread that looks at a socket) take packets    *)
(* from the receive queue, free what the host has sent, and send control   *)
(* packets that found the transmit queue full.  Flow is controlled by the  *)
(* credit each side reports in every packet header.                        *)
(*                                                                         *)
(* The receive queue is the sequence of packets the host has queued and    *)
(* the guest has not processed; masking its interrupts and the times at    *)
(* which it is looked at are left out.  One connection exists at a time,   *)
(* so its guest port is always the same number (pick_new_port); `gen`      *)
(* tells incarnations apart.                                               *)
(* Payloads are intervals of the byte numbers of a connection's stream.    *)
(***************************************************************************)
EXTENDS Integers, Sequences, Functions

CONSTANTS
    Payload,       \* VSOCK_MAX_PAYLOAD_SIZE, 980 in the code
    MaxPackets,    \* VSOCK_MAX_PACKETS, 4096
    TqSize,        \* VIRTIO_VSOCK_QUEUE_SIZE, 256
    PendingSize,   \* VIRTIO_VSOCK_PENDING_TQ_CONTROL_SIZE, 4096
    Mod,           \* modulus of the credit counters, 2^32
    HostBuf,       \* buf_alloc of the host's sockets
    HostSizes,     \* payload sizes the host uses
    ReadLens, WriteLens,   \* counts passed to read and write
    MaxGen,        \* bound: connection attempts
    MaxHost,       \* bound: bytes the host sends on a connection
    MaxGuest,      \* bound: bytes the guest writes to a connection
    MaxExtra,      \* bound: credit requests, shutdowns and resets of the host
    MaxOps         \* bound: reads, writes and shutdowns of the guest

ASSUME VsockAssumption ==
    /\ {Payload, MaxPackets, TqSize, HostBuf} \subseteq Nat \ {0}
    /\ {PendingSize, MaxGen, MaxHost, MaxGuest, MaxExtra, MaxOps} \subseteq Nat
    /\ Mod \in Nat /\ Mod > MaxPackets * Payload /\ Mod > HostBuf
    /\ HostSizes \subseteq 1 .. Payload
    /\ ReadLens \subseteq Nat \ {0} /\ WriteLens \subseteq Nat \ {0}

VARIABLES
    conn,      \* struct virtio_vsock_connection
    tq,        \* the transmit queue and the pending control packets
    rx,        \* packets the host has queued for the guest
    host,      \* the host's socket
    apc,       \* where the application is
    left,      \* what a write has still to send
    bad,       \* the packet that is to be answered with a reset
    gen,       \* connection attempts made
    written,   \* bytes written to the connection
    taken,     \* bytes read from it
    dropped,   \* a packet within the credit was dropped
    extra,     \* credit requests, shutdowns and resets the host has sent
    ops        \* reads, writes and shutdowns of the guest

app  == <<apc, left>>
hist == <<gen, written, taken, dropped, extra, ops>>
vars == <<conn, tq, rx, host, app, bad, hist>>

BufAlloc == MaxPackets * Payload
Plus(a, b)  == (a + b) % Mod
Minus(a, b) == (a - b) % Mod

Ops    == {"REQUEST", "RESPONSE", "RST", "SHUTDOWN", "RW", "CREDIT_UPDATE", "CREDIT_REQUEST"}
Flags  == SUBSET {"RCV", "SEND"}
Counter == 0 .. Mod - 1
Packet == [op : Ops, gen : 0 .. MaxGen, first : Nat, size : 0 .. Payload, flags : Flags,
           fwd_cnt : Counter, buf_alloc : {0, BufAlloc, HostBuf}]
NoPacket == [op |-> "none"]

NoConn == [open |-> FALSE, state |-> "CLOSE", ported |-> FALSE, used |-> FALSE,
           peer_fwd_cnt |-> 0, peer_buf_alloc |-> 0, tx_cnt |-> 0, fwd_cnt |-> 0,
           recv_disallowed |-> FALSE, send_disallowed |-> FALSE, packets |-> <<>>]
NoHost == [open |-> FALSE, gen |-> 0, sent |-> 0, received |-> 0, consumed |-> 0,
           fwd_cnt |-> 0, buf_alloc |-> 0, closing |-> FALSE, shut |-> {}]

Conn == [open : BOOLEAN, state : {"CLOSE", "CONNECT", "ESTABLISHED", "CLOSING"},
         ported : BOOLEAN, used : BOOLEAN, peer_fwd_cnt : Counter,
         peer_buf_alloc : {0, BufAlloc, HostBuf}, tx_cnt : Counter, fwd_cnt : Counter,
         recv_disallowed : BOOLEAN, send_disallowed : BOOLEAN, packets : Seq(Packet)]
TxQueue == [free : 0 .. TqSize, next : [0 .. TqSize - 1 -> 0 .. TqSize],
            avail : Seq([id : 0 .. TqSize - 1, packet : Packet]),
            completed : Seq(0 .. TqSize - 1), pending : Seq(Packet), refused : BOOLEAN]
Host == [open : BOOLEAN, gen : 0 .. MaxGen, sent : 0 .. MaxHost, received : Nat,
         consumed : Nat, fwd_cnt : Counter, buf_alloc : {0, BufAlloc, HostBuf},
         closing : BOOLEAN, shut : Flags]

TypeOK ==
    /\ conn \in Conn /\ Len(conn.packets) <= MaxPackets
    /\ \A i \in DOMAIN conn.packets : conn.packets[i].size > 0
    /\ tq \in TxQueue /\ Len(tq.pending) <= PendingSize
    /\ rx \in Seq(Packet)
    /\ \A i \in DOMAIN rx : rx[i].op = "RW" => rx[i].size > 0
    /\ host \in Host
    /\ apc \in {"idle", "connecting", "writing", "closing"} /\ left \in Nat
    /\ bad \in Packet \cup {NoPacket}
    /\ gen \in 0 .. MaxGen /\ written \in Nat /\ taken \in Nat
    /\ dropped \in BOOLEAN /\ extra \in 0 .. MaxExtra /\ ops \in 0 .. MaxOps

(* virtq_create chains the descriptors; the socket table is empty.         *)
Init ==
    /\ conn = NoConn
    /\ tq = [free |-> 0, next |-> [d \in 0 .. TqSize - 1 |-> d + 1], avail |-> <<>>,
             completed |-> <<>>, pending |-> <<>>, refused |-> FALSE]
    /\ rx = <<>> /\ host = NoHost
    /\ apc = "idle" /\ left = 0
    /\ bad = NoPacket
    /\ gen = 0 /\ written = 0 /\ taken = 0 /\ dropped = FALSE /\ extra = 0 /\ ops = 0

------------------------------------------------------------------------------
(* The transmit queue, each operator a critical section of its lock.       *)

HasFree(q) == q.free # TqSize

(* Slip: the descriptor stays chained, as if it were free.                  *)
virtq_alloc_desc_chained(q) == [q EXCEPT !.free = q.next[q.free]]

virtq_alloc_desc(q) == [q EXCEPT !.free = q.next[q.free], !.next[q.free] = 0]

virtq_is_desc_free(q, d) == q.next[d] # 0

virtq_free_desc(q, d) == [q EXCEPT !.free = d, !.next[d] = q.free]

copy_into_tq_internal(q, packet) ==
    [virtq_alloc_desc(q) EXCEPT !.avail = Append(@, [id |-> q.free, packet |-> packet])]

(* A loop: op applied n times.                                             *)
Iterate(op(_), x, n) ==
    LET r[k \in 0 .. n] == IF k = 0 THEN x ELSE op(r[k - 1]) IN r[n]

(* What the host has consumed is freed, up to one that seems free already. *)
free_completed(q) ==
    LET d == Head(q.completed) IN
    CASE q.completed = <<>>       -> q
      [] q.completed # <<>> /\ virtq_is_desc_free(q, d) -> [q EXCEPT !.refused = TRUE]
      [] OTHER -> [virtq_free_desc(q, d) EXCEPT !.completed = Tail(@)]

cleanup_tq(q) == Iterate(free_completed, q, Len(q.completed))

(* A data packet that finds no descriptor after a cleanup is not sent.     *)
copy_into_tq_and_free(q, packet) ==
    LET r == IF HasFree(q) THEN q ELSE cleanup_tq(q) IN
    [sent |-> HasFree(r),
     tq   |-> cleanup_tq(IF HasFree(r) THEN copy_into_tq_internal(r, packet) ELSE r)]

(* A control packet that finds none is kept for later, if there is room.   *)
copy_into_tq_or_add_to_pending(q, packet) ==
    LET room == Len(q.pending) < PendingSize IN
    [sent |-> HasFree(q) \/ room,
     tq   |-> cleanup_tq(CASE HasFree(q) -> copy_into_tq_internal(q, packet)
                           [] ~HasFree(q) /\ room -> [q EXCEPT !.pending = Append(@, packet)]
                           [] OTHER -> q)]

(* The pending packets are sent as long as there are descriptors.          *)
send_one_pending(q) ==
    IF q.pending = <<>> \/ ~HasFree(q) THEN q
    ELSE [copy_into_tq_internal(q, Head(q.pending)) EXCEPT !.pending = Tail(@)]

send_pending_tq_control_packets(q) == Iterate(send_one_pending, q, Len(q.pending))

generate_packet(c, op, first, size, flags) ==
    [op |-> op, gen |-> gen, first |-> first, size |-> size, flags |-> flags,
     fwd_cnt |-> c.fwd_cnt, buf_alloc |-> BufAlloc]

send_control(c, op, flags) ==
    copy_into_tq_or_add_to_pending(tq, generate_packet(c, op, 0, 0, flags))

(* Slip: the difference is not taken modulo 2^32.                           *)
peer_free_space_signed(c) ==
    LET outstanding == c.tx_cnt - c.peer_fwd_cnt IN
    IF outstanding < c.peer_buf_alloc THEN c.peer_buf_alloc - outstanding ELSE 0

peer_free_space(c) ==
    LET outstanding == Minus(c.tx_cnt, c.peer_fwd_cnt) IN
    IF outstanding < c.peer_buf_alloc THEN c.peer_buf_alloc - outstanding ELSE 0

------------------------------------------------------------------------------
(* The application: critical sections of the connections lock, which only  *)
(* a write keeps over several packets.                                     *)

ConnectionsLockFree == apc # "writing"

(* cleanup_connection: unread packets and the ports are gone, whoever      *)
(* waits for the state is woken.                                           *)
cleanup_connection(c) == [c EXCEPT !.packets = <<>>, !.ported = FALSE, !.state = "CLOSE"]

remove_connection == conn' = NoConn /\ written' = 0 /\ taken' = 0

virtio_vsock_socket ==
    /\ apc = "idle" /\ ~conn.open
    /\ conn' = [NoConn EXCEPT !.open = TRUE]
    /\ UNCHANGED <<tq, rx, host, app, bad, hist>>

(* A socket that was established once is not connected again (LibOS); one  *)
(* whose request could not be queued keeps its ports.                      *)
virtio_vsock_connect ==
    /\ apc = "idle" /\ conn.open /\ conn.state = "CLOSE" /\ ~conn.used /\ ~conn.ported
    /\ gen < MaxGen
    /\ LET request == [generate_packet(conn, "REQUEST", 0, 0, {}) EXCEPT !.gen = gen + 1]
           s == copy_into_tq_or_add_to_pending(tq, request) IN
       /\ tq' = s.tq
       /\ conn' = [conn EXCEPT !.ported = TRUE, !.state = IF s.sent THEN "CONNECT" ELSE @]
       /\ apc' = IF s.sent THEN "connecting" ELSE "idle"
    /\ gen' = gen + 1
    /\ UNCHANGED <<rx, host, left, bad, written, taken, dropped, extra, ops>>

(* Woken by a change of the state, which is looked at under the lock.      *)
ConnectDone ==
    /\ apc = "connecting" /\ conn.state # "CONNECT"
    /\ apc' = "idle"
    /\ conn' = [conn EXCEPT !.used = conn.state = "ESTABLISHED"]
    /\ UNCHANGED <<tq, rx, host, left, bad, hist>>

ConnectTimesOut ==
    /\ apc = "connecting" /\ conn.state = "CONNECT"
    /\ apc' = "idle"
    /\ UNCHANGED <<conn, tq, rx, host, left, bad, hist>>

(* A call on an established socket, one of MaxOps.                         *)
Use ==
    /\ apc = "idle" /\ conn.open /\ conn.used /\ conn.state = "ESTABLISHED"
    /\ ops < MaxOps
    /\ ops' = ops + 1

(* virtio_vsock_write: one packet after the other under the lock,          *)
virtio_vsock_write(count) ==
    /\ Use /\ ~conn.send_disallowed
    /\ written + count <= MaxGuest
    /\ apc' = "writing" /\ left' = count
    /\ UNCHANGED <<conn, tq, rx, host, bad, gen, written, taken, dropped, extra>>

MinOf(a, b) == IF a < b THEN a ELSE b

(* Slip: bytes are counted although the packet found no descriptor.         *)
WritePacket_counted ==
    /\ apc = "writing"
    /\ LET size == MinOf(MinOf(left, Payload), peer_free_space(conn))
           s == copy_into_tq_and_free(tq, generate_packet(conn, "RW", written + 1, size, {})) IN
       IF size > 0
       THEN /\ tq' = s.tq
            /\ conn' = [conn EXCEPT !.tx_cnt = Plus(@, size)]
            /\ written' = written + size
            /\ left' = IF s.sent THEN left - size ELSE 0
       ELSE left' = 0 /\ UNCHANGED <<tq, conn, written>>
    /\ apc' = IF left' = 0 THEN "idle" ELSE "writing"
    /\ UNCHANGED <<rx, host, bad, gen, taken, dropped, extra, ops>>

(* until all is sent, the credit is used up or the queue is full.          *)
WritePacket ==
    /\ apc = "writing"
    /\ LET size == MinOf(MinOf(left, Payload), peer_free_space(conn))
           s == copy_into_tq_and_free(tq, generate_packet(conn, "RW", written + 1, size, {})) IN
       \/ /\ size > 0 /\ s.sent
          /\ tq' = s.tq
          /\ conn' = [conn EXCEPT !.tx_cnt = Plus(@, size)]
          /\ written' = written + size /\ left' = left - size
       \/ /\ size > 0 /\ ~s.sent
          /\ tq' = s.tq
          /\ left' = 0
          /\ UNCHANGED <<conn, written>>
       \/ /\ size = 0
          /\ left' = 0
          /\ UNCHANGED <<conn, tq, written>>
    /\ apc' = IF left' = 0 THEN "idle" ELSE "writing"
    /\ UNCHANGED <<rx, host, bad, gen, taken, dropped, extra, ops>>

(* Slip: the rest of a trimmed packet goes behind the packets after it.     *)
copy_packet_requeued(r) ==
    LET p == Head(r.packets) IN
    CASE r.packets = <<>> \/ r.count = 0 -> r
      [] r.packets # <<>> /\ r.count # 0 /\ p.size <= r.count ->
            [count |-> r.count - p.size, packets |-> Tail(r.packets)]
      [] OTHER ->
            [count |-> 0,
             packets |-> Append(Tail(r.packets),
                                [p EXCEPT !.first = @ + r.count, !.size = @ - r.count])]

(* One turn of the loop over the packets: it is copied and freed, or, when *)
(* the caller's buffer is too small for it, trimmed.                       *)
copy_packet(r) ==
    LET p == Head(r.packets) IN
    CASE r.packets = <<>> -> r
      [] r.packets # <<>> /\ p.size <= r.count ->
            [count |-> r.count - p.size, packets |-> Tail(r.packets)]
      [] OTHER ->
            [count |-> 0,
             packets |-> <<[p EXCEPT !.first = @ + r.count, !.size = @ - r.count]>>
                             \o Tail(r.packets)]

Consume(packets, count) ==
    Iterate(copy_packet, [count |-> count, packets |-> packets], Len(packets))

(* The credit is returned when the application has the bytes; that the     *)
(* update cannot be queued does not fail the read.                         *)
virtio_vsock_read(count) ==
    /\ Use /\ conn.packets # <<>>
    /\ LET r == Consume(conn.packets, count)
           copied == count - r.count
           c == [conn EXCEPT !.packets = r.packets, !.fwd_cnt = Plus(@, copied)] IN
       /\ conn' = c
       /\ tq' = send_control(c, "CREDIT_UPDATE", {}).tq
       /\ taken' = taken + copied
    /\ UNCHANGED <<rx, host, app, bad, gen, written, dropped, extra>>

(* Bound: no shutdown that changes nothing.                                *)
virtio_vsock_shutdown(flags) ==
    /\ Use
    /\ conn' = [conn EXCEPT !.recv_disallowed = @ \/ "RCV" \in flags,
                            !.send_disallowed = @ \/ "SEND" \in flags]
    /\ conn' # conn
    /\ tq' = send_control(conn, "SHUTDOWN", flags).tq
    /\ UNCHANGED <<rx, host, app, bad, gen, written, taken, dropped, extra>>

(* An established connection is shut down and waits for the host's reset;  *)
(* one whose request fails is not waited for.                              *)
virtio_vsock_close_common ==
    LET s == send_control(conn, "SHUTDOWN", {"RCV", "SEND"}) IN
    /\ conn.state = "ESTABLISHED"
    /\ tq' = s.tq
    /\ \/ /\ s.sent
          /\ conn' = [conn EXCEPT !.state = "CLOSING"]
          /\ apc' = "closing"
          /\ UNCHANGED <<written, taken>>
       \/ ~s.sent /\ remove_connection /\ UNCHANGED apc

(* Any other connection is removed at once.                                *)
virtio_vsock_close ==
    /\ apc = "idle" /\ conn.open
    /\ \/ virtio_vsock_close_common
       \/ conn.state # "ESTABLISHED" /\ remove_connection /\ UNCHANGED <<tq, apc>>
    /\ UNCHANGED <<rx, host, left, bad, gen, dropped, extra, ops>>

CloseDone ==
    /\ apc = "closing" /\ conn.state = "CLOSE"
    /\ apc' = "idle"
    /\ remove_connection
    /\ UNCHANGED <<tq, rx, host, left, bad, gen, dropped, extra, ops>>

CloseTimesOut ==
    /\ apc = "closing" /\ conn.state = "CLOSING"
    /\ apc' = "idle"
    /\ remove_connection
    /\ UNCHANGED <<tq, rx, host, left, bad, gen, dropped, extra, ops>>

------------------------------------------------------------------------------
(* process_virtio_vsock_queues.  The helper and every thread that looks at *)
(* a socket run it, each free to be delayed between its parts: packets are *)
(* received one by one under the receive lock, and the transmit queue is   *)
(* seen to at any time.                                                    *)

(* A good packet leaves c and q; a bad one is answered with a reset, but   *)
(* not if it is a reset itself.                                            *)
Good(c, q) ==
    /\ conn' = c /\ tq' = q
    /\ UNCHANGED <<bad, dropped>>

Neglect(c) ==
    /\ conn' = c
    /\ bad' = Head(rx)
    /\ UNCHANGED tq

(* Slip: credit is returned when the packet is queued, not when it is read. *)
recv_rw_packet_eager(in, c) ==
    \/ /\ Len(c.packets) < MaxPackets
       /\ Good([c EXCEPT !.packets = Append(@, in), !.fwd_cnt = Plus(@, in.size)], tq)
    \/ /\ Len(c.packets) >= MaxPackets
       /\ Neglect(c)
       /\ dropped' = TRUE

(* Slip: the ring is taken for full with one place left.                    *)
recv_rw_packet_gap(in, c) ==
    \/ /\ Len(c.packets) + 1 < MaxPackets
       /\ Good([c EXCEPT !.packets = Append(@, in)], tq)
    \/ /\ Len(c.packets) + 1 >= MaxPackets
       /\ Neglect(c)
       /\ dropped' = TRUE

recv_rw_packet(in, c) ==
    \/ /\ Len(c.packets) < MaxPackets
       /\ Good([c EXCEPT !.packets = Append(@, in)], tq)
    \/ /\ Len(c.packets) >= MaxPackets
       /\ Neglect(c)
       /\ dropped' = TRUE

(* process_packet for a connection in state ESTABLISHED.                   *)
Established(in, c) ==
    \/ /\ in.op = "RW"
       /\ \/ c.recv_disallowed /\ Good(c, tq)
          \/ ~c.recv_disallowed /\ recv_rw_packet(in, c)
    \/ /\ in.op = "CREDIT_REQUEST"
       /\ LET s == send_control(c, "CREDIT_UPDATE", {}) IN
          \/ s.sent /\ Good(c, s.tq)
          \/ ~s.sent /\ Neglect(c) /\ UNCHANGED dropped
    \/ /\ in.op = "CREDIT_UPDATE"
       /\ Good(c, tq)
    \/ /\ in.op = "SHUTDOWN"
       /\ LET d == [c EXCEPT !.send_disallowed = @ \/ "RCV" \in in.flags,
                             !.recv_disallowed = @ \/ "SEND" \in in.flags] IN
          Good(d, IF d.recv_disallowed /\ d.send_disallowed
                     THEN send_control(d, "RST", {}).tq ELSE tq)
    \/ /\ in.op = "RST"
       /\ Good(IF c.recv_disallowed /\ c.send_disallowed THEN c ELSE cleanup_connection(c), tq)
    \/ /\ in.op \in {"REQUEST", "RESPONSE"}
       /\ Neglect(c) /\ UNCHANGED dropped

(* process_packet: the ports find the connection, whose view of the host's *)
(* credit is updated whatever the packet is.                               *)
process_packet ==
    LET in == Head(rx)
        c  == [conn EXCEPT !.peer_fwd_cnt = in.fwd_cnt, !.peer_buf_alloc = in.buf_alloc]
        Refuse(d) == IF in.op = "RST" THEN Good(d, tq) ELSE Neglect(d) /\ UNCHANGED dropped
    IN
    /\ rx # <<>> /\ bad = NoPacket /\ ConnectionsLockFree
    /\ rx' = Tail(rx)
    /\ \/ ~(conn.open /\ conn.ported) /\ Refuse(conn)
       \/ /\ conn.open /\ conn.ported
          /\ \/ /\ conn.state = "CONNECT"
                /\ IF in.op = "RESPONSE" THEN Good([c EXCEPT !.state = "ESTABLISHED"], tq)
                   ELSE Refuse(IF in.op = "RST" THEN cleanup_connection(c) ELSE c)
             \/ /\ conn.state = "ESTABLISHED"
                /\ Established(in, c)
             \/ /\ conn.state = "CLOSING"
                /\ Good(IF in.op = "RST" THEN cleanup_connection(c) ELSE c, tq)
             \/ /\ conn.state = "CLOSE"
                /\ Refuse(c)
    /\ UNCHANGED <<host, app, gen, written, taken, extra, ops>>

(* neglect_packet, after the connections lock was dropped.                 *)
neglect_packet ==
    /\ bad # NoPacket
    /\ tq' = copy_into_tq_or_add_to_pending(tq,
                 [op |-> "RST", gen |-> bad.gen, first |-> 0, size |-> 0, flags |-> {},
                  fwd_cnt |-> 0, buf_alloc |-> 0]).tq
    /\ bad' = NoPacket
    /\ UNCHANGED <<conn, rx, host, app, hist>>

(* cleanup_tq, then the pending control packets.                           *)
PollTransmit ==
    /\ tq.completed # <<>> \/ tq.pending # <<>>
    /\ tq' = send_pending_tq_control_packets(cleanup_tq(tq))
    /\ tq' # tq
    /\ UNCHANGED <<conn, rx, host, app, bad, hist>>

------------------------------------------------------------------------------
(* The host: a vhost-vsock device and a socket that keeps to the protocol. *)

ToGuest(h, op, first, size, flags) ==
    [op |-> op, gen |-> h.gen, first |-> first, size |-> size, flags |-> flags,
     fwd_cnt |-> h.consumed % Mod, buf_alloc |-> HostBuf]

Reset(in) == [op |-> "RST", gen |-> in.gen, first |-> 0, size |-> 0, flags |-> {},
              fwd_cnt |-> 0, buf_alloc |-> 0]

(* A connection request that is not accepted is reset; what finds no       *)
(* socket is reset unless it is a reset; a complete shutdown is answered   *)
(* with a reset and forgotten.                                             *)
HostReceives(in) ==
    LET h == [host EXCEPT !.fwd_cnt = in.fwd_cnt, !.buf_alloc = in.buf_alloc] IN
    \/ /\ ~host.open /\ in.op = "REQUEST"
       /\ LET n == [NoHost EXCEPT !.open = TRUE, !.gen = in.gen,
                                  !.fwd_cnt = in.fwd_cnt, !.buf_alloc = in.buf_alloc] IN
          \/ host' = n /\ rx' = Append(rx, ToGuest(n, "RESPONSE", 0, 0, {}))
          \/ rx' = Append(rx, Reset(in)) /\ UNCHANGED host
    \/ /\ ~host.open /\ in.op # "REQUEST"
       /\ rx' = IF in.op = "RST" THEN rx ELSE Append(rx, Reset(in))
       /\ UNCHANGED host
    \/ /\ host.open /\ in.op = "RST"
       /\ host' = NoHost
       /\ UNCHANGED rx
    \/ /\ host.open /\ in.op = "SHUTDOWN"
       /\ IF host.shut \cup in.flags = {"RCV", "SEND"}
          THEN host' = NoHost /\ rx' = Append(rx, Reset(in))
          ELSE host' = [h EXCEPT !.shut = @ \cup in.flags] /\ UNCHANGED rx
    \/ /\ host.open /\ in.op = "RW"
       /\ host' = [h EXCEPT !.received = @ + in.size]
       /\ UNCHANGED rx
    \/ /\ host.open /\ in.op \in {"CREDIT_UPDATE", "REQUEST"}
       /\ host' = h
       /\ UNCHANGED rx

HostTakes ==
    /\ tq.avail # <<>>
    /\ HostReceives(Head(tq.avail).packet)
    /\ tq' = [tq EXCEPT !.avail = Tail(@), !.completed = Append(@, Head(tq.avail).id)]
    /\ UNCHANGED <<conn, app, bad, hist>>

HostCredit == host.buf_alloc - Minus(host.sent, host.fwd_cnt)

HostSends(size) ==
    /\ host.open /\ ~host.closing /\ "RCV" \notin host.shut
    /\ size <= HostCredit /\ host.sent + size <= MaxHost
    /\ rx' = Append(rx, ToGuest(host, "RW", host.sent + 1, size, {}))
    /\ host' = [host EXCEPT !.sent = @ + size]
    /\ UNCHANGED <<conn, tq, app, bad, hist>>

(* The host's application reads, and the guest is told.                    *)
HostReads ==
    /\ host.open /\ ~host.closing /\ host.consumed < host.received
    /\ host' = [host EXCEPT !.consumed = host.received]
    /\ rx' = Append(rx, ToGuest(host', "CREDIT_UPDATE", 0, 0, {}))
    /\ UNCHANGED <<conn, tq, app, bad, hist>>

HostExtra ==
    /\ host.open /\ extra < MaxExtra
    /\ extra' = extra + 1
    /\ \/ rx' = Append(rx, ToGuest(host, "CREDIT_REQUEST", 0, 0, {})) /\ UNCHANGED host
       \/ /\ ~host.closing
          /\ rx' = Append(rx, ToGuest(host, "SHUTDOWN", 0, 0, {"RCV", "SEND"}))
          /\ host' = [host EXCEPT !.closing = TRUE]
       \/ /\ rx' = Append(rx, ToGuest(host, "RST", 0, 0, {}))
          /\ host' = NoHost
    /\ UNCHANGED <<conn, tq, app, bad, gen, written, taken, dropped, ops>>

------------------------------------------------------------------------------
Application ==
    \/ virtio_vsock_socket \/ virtio_vsock_connect \/ ConnectDone \/ ConnectTimesOut
    \/ (\E n \in WriteLens : virtio_vsock_write(n)) \/ WritePacket
    \/ (\E n \in ReadLens : virtio_vsock_read(n))
    \/ (\E f \in Flags \ {{}} : virtio_vsock_shutdown(f))
    \/ virtio_vsock_close \/ CloseDone \/ CloseTimesOut

Next ==
    \/ Application
    \/ process_packet \/ neglect_packet \/ PollTransmit
    \/ HostTakes \/ (\E n \in HostSizes : HostSends(n)) \/ HostReads \/ HostExtra

Spec == Init /\ [][Next]_vars

------------------------------------------------------------------------------
(* Properties.                                                             *)

(* The two ends of the same incarnation, both open.                        *)
Together == conn.open /\ conn.used /\ conn.state = "ESTABLISHED"
            /\ host.open /\ host.gen = gen

Data(g, p) == p.op = "RW" /\ p.gen = g

End(p) == p.first + p.size - 1

(* The bytes from a + 1 to b of incarnation g are in these packets, once   *)
(* and in order: each data packet continues the one before it.             *)
Chain(g, packets, a, b) ==
    LET D == {i \in DOMAIN packets : Data(g, packets[i])} IN
    /\ D = {} => a = b
    /\ \A j \in D :
          /\ (\A i \in D : i >= j) => packets[j].first = a + 1
          /\ \A i \in D : i < j /\ (\A k \in D : k <= i \/ k >= j)
                => packets[j].first = End(packets[i]) + 1
          /\ (\A i \in D : i <= j) => End(packets[j]) = b

(* The last byte the connection has accepted.                              *)
Accepted == IF conn.packets = <<>> THEN taken ELSE End(conn.packets[Len(conn.packets)])

(* The packets the device has not taken.                                   *)
Offered(q) == [i \in DOMAIN q.avail |-> q.avail[i].packet]

(* The bytes of a connection arrive in order in both directions, through   *)
(* packets, partial reads and writes cut short by credit or a full queue.  *)
BytesInOrder ==
    Together =>
        /\ ~conn.recv_disallowed => /\ Chain(gen, conn.packets, taken, Accepted)
                                    /\ Chain(gen, rx, Accepted, host.sent)
        /\ Chain(gen, Offered(tq), host.received, written)

(* The guest keeps to the host's credit: what is on its way or not read by *)
(* the host's application fits the buffer the host announced.              *)
HostNotOverrun == Together => written - host.consumed <= HostBuf

(* The credit the guest reports holds, in bytes: a host that keeps to it    *)
(* never has more than buf_alloc sent and not read by the application,      *)
(* whatever the sizes of its packets and whichever control packets were     *)
(* kept pending and overtaken.  Stated until the counters first wrap: a     *)
(* credit update that is overtaken by a whole turn of them is taken for a   *)
(* later one.                                                               *)
GuestNotOverrun ==
    Together /\ host.sent < Mod => host.sent - taken <= BufAlloc

(* A host that keeps to the guest's credit loses nothing: no data packet   *)
(* finds the connection's packet ring full.                                *)
NothingDropped == ~dropped

(* The list of free descriptors holds each descriptor the device does not  *)
(* have, once, and no completion is taken for a double one.                *)
FreeListExact ==
    LET walk[n \in 0 .. TqSize] ==
            CASE n = 0 -> tq.free
              [] n > 0 /\ walk[n - 1] = TqSize -> TqSize
              [] OTHER -> tq.next[walk[n - 1]]
        device == [i \in DOMAIN tq.avail |-> tq.avail[i].id] \o tq.completed
    IN
    /\ ~tq.refused
    /\ walk[TqSize] = TqSize
    /\ Range(walk) = (0 .. TqSize) \ Range(device)
    /\ IsInjective(device)
==============================================================================
