---------------------------- MODULE VbtTransport -----------------------------
(***************************************************************************)
(* A node's transport glue between the hub's stream and its host, in the   *)
(* three forms the repository has:                                         *)
(*   vhci    vbt_controller.c: events are written to /dev/vhci             *)
(*   vhost   vbt_vhost_user.c: events wait in pending[] for guest buffers; *)
(*           the process serves one QEMU connection after the other        *)
(*   virtio  src/vbt_virtio.c: the same queue inside QEMU; reconnects are  *)
(*           driven by a timer                                             *)
(* The core in the middle (VbtLL) is reduced to what it calls back: per    *)
(* call some HCI packets for the host and perhaps a PDU for the medium.    *)
(* HCI packets are numbered in the order the core emits them.              *)
(*   io      the hub's end of the socket (VbtPeerIO), rxbuf the node's     *)
(*   sock    "up"; "eof": the hub's end is closed; "dead": the node's end  *)
(*           is closed and the hub has not noticed; "down": both           *)
(*   q       the queue towards the guest, with the buffers the guest gave  *)
(***************************************************************************)
EXTENDS VbtPeerIO, FiniteSets, FiniteSetsExt

CONSTANTS
  Kinds,        \* the transports to consider, of {"vhci", "vhost", "virtio"}
  PendingMax,   \* PENDING_MAX
  Wrap,         \* 2^32: pend_head and pend_tail are uint32_t
  MaxBufs,      \* RX buffers a guest keeps posted
  CallEvents,   \* numbers of HCI packets one call of the core may emit
  MaxFrames,    \* bound: frames the hub forwards to the node
  MaxEvents,    \* bound: HCI packets the core emits
  MaxFaults     \* bound: crashes, resets and disconnections

ASSUME TransportAssumption ==
  /\ Kinds \subseteq {"vhci", "vhost", "virtio"}
  /\ PendingMax \in Nat \ {0} /\ Wrap \in Nat /\ Wrap > PendingMax
  /\ Wrap % PendingMax = 0        \* 256 divides 2^32
  /\ CallEvents \subseteq Nat
  /\ MaxFrames \in Nat /\ \A k \in 1 .. MaxFrames : SizeOf(k) \in 1 .. MaxSize

VARIABLES
  kind, hub, sock, io, rxbuf,
  timer,     \* virtio: is the reconnect timer armed?
  failed,    \* did a failed write close the node's socket?
  serving,   \* vhost: is a QEMU connected?  (else TRUE)
  q,
  sent,      \* frames the hub has forwarded
  got,       \* the last frame handed to the core
  cuts,      \* flips when bytes of the stream are lost
  emitted,   \* HCI packets emitted
  resets,    \* flips when the queue is emptied
  faults

stream == <<sock, io, rxbuf, failed, sent, got, cuts>>
guest  == <<serving, q, emitted, resets>>
vars   == <<kind, hub, timer, faults, stream, guest>>

Fresh == [wire |-> <<>>, outbuf |-> <<>>, want_write |-> FALSE]
EmptyQueue(counter, ready, seen) ==
  [slot |-> [i \in 0 .. PendingMax - 1 |-> 0], head |-> counter, tail |-> counter,
   bufs |-> 0, ready |-> ready, seen |-> seen]

\* A device at its start, or after so many packets that the counters are about to wrap.
Init ==
  /\ kind \in Kinds /\ hub = TRUE /\ sock = "down" /\ io = Fresh /\ rxbuf = <<>>
  /\ timer = (kind = "virtio") /\ failed = FALSE /\ serving = (kind # "vhost")
  /\ \E c \in IF kind = "virtio" THEN {0, Wrap - 1} ELSE {0} :
       q = EmptyQueue(c, kind # "vhost", 0)
  /\ sent = 0 /\ got = 0 /\ cuts = FALSE /\ emitted = 0 /\ resets = FALSE /\ faults = 0

Fault == faults < MaxFaults /\ faults' = faults + 1

-----------------------------------------------------------------------------
(* The queue towards the guest *)

Backlog(d) == (d.tail - d.head) % Wrap
Waiting(d) == [i \in 1 .. Backlog(d) |-> d.slot[((d.head + i - 1) % Wrap) % PendingMax]]

flush_pending(d) ==
  LET n == IF d.ready THEN Smaller(Backlog(d), d.bufs) ELSE 0
  IN  [d EXCEPT !.head = (@ + n) % Wrap, !.bufs = @ - n,
                !.seen = IF n = 0 THEN @ ELSE Waiting(d)[n]]

\* Mutant: the limit compares the counters as signed numbers.
cb_hci_to_host_Signed(d, e) ==
  IF kind = "vhci" THEN [d EXCEPT !.seen = e]
  ELSE IF d.tail - d.head >= PendingMax THEN d
  ELSE flush_pending([d EXCEPT !.slot[d.tail % PendingMax] = e, !.tail = (@ + 1) % Wrap])

\* A packet that finds the queue full is dropped.
cb_hci_to_host(d, e) ==
  IF kind = "vhci" THEN [d EXCEPT !.seen = e]
  ELSE IF Backlog(d) >= PendingMax THEN d
  ELSE flush_pending([d EXCEPT !.slot[d.tail % PendingMax] = e, !.tail = (@ + 1) % Wrap])

\* Packets e + 1 .. e + n, handed on one after the other.
HandOn(d, e, n) ==
  MapThenFoldSet(LAMBDA k, queue : cb_hci_to_host(queue, k), d, LAMBDA i : e + i, Max, 1 .. n)

\* The core emits n packets.
Emit(n) ==
  /\ emitted + n <= MaxEvents
  /\ emitted' = emitted + n
  /\ q' = HandOn(q, emitted, n)

\* The core sends a PDU (if pdu), with wire still to be read: on a socket whose other
\* end is closed the write fails and the socket is closed; no timer is armed.
cb_pdu_to_medium(pdu, wire) ==
  IF pdu /\ sock = "eof"
  THEN sock' = "down" /\ failed' = TRUE /\ io' = Fresh /\ cuts' = ~cuts
  ELSE io' = [io EXCEPT !.wire = wire] /\ UNCHANGED <<sock, failed, cuts>>

-----------------------------------------------------------------------------
(* The hub *)

\* forward_frame delivers a frame to this peer.  A hard error closes it.
Forward ==
  /\ hub /\ sock \in {"up", "dead"} /\ sent < MaxFrames
  /\ sent' = sent + 1
  /\ IF sock = "up"
     THEN io' = peer_send(io, Bytes(sent')) /\ UNCHANGED <<sock, cuts>>
     ELSE /\ cuts' = ~cuts
          /\ IF io.outbuf = <<>> THEN sock' = "down" /\ io' = Fresh
             ELSE sock' = sock /\ io' = peer_send(io, Bytes(sent'))
  /\ UNCHANGED <<kind, hub, timer, faults, guest, rxbuf, got, failed>>

\* POLLOUT
Flush ==
  /\ hub /\ sock = "up" /\ io.want_write /\ Len(io.wire) < WireCap
  /\ io' = peer_flush(io)
  /\ UNCHANGED <<kind, hub, timer, faults, guest, sock, rxbuf, sent, got, cuts, failed>>

\* POLLHUP
HubCloses ==
  /\ hub /\ sock = "dead"
  /\ sock' = "down" /\ io' = Fresh
  /\ UNCHANGED <<kind, hub, timer, faults, guest, rxbuf, sent, got, cuts, failed>>

HubDies ==
  /\ hub /\ Fault
  /\ hub' = FALSE
  /\ sock' = IF sock = "up" THEN "eof" ELSE IF sock = "dead" THEN "down" ELSE sock
  /\ io' = [Fresh EXCEPT !.wire = io.wire]
  /\ cuts' = ~cuts
  /\ UNCHANGED <<kind, timer, guest, rxbuf, sent, got, failed>>

HubStarts ==
  /\ ~hub /\ hub' = TRUE
  /\ UNCHANGED <<kind, timer, faults, stream, guest>>

-----------------------------------------------------------------------------
(* The node *)

HasMedium == sock \in {"up", "eof"}

MediumRead ==
  /\ serving /\ HasMedium /\ io.wire # <<>>
  /\ LET r == medium_readable(rxbuf, io.wire)
     IN  \E pdu \in IF r.got = <<>> THEN {FALSE} ELSE BOOLEAN,
            n \in IF r.got = <<>> THEN {0} ELSE CallEvents :
           /\ Emit(n)
           /\ rxbuf' = r.rxbuf
           /\ got' = IF r.got = <<>> THEN got ELSE Last(r.got)
           /\ cb_pdu_to_medium(pdu, r.wire)
  /\ UNCHANGED <<kind, hub, timer, faults, sent, serving, resets>>

\* Mutant: nothing is scheduled.
schedule_reconnect_None(armed) == armed

schedule_reconnect(armed) == armed \/ kind = "virtio"

\* End of file: only virtio schedules a reconnect, the loops of the others poll for it.
MediumEof ==
  /\ serving /\ sock = "eof" /\ io.wire = <<>>
  /\ sock' = "down"
  /\ timer' = schedule_reconnect(timer)
  /\ rxbuf' = IF kind = "virtio" THEN <<>> ELSE rxbuf
  /\ UNCHANGED <<kind, hub, faults, guest, io, sent, got, cuts, failed>>

\* Mutant: what was read of a message from the old socket is kept.
connect_medium_Keep(rx) == rx

\* rxused after a successful connect
connect_medium(rx) == <<>>

\* A failed attempt is repeated MEDIUM_RECONNECT_MS later.
Reconnect ==
  /\ serving /\ ~HasMedium /\ hub
  /\ kind = "virtio" => timer
  /\ sock' = "up" /\ timer' = FALSE /\ failed' = FALSE /\ io' = Fresh
  /\ rxbuf' = connect_medium(rxbuf)
  /\ UNCHANGED <<kind, hub, faults, guest, sent, got, cuts>>

\* An HCI packet from the host (handle_tx, vhci_readable).
HostTx ==
  /\ serving /\ q.ready
  /\ \E n \in CallEvents \ {0}, pdu \in BOOLEAN : Emit(n) /\ cb_pdu_to_medium(pdu, io.wire)
  /\ UNCHANGED <<kind, hub, timer, faults, rxbuf, sent, got, serving, resets>>

\* Mutant: the tick does not look at the queue.
Tick_flush_None(d) == d

\* The tick retries the queue where there is one.
Tick_flush(d) == IF kind = "vhci" THEN d ELSE flush_pending(d)

Tick ==
  /\ serving
  /\ q' = Tick_flush(q)
  /\ \E pdu \in BOOLEAN : cb_pdu_to_medium(pdu, io.wire)
  /\ UNCHANGED <<kind, hub, timer, faults, rxbuf, sent, got, serving, emitted, resets>>

\* The guest posts an RX buffer, and the device gets to hear of it (handle_rx).
GuestPosts ==
  /\ kind # "vhci" /\ serving /\ q.ready /\ q.bufs < MaxBufs
  /\ q' = [q EXCEPT !.bufs = @ + 1]
  /\ UNCHANGED <<kind, hub, timer, faults, stream, serving, emitted, resets>>

HandleRx ==
  /\ kind # "vhci" /\ serving
  /\ q' = flush_pending(q)
  /\ UNCHANGED <<kind, hub, timer, faults, stream, serving, emitted, resets>>

Emptied(ready) == EmptyQueue(0, ready, q.seen)

\* serve_connection
QemuConnects ==
  /\ ~serving
  /\ serving' = TRUE /\ q' = Emptied(FALSE) /\ resets' = ~resets
  /\ UNCHANGED <<kind, hub, timer, faults, stream, emitted>>

\* queue_set_started for the RX queue
QueueStarts ==
  /\ kind = "vhost" /\ serving /\ ~q.ready
  /\ q' = [q EXCEPT !.ready = TRUE]
  /\ UNCHANGED <<kind, hub, timer, faults, stream, serving, emitted, resets>>

\* The process goes back to accept; the core, its medium socket and the queue stay.
QemuDisconnects ==
  /\ kind = "vhost" /\ serving /\ Fault
  /\ serving' = FALSE /\ q' = [q EXCEPT !.ready = FALSE, !.bufs = 0]
  /\ UNCHANGED <<kind, hub, timer, stream, emitted, resets>>

\* virtio_bt_reset
DeviceReset ==
  /\ kind = "virtio" /\ Fault
  /\ q' = Emptied(TRUE) /\ resets' = ~resets
  /\ UNCHANGED <<kind, hub, timer, stream, serving, emitted>>

\* The process is killed and started again.
NodeRestarts ==
  /\ Fault
  /\ sock' = IF sock = "up" THEN "dead" ELSE IF sock = "eof" THEN "down" ELSE sock
  /\ io' = [io EXCEPT !.wire = <<>>] /\ rxbuf' = <<>> /\ cuts' = ~cuts
  /\ timer' = (kind = "virtio") /\ failed' = FALSE /\ serving' = (kind # "vhost")
  /\ q' = Emptied(kind # "vhost") /\ resets' = ~resets
  /\ UNCHANGED <<kind, hub, sent, got, emitted>>

-----------------------------------------------------------------------------
Next ==
  \/ Forward \/ Flush \/ HubCloses \/ HubDies \/ HubStarts
  \/ MediumRead \/ MediumEof \/ Reconnect \/ HostTx \/ Tick
  \/ GuestPosts \/ HandleRx \/ QemuConnects \/ QueueStarts \/ QemuDisconnects
  \/ DeviceReset \/ NodeRestarts

\* The hub's poll loop and the node's loop or timers go on; what each has to do for
\* this socket is one thing at a time.  Hosts, guests and QEMU owe nothing.
HubLoop    == Flush \/ HubCloses
MediumLoop == MediumRead \/ MediumEof \/ Reconnect
Fairness   == WF_vars(HubLoop) /\ WF_vars(MediumLoop) /\ WF_vars(Tick)

Spec == Init /\ [][Next]_vars /\ Fairness

-----------------------------------------------------------------------------
(* Properties *)

InFlight == IF HasMedium THEN rxbuf \o io.wire \o io.outbuf ELSE <<>>

\* Partial writes, a full backlog and reconnects never put the reader out of step:
\* what is read, in the kernel and in the backlog is a run of whole frames, and only
\* the hub's death cuts one.
StreamIsFramed ==
  LET bytes == InFlight
  IN  /\ Framed(bytes)
      /\ bytes # <<>> /\ sock = "up" => Last(bytes)[2] = SizeOf(Last(bytes)[1])

\* medium_readable never leaves rxbuf full, so the next read asks for at least one
\* byte and the branch that throws rxbuf away is never taken.
ReadHasRoom == Len(rxbuf) < RxBuf

\* The stream implements the lossy queue: a frame is dropped whole, and only while
\* the backlog holds as many frames as SEND_BUF_SIZE guarantees.
StreamFifo == INSTANCE VbtFifo WITH
  Room    <- (SendBuf - MaxSize) \div MaxSize + 1,
  queue   <- Whole(InFlight),
  offered <- sent,
  taken   <- got,
  cuts    <- cuts
StreamIsFifo == StreamFifo!Spec

\* The queue towards the guest implements it too: order is kept across the wrap of
\* the counters, and a packet is dropped only behind PENDING_MAX others.
GuestFifo == INSTANCE VbtFifo WITH
  Room    <- PendingMax,
  queue   <- Range(Waiting(q)),
  offered <- emitted,
  taken   <- q.seen,
  cuts    <- resets
GuestQueueIsFifo == GuestFifo!Spec

\* A backlog drains: frames under way reach the core, or the stream breaks, as long
\* as the node's process is not waiting for a QEMU.
StreamDrains == (Whole(InFlight) # {}) ~> (Whole(InFlight) = {} \/ ~serving)

\* A packet waits for the guest only: once the guest has given a buffer the device
\* uses it, even if the notification was lost.
BuffersAreUsed ==
  (Backlog(q) > 0 /\ q.bufs > 0 /\ q.ready) ~> (Backlog(q) = 0 \/ q.bufs = 0 \/ ~q.ready)

\* A node that lost the hub comes back once the hub runs: by its loop, or by the timer
\* that the end of file armed (virtio: unless a failed write closed the socket).
Reconnects ==
  (~HasMedium /\ hub /\ serving /\ ~(kind = "virtio" /\ failed))
    ~> (HasMedium \/ ~hub \/ ~serving)
=============================================================================
