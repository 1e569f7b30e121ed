------------------------------ MODULE VbtPeerIO ------------------------------
(***************************************************************************)
(* The byte stream from the hub to one node: the hub's non-blocking writes *)
(* and its backlog (peer_send, peer_flush), the kernel's socket buffer,    *)
(* and the reassembly of length-prefixed messages at the node              *)
(* (medium_readable).  Byte j of frame k is <<k, j>>; the first byte       *)
(* stands for the length prefix.  Frames are numbered in the order the hub *)
(* forwards them.                                                          *)
(***************************************************************************)
EXTENDS Integers, Sequences, Functions

CONSTANTS
  SizeOf(_),   \* bytes of frame k, its length prefix included
  MaxSize,     \* 4 + VBT_MAX_MSG_SIZE
  SendBuf,     \* SEND_BUF_SIZE
  RxBuf,       \* VBT_RXBUF_SIZE
  WireCap      \* bytes the kernel holds for the reader

ASSUME PeerIOAssumption ==
  /\ MaxSize \in Nat \ {0} /\ SendBuf \in Nat /\ RxBuf \in Nat /\ WireCap \in Nat \ {0}
  /\ MaxSize <= SendBuf      \* the rest of one frame always fits an empty backlog
  /\ RxBuf = MaxSize         \* vbt.h: VBT_RXBUF_SIZE is 4 + header + VBT_MAX_PDU_SIZE

Smaller(a, b) == IF a < b THEN a ELSE b
Bytes(k)      == [j \in 1 .. SizeOf(k) |-> <<k, j>>]
Upto(s, n)    == SubSeq(s, 1, n)
From(s, n)    == SubSeq(s, n, Len(s))
Last(s)       == s[Len(s)]

\* A write loop that ends with EAGAIN: the kernel has taken what it has room for.
Accepted(wire, data) == Smaller(WireCap - Len(wire), Len(data))

\* The hub's half of a stream: the socket buffer, outbuf and want_write.
\* Mutants: the backlog is bypassed; POLLOUT is not asked for.
peer_send_Bypass(io, data) ==
  LET n == Accepted(io.wire, data)
  IN  [wire |-> io.wire \o Upto(data, n),
       outbuf |-> IF Len(io.outbuf) + Len(data) - n > SendBuf THEN io.outbuf
                  ELSE io.outbuf \o From(data, n + 1), want_write |-> TRUE]
peer_send_NoPollout(io, data) ==
  LET n == IF io.outbuf = <<>> THEN Accepted(io.wire, data) ELSE 0
  IN  [wire |-> io.wire \o Upto(data, n),
       outbuf |-> IF Len(io.outbuf) + Len(data) - n > SendBuf THEN io.outbuf
                  ELSE io.outbuf \o From(data, n + 1), want_write |-> io.want_write]

\* A direct write is tried only when nothing is buffered.  A frame that overflows
\* the backlog is dropped whole and the peer kept.
peer_send(io, data) ==
  LET n    == IF io.outbuf = <<>> THEN Accepted(io.wire, data) ELSE 0
      rest == From(data, n + 1)
  IN  IF rest = <<>> \/ Len(io.outbuf) + Len(rest) > SendBuf
      THEN [io EXCEPT !.wire = @ \o Upto(data, n)]
      ELSE [wire |-> io.wire \o Upto(data, n), outbuf |-> io.outbuf \o rest,
            want_write |-> TRUE]

peer_flush(io) ==
  LET n    == Accepted(io.wire, io.outbuf)
      rest == From(io.outbuf, n + 1)
  IN  [wire |-> io.wire \o Upto(io.outbuf, n), outbuf |-> rest, want_write |-> rest # <<>>]

\* The length a byte announces when it is taken for a prefix.  A byte from the
\* middle of a frame reads as more than VBT_MAX_MSG_SIZE.
Announced(byte) == IF byte[2] = 1 THEN SizeOf(byte[1]) ELSE MaxSize + 1

\* Mutant: a message is handed on when the first byte of the next one is there.
parse_Late(buf) ==
  LET loop[i \in 1 .. Len(buf) + 1] ==
        LET n == Announced(buf[i])
        IN  IF i > Len(buf) THEN [rest |-> <<>>, got |-> <<>>]
            ELSE IF n > MaxSize THEN [rest |-> <<>>, got |-> <<>>]
            ELSE IF i + n > Len(buf) THEN [rest |-> From(buf, i), got |-> <<>>]
            ELSE [loop[i + n] EXCEPT !.got = <<buf[i][1]>> \o @]
  IN  loop[1]

\* The loop over complete messages: got are the frames handed to the core.
parse(buf) ==
  LET loop[i \in 1 .. Len(buf) + 1] ==
        LET n == Announced(buf[i])
        IN  IF i > Len(buf) THEN [rest |-> <<>>, got |-> <<>>]
            ELSE IF n > MaxSize THEN [rest |-> <<>>, got |-> <<>>]
            ELSE IF i + n - 1 > Len(buf) THEN [rest |-> From(buf, i), got |-> <<>>]
            ELSE [loop[i + n] EXCEPT !.got = <<buf[i][1]>> \o @]
  IN  loop[1]

\* One read: what is left of rxbuf is filled from the socket; a full rxbuf would be
\* thrown away first.
medium_readable(rxbuf, wire) ==
  LET kept == IF Len(rxbuf) >= RxBuf THEN <<>> ELSE rxbuf
      n    == Smaller(RxBuf - Len(kept), Len(wire))
      p    == parse(kept \o Upto(wire, n))
  IN  [rxbuf |-> p.rest, wire |-> From(wire, n + 1), got |-> p.got]

\* The frames of a stream whose last byte is in it.
Whole(bytes) == {b[1] : b \in {c \in Range(bytes) : c[2] = SizeOf(c[1])}}

\* Is bytes a run of whole frames in increasing order, the last one perhaps cut?
Framed(bytes) ==
  /\ bytes # <<>> => bytes[1][2] = 1
  /\ \A i \in 1 .. Len(bytes) - 1 :
       IF bytes[i][2] < SizeOf(bytes[i][1])
       THEN bytes[i + 1] = <<bytes[i][1], bytes[i][2] + 1>>
       ELSE bytes[i + 1][2] = 1 /\ bytes[i + 1][1] > bytes[i][1]
=============================================================================
