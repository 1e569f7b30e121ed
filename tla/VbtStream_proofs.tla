-------------------------- MODULE VbtStream_proofs --------------------------
(***************************************************************************)
(* The stream between a hub and a core: that at every moment the bytes in  *)
(* the receive buffer, on the wire and in the backlog are frames in the    *)
(* order in which they were sent, of which only the last of a stream that  *)
(* has ended may be incomplete (StreamInv), and that every step of the     *)
(* transport is a step of VbtFifo, which may lose frames and never         *)
(* reorders, repeats or invents one.                                       *)
(***************************************************************************)
EXTENDS VbtFraming_proofs

-----------------------------------------------------------------------------
(* The stream implements VbtFifo *)

\* What is on its way to the core, in order.
Flow(rx, o) == Cat(rx, Pipe(o))

\* A stream of frames up to the n-th, and one whose last frame is complete.
Sound(s, n) == s \in Seq(Byte) /\ Framed(s) /\ \A i \in 1 .. Len(s) : At(s, i) <= n
Complete(s) == Len(s) # 0 => Ends(s, Len(s))

Open(so) == so \in {"up", "eof"}

\* The socket, the hub's half and rxbuf, after n frames.
StreamOK(so, o, rx, n) ==
  /\ so \in {"up", "eof", "dead", "down"} /\ o \in IO /\ Len(o.wire) <= WireCap
  /\ rx \in Seq(Byte) /\ Len(rx) < RxBuf
  /\ Open(so) => Whole(rx) = {} /\ Sound(Flow(rx, o), n)
  /\ so = "up" => Complete(Flow(rx, o))
  /\ so = "eof" => o.outbuf = <<>>

StreamInv ==
  /\ sent \in Nat /\ sent <= MaxFrames /\ cuts \in BOOLEAN
  /\ StreamOK(sock, io, rxbuf, sent)

\* The frames that wait.
Frames(so, o, rx) == IF Open(so) THEN Whole(Flow(rx, o)) ELSE {}

\* A step of VbtFifo from the frames Q to the frames Qn.
Moves(Q, Qn, acc, R, L) ==
  /\ acc \in SUBSET (sent + 1 .. sent') /\ R \cup L = (Q \cup acc) \ Qn /\ R \cap L = {}
  /\ Qn \subseteq Q \cup acc
  /\ \A i \in R : (\A j \in Qn : i < j) /\ (\A j \in L : i < j)
  /\ \A i \in Qn, j \in L : i < j
  /\ IF R = {} THEN got' = got ELSE got' \in R /\ \A i \in R : i <= got'
  /\ L # {} => cuts' # cuts
  /\ acc # sent + 1 .. sent' => Cardinality(Qn) >= (SendBuf - MaxSize) \div MaxSize + 1

StreamStep ==
  /\ sent' \in Nat /\ sent <= sent' /\ sent' <= MaxFrames /\ cuts' \in BOOLEAN
  /\ StreamOK(sock', io', rxbuf', sent')
  /\ \E acc, R, L : Moves(Frames(sock, io, rxbuf), Frames(sock', io', rxbuf'), acc, R, L)

LEMMA SameSize == \A S : StreamFifo!Cardinality(S) = Cardinality(S)
BY Zenon DEF StreamFifo!Cardinality, Cardinality

LEMMA NothingIsWhole == Whole(<<>>) = {}
<1>1. <<>> \in Seq(Byte) /\ Len(<<>>) = 0
  OBVIOUS
<1> SUFFICES ASSUME NEW x \in Whole(<<>>) PROVE FALSE
  BY Zenon
<1>2. \E i \in 1 .. Len(<<>>) : Ends(<<>>, i) /\ x = At(<<>>, i)
  BY <1>1, WholeFrom, Zenon
<1> QED
  BY <1>1, <1>2

LEMMA FlowIs ==
  ASSUME NEW o \in IO, NEW rx \in Seq(Byte)
  PROVE  /\ Flow(rx, o) = rx \o o.wire \o o.outbuf /\ Flow(rx, o) = Cat(Cat(rx, o.wire), o.outbuf)
         /\ Flow(rx, o) \in Seq(Byte) /\ Len(Flow(rx, o)) = Len(rx) + Len(Pipe(o))
<1>1. o.wire \in Seq(Byte) /\ o.outbuf \in Seq(Byte) /\ Pipe(o) \in Seq(Byte)
  BY PipeIs, Zenon
<1>2. Flow(rx, o) = Cat(Cat(rx, o.wire), o.outbuf)
  BY <1>1, CatAssociates DEF Flow, Pipe
<1>3. Flow(rx, o) = rx \o o.wire \o o.outbuf
  BY <1>2, Zenon DEF Cat
<1>4. Flow(rx, o) \in Seq(Byte) /\ Len(Flow(rx, o)) = Len(rx) + Len(Pipe(o))
  BY <1>1, CatIs, Zenon DEF Flow
<1> QED
  BY <1>2, <1>3, <1>4, Zenon

LEMMA StepRefines ==
  ASSUME StreamInv, StreamStep
  PROVE  StreamInv' /\ StreamFifo!Next
<1> DEFINE Q  == Frames(sock, io, rxbuf)
           Qn == Frames(sock', io', rxbuf')
<1>1. Q = Whole(InFlight)
  <2>1. io \in IO /\ rxbuf \in Seq(Byte)
    BY Zenon DEF StreamInv, StreamOK
  <2> QED
    BY <2>1, FlowIs, NothingIsWhole, Zenon DEF Frames, Open, InFlight, HasMedium
<1>2. Qn = Whole(InFlight)'
  <2>1. io' \in IO /\ rxbuf' \in Seq(Byte)
    BY Zenon DEF StreamStep, StreamOK
  <2>2. Whole(InFlight)' = IF Open(sock') THEN Whole(rxbuf' \o io'.wire \o io'.outbuf) ELSE Whole(<<>>)
    BY Zenon DEF InFlight, HasMedium, Open, Whole
  <2> QED
    BY <2>1, <2>2, FlowIs, NothingIsWhole, Zenon DEF Frames
<1>3. StreamInv'
  <2>1. StreamOK(sock, io, rxbuf, sent)' <=> StreamOK(sock', io', rxbuf', sent')
    BY Zenon DEF StreamOK, IO, Open, Flow, Pipe, Cat, Sound, Complete, Byte, Frame, Ends, At, Place, Size, Whole, Framed
  <2> QED
    BY <2>1, Zenon DEF StreamInv, StreamStep
<1>4. PICK acc, R, L : Moves(Q, Qn, acc, R, L)
  BY Zenon DEF StreamStep
<1> HIDE DEF Q, Qn
<1>5. /\ acc \in SUBSET (sent + 1 .. sent') /\ R \cup L = (Q \cup acc) \ Qn /\ R \cap L = {}
      /\ Qn \subseteq Q \cup acc
  BY <1>4, Zenon DEF Moves
<1>6. R \in SUBSET ((Q \cup acc) \ Qn) /\ ((Q \cup acc) \ Qn) \ R = L /\ Qn = (Q \cup acc) \ (R \cup L)
  BY <1>5, Zenon
<1>7. StreamFifo!Before(R, Qn) /\ StreamFifo!Before(R, L) /\ StreamFifo!Before(Qn, L)
  BY <1>4, Zenon DEF Moves, StreamFifo!Before
<1>8. acc # sent + 1 .. sent' => StreamFifo!Cardinality(Qn) >= (SendBuf - MaxSize) \div MaxSize + 1
  BY <1>4, SameSize, Zenon DEF Moves
<1>9. IF R = {} THEN got' = got ELSE got' \in R /\ \A i \in R : i <= got'
  BY <1>4, Zenon DEF Moves
<1>10. L # {} => cuts' # cuts
  BY <1>4, Zenon DEF Moves
<1>11. StreamFifo!Pass(acc, R, L)
  BY <1>1, <1>2, <1>6, <1>7, <1>8, <1>9, <1>10, Zenon DEF StreamFifo!Pass
<1>12. sent' >= sent /\ cuts' \in BOOLEAN
  BY Zenon DEF StreamInv, StreamStep
<1>13. StreamFifo!Next
  BY <1>1, <1>2, <1>5, <1>6, <1>11, <1>12, Zenon DEF StreamFifo!Next
<1> QED
  BY <1>3, <1>13, Zenon

LEMMA FreshIs ==
  /\ Fresh \in IO /\ Fresh.wire = <<>> /\ Fresh.outbuf = <<>> /\ Len(Fresh.wire) <= WireCap
  /\ Flow(<<>>, Fresh) = <<>>
<1>1. Fresh \in IO /\ Fresh.wire = <<>> /\ Fresh.outbuf = <<>>
  BY DEF Fresh, IO
<1>2. <<>> \in Seq(Byte) /\ Len(<<>>) = 0
  OBVIOUS
<1>3. Cat(<<>>, <<>>) = <<>>
  BY <1>2, CatEmpty, Zenon
<1>4. Len(<<>>) <= WireCap
  BY <1>2, BufferSizes
<1> QED
  BY <1>1, <1>3, <1>4, Zenon DEF Flow, Pipe

LEMMA NothingIsSound ==
  ASSUME NEW n
  PROVE  Sound(<<>>, n) /\ Complete(<<>>) /\ <<>> \in Seq(Byte) /\ Len(<<>>) = 0 /\ Len(<<>>) < RxBuf
<1>1. <<>> \in Seq(Byte) /\ Len(<<>>) = 0 /\ Len(<<>>) < RxBuf
  BY BufferSizes
<1>2. Framed(<<>>)
  <2>1. 1 .. Len(<<>>) - 1 = {}
    BY <1>1
  <2> QED
    BY <2>1, Zenon DEF Framed
<1> QED
  BY <1>1, <1>2 DEF Sound, Complete

\* A socket that is closed.
LEMMA ClosedIs ==
  ASSUME NEW so \in {"dead", "down"}, NEW o \in IO, Len(o.wire) <= WireCap,
         NEW rx \in Seq(Byte), Len(rx) < RxBuf, NEW n
  PROVE  StreamOK(so, o, rx, n) /\ Frames(so, o, rx) = {}
<1>1. ~Open(so) /\ so # "up" /\ so # "eof" /\ so \in {"up", "eof", "dead", "down"}
  BY Zenon DEF Open
<1> QED
  BY <1>1, Zenon DEF StreamOK, Frames

-----------------------------------------------------------------------------
\* A step that moves no frame.
LEMMA StayStep ==
  ASSUME StreamInv, UNCHANGED <<sent, got>>, cuts' \in BOOLEAN,
         StreamOK(sock', io', rxbuf', sent'), Frames(sock', io', rxbuf') = Frames(sock, io, rxbuf)
  PROVE  StreamStep
<1> DEFINE Q == Frames(sock, io, rxbuf)
<1>1. sent \in Nat /\ sent <= sent /\ sent <= MaxFrames /\ sent' = sent /\ got' = got
  BY DEF StreamInv
<1>2. {} = sent + 1 .. sent' /\ {} \in SUBSET (sent + 1 .. sent')
  BY <1>1
<1>3. {} \cup {} = (Q \cup {}) \ Q /\ {} \cap {} = {} /\ Q \subseteq Q \cup {}
  BY Zenon
<1>4. Moves(Q, Q, {}, {}, {})
  BY <1>1, <1>2, <1>3, Zenon DEF Moves
<1> QED
  BY <1>1, <1>4, Zenon DEF StreamStep

\* A step that loses the last frames, perhaps all of them.
LEMMA CutStep ==
  ASSUME StreamInv, UNCHANGED <<sent, got>>, cuts' = ~cuts,
         StreamOK(sock', io', rxbuf', sent'),
         Frames(sock', io', rxbuf') \subseteq Frames(sock, io, rxbuf),
         \A i \in Frames(sock', io', rxbuf'),
            j \in Frames(sock, io, rxbuf) \ Frames(sock', io', rxbuf') : i < j
  PROVE  StreamStep
<1> DEFINE Q  == Frames(sock, io, rxbuf)
           Qn == Frames(sock', io', rxbuf')
<1>1. sent \in Nat /\ sent <= sent /\ sent <= MaxFrames /\ sent' = sent /\ got' = got
  BY DEF StreamInv
<1>2. cuts' # cuts /\ cuts' \in BOOLEAN
  BY Zenon DEF StreamInv
<1>3. {} = sent + 1 .. sent' /\ {} \in SUBSET (sent + 1 .. sent')
  BY <1>1
<1>4. /\ {} \cup (Q \ Qn) = (Q \cup {}) \ Qn /\ {} \cap (Q \ Qn) = {} /\ Qn \subseteq Q \cup {}
      /\ \A i \in Qn, j \in Q \ Qn : i < j
  BY Zenon
<1> HIDE DEF Q, Qn
<1>5. Moves(Q, Qn, {}, {}, Q \ Qn)
  BY <1>1, <1>2, <1>3, <1>4, Zenon DEF Moves
<1>6. \E acc, R, L : Moves(Q, Qn, acc, R, L)
  BY <1>5, Zenon
<1> QED
  BY <1>1, <1>2, <1>6, Zenon DEF StreamStep, Q, Qn

\* The socket is closed and what was in it is lost.
LEMMA CloseStep ==
  ASSUME StreamInv, UNCHANGED <<sent, got>>, cuts' = ~cuts, sock' \in {"dead", "down"},
         io' \in IO, Len(io'.wire) <= WireCap, rxbuf' \in Seq(Byte), Len(rxbuf') < RxBuf
  PROVE  StreamStep
<1>1. StreamOK(sock', io', rxbuf', sent') /\ Frames(sock', io', rxbuf') = {}
  BY ClosedIs, Zenon
<1>2. /\ Frames(sock', io', rxbuf') \subseteq Frames(sock, io, rxbuf)
      /\ \A i \in Frames(sock', io', rxbuf'),
            j \in Frames(sock, io, rxbuf) \ Frames(sock', io', rxbuf') : i < j
  BY <1>1, Zenon
<1> QED
  BY <1>1, <1>2, CutStep, Zenon

-----------------------------------------------------------------------------
LEMMA SendStep ==
  ASSUME StreamInv, Forward, sock = "up"
  PROVE  StreamStep
<1> DEFINE k == sent + 1
           s == Flow(rxbuf, io)
           t == Flow(rxbuf, io')
           Q == Whole(s)
           Room == (SendBuf - MaxSize) \div MaxSize + 1
<1>1. /\ sent' = k /\ io' = peer_send(io, Bytes(k)) /\ UNCHANGED <<sock, cuts>>
      /\ UNCHANGED <<rxbuf, got>> /\ sent < MaxFrames
  BY Zenon DEF Forward
<1>2. sent \in Nat /\ cuts \in BOOLEAN /\ k \in Nat /\ sent <= k /\ k <= MaxFrames /\ k \in Frame
      /\ k \in sent + 1 .. k /\ sent + 1 .. k = {k}
  BY <1>1, TransportAssumption DEF StreamInv, Frame
<1>3. /\ io \in IO /\ Len(io.wire) <= WireCap /\ rxbuf \in Seq(Byte) /\ Len(rxbuf) < RxBuf
      /\ Whole(rxbuf) = {} /\ Sound(s, sent) /\ Complete(s) /\ Open(sock)
  BY Zenon DEF StreamInv, StreamOK, Open
<1>4. /\ io' \in IO /\ Len(io'.wire) <= WireCap
      /\ \/ Pipe(io') = Cat(Pipe(io), Bytes(k))
         \/ Pipe(io') = Pipe(io) /\ Len(io.outbuf) + SizeOf(k) > SendBuf
  BY <1>1, <1>2, <1>3, SendIs, Zenon
<1> HIDE DEF k
<1>5. /\ s \in Seq(Byte) /\ Framed(s) /\ (Len(s) # 0 => Ends(s, Len(s)))
      /\ \A i \in 1 .. Len(s) : At(s, i) <= sent
  BY <1>3, Zenon DEF Sound, Complete
<1>6. \A i \in 1 .. Len(s) : At(s, i) < k /\ At(s, i) <= k
  <2> SUFFICES ASSUME NEW i \in 1 .. Len(s) PROVE At(s, i) < k /\ At(s, i) <= k
    BY Zenon
  <2>1. At(s, i) \in Nat /\ At(s, i) <= sent
    BY <1>5, AtIs, Zenon
  <2> QED
    BY <1>2, <2>1 DEF k
<1>7. Frames(sock, io, rxbuf) = Q
  BY <1>3, Zenon DEF Frames
<1>8. ASSUME Whole(t) = Q \/ Whole(t) = Q \cup {k}, Sound(t, k), Complete(t),
             Whole(t) = Q => Cardinality(Q) >= Room
      PROVE  StreamStep
  <2>1. StreamOK(sock', io', rxbuf', sent') /\ Frames(sock', io', rxbuf') = Whole(t)
    BY <1>1, <1>3, <1>4, <1>8, Zenon DEF StreamOK, Frames, Open
  <2>2. CASE Whole(t) = Q
    <3>1. Moves(Q, Q, {}, {}, {})
      <4>1. /\ {} \in SUBSET (sent + 1 .. sent') /\ {} \cup {} = (Q \cup {}) \ Q /\ {} \cap {} = {}
            /\ Q \subseteq Q \cup {}
        BY Zenon
      <4> QED
        BY <1>1, <1>8, <2>2, <4>1, Zenon DEF Moves
    <3> QED
      BY <1>1, <1>2, <1>7, <2>1, <2>2, <3>1, Zenon DEF StreamStep
  <2>3. CASE Whole(t) = Q \cup {k}
    <3>1. Moves(Q, Q \cup {k}, {k}, {}, {})
      <4>1. {} \cup {} = (Q \cup {k}) \ (Q \cup {k}) /\ {} \cap {} = {} /\ Q \cup {k} \subseteq Q \cup {k}
        BY Zenon
      <4>2. {k} \in SUBSET (sent + 1 .. sent') /\ {k} = sent + 1 .. sent'
        BY <1>1, <1>2, Zenon
      <4> QED
        BY <1>1, <4>1, <4>2, Zenon DEF Moves
    <3> QED
      BY <1>1, <1>2, <1>7, <2>1, <2>3, <3>1, Zenon DEF StreamStep
  <2> QED
    BY <1>8, <2>2, <2>3, Zenon
<1>9. CASE Pipe(io') = Cat(Pipe(io), Bytes(k))
  <2>1. Pipe(io) \in Seq(Byte) /\ Bytes(k) \in Seq(Byte)
    BY <1>2, <1>3, PipeIs, BytesIs, Zenon
  <2>2. t = Cat(s, Bytes(k))
    BY <1>3, <1>9, <2>1, CatAssociates DEF Flow
  <2> HIDE DEF s, t
  <2>3. /\ Cat(s, Bytes(k)) \in Seq(Byte) /\ Framed(Cat(s, Bytes(k))) /\ Ends(Cat(s, Bytes(k)), Len(Cat(s, Bytes(k))))
        /\ Whole(Cat(s, Bytes(k))) = Whole(s) \cup {k}
        /\ \A i \in 1 .. Len(Cat(s, Bytes(k))) : At(Cat(s, Bytes(k)), i) <= k
    BY <1>2, <1>5, <1>6, FrameIsAdded, Zenon
  <2>4. Sound(t, k) /\ Complete(t) /\ Whole(t) = Q \cup {k}
    BY <2>2, <2>3, Zenon DEF Sound, Complete
  <2>5. k \notin Q
    <3> SUFFICES ASSUME k \in Q PROVE FALSE
      BY Zenon
    <3>1. PICK i \in 1 .. Len(s) : k = At(s, i)
      BY <1>5, WholeFrom, Zenon
    <3>2. k < k
      BY <1>6, <3>1, Zenon
    <3> QED
      BY <1>2, <3>2
  <2>6. Whole(t) # Q
    BY <2>4, <2>5, Zenon
  <2> QED
    BY <1>8, <2>4, <2>6, Zenon
<1>10. CASE Pipe(io') = Pipe(io) /\ Len(io.outbuf) + SizeOf(k) > SendBuf
  <2>1. t = s
    BY <1>10, Zenon DEF Flow
  <2>2. Sound(t, k) /\ Complete(t) /\ Whole(t) = Q
    BY <1>3, <1>5, <1>6, <2>1, Zenon DEF Sound
  <2>3. Cardinality(Q) >= Room
    <3> DEFINE a == Cat(rxbuf, io.wire)
               b == io.outbuf
    <3>1. a \in Seq(Byte) /\ b \in Seq(Byte) /\ s = Cat(a, b)
      BY <1>3, FlowIs, PipeIs, CatIs, Zenon
    <3> HIDE DEF a, s
    <3>2. Framed(Cat(a, b)) /\ (Len(Cat(a, b)) # 0 => Ends(Cat(a, b), Len(Cat(a, b)))) /\ Len(b) + SizeOf(k) > SendBuf
      BY <1>5, <1>10, <3>1, Zenon
    <3> HIDE DEF b
    <3>3. Cardinality(Whole(Cat(a, b))) >= Room
      BY <1>2, <3>1, <3>2, FullBacklog, Zenon
    <3> QED
      BY <3>1, <3>3, Zenon
  <2> QED
    BY <1>8, <2>2, <2>3, Zenon
<1> QED
  BY <1>4, <1>9, <1>10, Zenon

\* Writing on a socket whose reader is gone.
LEMMA DeadSendStep ==
  ASSUME StreamInv, Forward, sock = "dead"
  PROVE  StreamStep
<1> DEFINE k == sent + 1
<1>1. /\ sent' = k /\ cuts' = ~cuts /\ UNCHANGED <<rxbuf, got>> /\ sent < MaxFrames
      /\ \/ sock' = "down" /\ io' = Fresh
         \/ sock' = sock /\ io' = peer_send(io, Bytes(k))
  BY Zenon DEF Forward
<1>2. /\ sent \in Nat /\ k \in Nat /\ sent <= k /\ k <= MaxFrames /\ k \in Frame
      /\ {k} = sent + 1 .. k /\ cuts' # cuts /\ cuts' \in BOOLEAN
  BY <1>1, TransportAssumption DEF StreamInv, Frame
<1>3. io \in IO /\ Len(io.wire) <= WireCap /\ rxbuf \in Seq(Byte) /\ Len(rxbuf) < RxBuf
  BY Zenon DEF StreamInv, StreamOK
<1>4. io' \in IO /\ Len(io'.wire) <= WireCap /\ sock' \in {"dead", "down"}
  <2>1. CASE sock' = "down" /\ io' = Fresh
    BY <2>1, FreshIs, Zenon
  <2>2. CASE sock' = sock /\ io' = peer_send(io, Bytes(k))
    <3>1. io' \in IO /\ Len(io'.wire) <= WireCap
      BY <1>2, <1>3, <2>2, SendIs, Zenon
    <3> QED
      BY <2>2, <3>1, Zenon
  <2> QED
    BY <1>1, <2>1, <2>2, Zenon
<1> HIDE DEF k
<1>5. Frames(sock, io, rxbuf) = {}
  BY <1>3, ClosedIs, Zenon
<1>6. StreamOK(sock', io', rxbuf', sent') /\ Frames(sock', io', rxbuf') = {}
  BY <1>1, <1>3, <1>4, ClosedIs, Zenon
<1>7. Moves({}, {}, {k}, {}, {k})
  <2>1. {} \cup {k} = ({} \cup {k}) \ {} /\ {} \cap {k} = {} /\ {} \subseteq {} \cup {k}
    BY Zenon
  <2>2. {k} \in SUBSET (sent + 1 .. sent') /\ {k} = sent + 1 .. sent'
    BY <1>1, <1>2, Zenon
  <2> QED
    BY <1>1, <1>2, <2>1, <2>2, Zenon DEF Moves
<1> QED
  BY <1>1, <1>2, <1>5, <1>6, <1>7, Zenon DEF StreamStep

LEMMA FlushStep ==
  ASSUME StreamInv, Flush
  PROVE  StreamStep
<1>1. UNCHANGED <<sock, rxbuf, sent, got, cuts>> /\ io' = peer_flush(io) /\ sock = "up"
  BY Zenon DEF Flush
<1>2. io \in IO /\ Len(io.wire) <= WireCap /\ cuts \in BOOLEAN /\ sock # "eof"
  BY <1>1, Zenon DEF StreamInv, StreamOK
<1>3. io' \in IO /\ Len(io'.wire) <= WireCap /\ Flow(rxbuf', io') = Flow(rxbuf, io)
  BY <1>1, <1>2, FlushIs, Zenon DEF Flow
<1>4. StreamOK(sock', io', rxbuf', sent') /\ Frames(sock', io', rxbuf') = Frames(sock, io, rxbuf)
  BY <1>1, <1>2, <1>3, Zenon DEF StreamInv, StreamOK, Frames
<1> QED
  BY <1>1, <1>2, <1>4, StayStep, Zenon

\* The hub dies: what is in its backlog is lost, what the kernel holds is not.
LEMMA DieStep ==
  ASSUME StreamInv, HubDies
  PROVE  StreamStep
<1> DEFINE s == Flow(rxbuf, io)
           t == Flow(rxbuf, io')
<1>1. /\ sock' = (IF sock = "up" THEN "eof" ELSE IF sock = "dead" THEN "down" ELSE sock)
      /\ io' = [Fresh EXCEPT !.wire = io.wire] /\ cuts' = ~cuts /\ UNCHANGED <<rxbuf, sent, got>>
  BY Zenon DEF HubDies
<1>2. io \in IO /\ Len(io.wire) <= WireCap /\ rxbuf \in Seq(Byte) /\ Len(rxbuf) < RxBuf
      /\ sock \in {"up", "eof", "dead", "down"}
  BY Zenon DEF StreamInv, StreamOK
<1>3. io.wire \in Seq(Byte) /\ io.outbuf \in Seq(Byte) /\ Pipe(io) \in Seq(Byte)
  BY <1>2, PipeIs, Zenon
<1>4. io' \in IO /\ io'.wire = io.wire /\ io'.outbuf = <<>>
  <2>1. io' = [wire |-> io.wire, outbuf |-> <<>>, want_write |-> FALSE]
    BY <1>1, Zenon DEF Fresh
  <2>2. <<>> \in Seq(Byte) /\ FALSE \in BOOLEAN
    OBVIOUS
  <2> QED
    BY <1>3, <2>1, <2>2, Zenon DEF IO
<1>5. CASE sock \in {"dead", "down"}
  <2>1. sock' \in {"dead", "down"}
    BY <1>1, <1>5, Zenon
  <2> QED
    BY <1>1, <1>2, <1>4, <2>1, CloseStep, Zenon
<1>6. CASE sock \in {"up", "eof"}
  <2>1. sock' = "eof" /\ Open(sock) /\ Open(sock') /\ sock' # "up" /\ sock' \in {"up", "eof", "dead", "down"}
    BY <1>1, <1>6, Zenon DEF Open
  <2>2. Whole(rxbuf) = {} /\ Sound(s, sent)
    BY <2>1, Zenon DEF StreamInv, StreamOK
  <2>3. s \in Seq(Byte) /\ Framed(s) /\ \A i \in 1 .. Len(s) : At(s, i) <= sent
    BY <2>2, Zenon DEF Sound
  <2> DEFINE a == Cat(rxbuf, io.wire)
  <2>4. a \in Seq(Byte) /\ s = Cat(a, io.outbuf)
    BY <1>2, <1>3, FlowIs, CatIs, Zenon
  <2>5. t = a
    <3>1. t = Cat(a, <<>>)
      BY <1>2, <1>4, FlowIs, Zenon
    <3> QED
      BY <2>4, <3>1, CatEmpty, Zenon
  <2> HIDE DEF a, s, t
  <2>6. /\ Len(s) = Len(a) + Len(io.outbuf)
        /\ \A i \in 1 .. Len(a) + Len(io.outbuf) : s[i] = IF i <= Len(a) THEN a[i] ELSE io.outbuf[i - Len(a)]
    BY <1>3, <2>4, CatIs, Zenon
  <2>7. Begins(a, s)
    <3>1. Len(a) \in Nat /\ Len(io.outbuf) \in Nat
      BY <1>3, <2>4, LenProperties, Zenon
    <3> QED
      BY <2>6, <3>1 DEF Begins
  <2>8. Framed(a) /\ Whole(a) \subseteq Whole(s) /\ \A x \in Whole(a), y \in Whole(s) \ Whole(a) : x < y
    BY <2>3, <2>4, <2>7, EndIsCut, CutSplits, Zenon
  <2>9. \A i \in 1 .. Len(a) : At(a, i) <= sent
    <3> SUFFICES ASSUME NEW i \in 1 .. Len(a) PROVE At(a, i) <= sent
      BY Zenon
    <3>1. Len(a) \in Nat /\ Len(s) \in Nat /\ Len(a) <= Len(s) /\ a[i] = s[i]
      BY <2>3, <2>4, <2>7, LenProperties, Zenon DEF Begins
    <3>2. i \in 1 .. Len(s)
      BY <3>1
    <3> QED
      BY <2>3, <3>1, <3>2, Zenon DEF At
  <2>10. Sound(t, sent)
    BY <2>4, <2>5, <2>8, <2>9, Zenon DEF Sound
  <2>11. StreamOK(sock', io', rxbuf', sent')
    BY <1>1, <1>2, <1>4, <2>1, <2>2, <2>10, Zenon DEF StreamOK, t
  <2>12. Frames(sock', io', rxbuf') = Whole(a) /\ Frames(sock, io, rxbuf) = Whole(s)
    BY <1>1, <2>1, <2>5, Zenon DEF Frames, s, t
  <2>13. /\ Frames(sock', io', rxbuf') \subseteq Frames(sock, io, rxbuf)
         /\ \A i \in Frames(sock', io', rxbuf'),
               j \in Frames(sock, io, rxbuf) \ Frames(sock', io', rxbuf') : i < j
    BY <2>8, <2>12, Zenon
  <2> QED
    BY <1>1, <2>11, <2>13, CutStep, Zenon
<1> QED
  BY <1>2, <1>5, <1>6, Zenon

\* A step of the core that does not read: a PDU that cannot be written closes the socket.
LEMMA CallStep ==
  ASSUME StreamInv, UNCHANGED <<rxbuf, sent, got>>, NEW pdu \in BOOLEAN, cb_pdu_to_medium(pdu, io.wire)
  PROVE  StreamStep
<1>1. /\ io \in IO /\ Len(io.wire) <= WireCap /\ rxbuf \in Seq(Byte) /\ Len(rxbuf) < RxBuf
      /\ cuts \in BOOLEAN
  BY Zenon DEF StreamInv, StreamOK
<1>2. CASE pdu /\ sock = "eof"
  <2>1. sock' = "down" /\ io' = Fresh /\ cuts' = ~cuts
    BY <1>2, Zenon DEF cb_pdu_to_medium
  <2>2. sock' \in {"dead", "down"} /\ io' \in IO /\ Len(io'.wire) <= WireCap
    BY <2>1, FreshIs, Zenon
  <2> QED
    BY <1>1, <2>1, <2>2, CloseStep, Zenon
<1>3. CASE ~(pdu /\ sock = "eof")
  <2>1. io' = [io EXCEPT !.wire = io.wire] /\ UNCHANGED <<sock, cuts>>
    BY <1>3, Zenon DEF cb_pdu_to_medium
  <2>2. io' = io
    BY <1>1, <2>1, Zenon DEF IO
  <2>3. StreamOK(sock', io', rxbuf', sent') /\ Frames(sock', io', rxbuf') = Frames(sock, io, rxbuf)
    BY <2>1, <2>2, Zenon DEF StreamInv
  <2> QED
    BY <1>1, <2>1, <2>3, StayStep, Zenon
<1> QED
  BY <1>2, <1>3, Zenon

LEMMA ReadStep ==
  ASSUME StreamInv, MediumRead
  PROVE  StreamStep
<1> DEFINE r == medium_readable(rxbuf, io.wire)
           s == Flow(rxbuf, io)
           Q == Whole(s)
<1>1. /\ sock \in {"up", "eof"} /\ rxbuf' = r.rxbuf /\ sent' = sent
      /\ got' = IF r.got = <<>> THEN got ELSE Last(r.got)
      /\ \E pdu \in BOOLEAN : cb_pdu_to_medium(pdu, r.wire)
  BY Zenon DEF MediumRead, HasMedium
<1>2. PICK pdu \in BOOLEAN : cb_pdu_to_medium(pdu, r.wire)
  BY <1>1, Zenon
<1>3. /\ io \in IO /\ Len(io.wire) <= WireCap /\ rxbuf \in Seq(Byte) /\ Len(rxbuf) < RxBuf
      /\ Sound(s, sent) /\ (sock = "up" => Complete(s)) /\ (sock = "eof" => io.outbuf = <<>>)
      /\ Open(sock) /\ sent \in Nat /\ sent <= MaxFrames /\ cuts \in BOOLEAN
  BY <1>1, Zenon DEF StreamInv, StreamOK, Open
<1>4. s \in Seq(Byte) /\ Framed(s) /\ \A i \in 1 .. Len(s) : At(s, i) <= sent
  BY <1>3, Zenon DEF Sound
<1>5. /\ io.wire \in Seq(Byte) /\ io.outbuf \in Seq(Byte) /\ s = Cat(Cat(rxbuf, io.wire), io.outbuf)
  BY <1>3, PipeIs, FlowIs, Zenon
<1> HIDE DEF s
<1>6. Framed(Cat(Cat(rxbuf, io.wire), io.outbuf))
  BY <1>4, <1>5, Zenon
<1>7. /\ r.rxbuf \in Seq(Byte) /\ Len(r.rxbuf) < RxBuf /\ Whole(r.rxbuf) = {}
      /\ r.wire \in Seq(Byte) /\ Len(r.wire) <= Len(io.wire)
      /\ \E j : /\ Taken(Cat(Cat(rxbuf, io.wire), io.outbuf), j, r.got)
                /\ Cat(Cat(r.rxbuf, r.wire), io.outbuf) = From(Cat(Cat(rxbuf, io.wire), io.outbuf), j)
  BY <1>3, <1>5, <1>6, ReadIs, Zenon
<1> HIDE DEF r
<1>8. PICK j : Taken(s, j, r.got) /\ Cat(Cat(r.rxbuf, r.wire), io.outbuf) = From(s, j)
  BY <1>5, <1>7, Zenon
<1> DEFINE t == From(s, j)
           V == Whole(t)
           R == Q \ V
<1>9. /\ V \subseteq Q /\ \A x \in R, y \in V : x < y
      /\ IF r.got = <<>> THEN R = {} ELSE Last(r.got) \in R /\ \A x \in R : x <= Last(r.got)
  BY <1>4, <1>8, TakenSplits, Zenon
<1>10. j \in 1 .. Len(s) + 1 /\ Len(s) \in Nat /\ (j \in 1 .. Len(s) => Place(s, j) = 1)
  BY <1>4, <1>8, LenProperties, Zenon DEF Taken, Starts
<1>11. /\ t \in Seq(Byte) /\ Framed(t) /\ Len(t) = Len(s) - j + 1
       /\ \A i \in 1 .. Len(s) - j + 1 : t[i] = s[j + i - 1]
  BY <1>4, <1>10, FrontIsRead, FromIs, Zenon
<1> HIDE DEF t
<1>12. Sound(t, sent)
  <2> SUFFICES ASSUME NEW i \in 1 .. Len(t) PROVE At(t, i) <= sent
    BY <1>11, Zenon DEF Sound
  <2>1. Len(t) = Len(s) - j + 1 /\ \A m \in 1 .. Len(s) - j + 1 : t[m] = s[j + m - 1]
    BY <1>11, Zenon
  <2>2. j + i - 1 \in 1 .. Len(s) /\ i \in 1 .. Len(s) - j + 1
    BY <1>10, <2>1
  <2> QED
    BY <1>4, <2>1, <2>2, Zenon DEF At
<1>13. Complete(s) => Complete(t)
  <2> SUFFICES ASSUME Complete(s), Len(t) # 0 PROVE Ends(t, Len(t))
    BY Zenon DEF Complete
  <2>1. Len(t) \in 1 .. Len(s) - j + 1 /\ j + Len(t) - 1 = Len(s) /\ Len(s) # 0
    BY <1>10, <1>11
  <2>2. t[Len(t)] = s[Len(s)]
    BY <1>11, <2>1, Zenon
  <2> QED
    BY <2>1, <2>2, Zenon DEF Complete, Ends, Place, Size
<1>14. Frames(sock, io, rxbuf) = Q
  BY <1>3, Zenon DEF Frames, s
<1>15. IF R = {} THEN got' = got ELSE got' \in R /\ \A i \in R : i <= got'
  BY <1>1, <1>9, Zenon
<1>16. {} = sent + 1 .. sent' /\ {} \in SUBSET (sent + 1 .. sent') /\ sent <= sent
  BY <1>1, <1>3
<1>17. CASE pdu /\ sock = "eof"
  <2>1. sock' = "down" /\ io' = Fresh /\ cuts' = ~cuts
    BY <1>2, <1>17, Zenon DEF cb_pdu_to_medium
  <2>2. cuts' # cuts /\ cuts' \in BOOLEAN
    BY <1>3, <2>1, Zenon
  <2>3. StreamOK(sock', io', rxbuf', sent') /\ Frames(sock', io', rxbuf') = {}
    <3>1. sock' \in {"dead", "down"} /\ io' \in IO /\ Len(io'.wire) <= WireCap
      BY <2>1, FreshIs, Zenon
    <3> QED
      BY <1>1, <1>7, <3>1, ClosedIs, Zenon
  <2>4. R \cup V = (Q \cup {}) \ {} /\ R \cap V = {} /\ {} \subseteq Q \cup {}
    BY <1>9, Zenon
  <2> HIDE DEF R, Q, V
  <2>5. Moves(Q, {}, {}, R, V)
    BY <1>9, <1>15, <1>16, <2>2, <2>4, Zenon DEF Moves
  <2> QED
    BY <1>1, <1>3, <1>14, <1>16, <2>2, <2>3, <2>5, Zenon DEF StreamStep
<1>18. CASE ~(pdu /\ sock = "eof")
  <2>1. io' = [io EXCEPT !.wire = r.wire] /\ sock' = sock /\ cuts' = cuts
    BY <1>2, <1>18, Zenon DEF cb_pdu_to_medium
  <2>2. io' \in IO /\ io'.wire = r.wire /\ io'.outbuf = io.outbuf
    BY <1>3, <1>7, <2>1, Zenon DEF IO
  <2>3. Len(io'.wire) <= WireCap
    <3>1. Len(r.wire) \in Nat /\ Len(io.wire) \in Nat
      BY <1>5, <1>7, LenProperties, Zenon
    <3> QED
      BY <1>3, <1>7, <2>2, <3>1, BufferSizes
  <2>4. Flow(rxbuf', io') = t
    <3>1. Flow(rxbuf', io') = Cat(Cat(rxbuf', io'.wire), io'.outbuf)
      BY <1>1, <1>7, <2>2, FlowIs, Zenon
    <3> QED
      BY <1>1, <1>8, <2>2, <3>1, Zenon DEF t
  <2>5. StreamOK(sock', io', rxbuf', sent') /\ Frames(sock', io', rxbuf') = V
    BY <1>1, <1>3, <1>7, <1>12, <1>13, <2>1, <2>2, <2>3, <2>4, Zenon DEF StreamOK, Frames, StreamInv
  <2>6. R \cup {} = (Q \cup {}) \ V /\ R \cap {} = {} /\ V \subseteq Q \cup {}
    BY <1>9, Zenon
  <2> HIDE DEF R, Q, V
  <2>7. Moves(Q, V, {}, R, {})
    BY <1>9, <1>15, <1>16, <2>6, Zenon DEF Moves
  <2> QED
    BY <1>1, <1>3, <1>14, <1>16, <2>1, <2>5, <2>7, Zenon DEF StreamStep
<1> QED
  BY <1>17, <1>18, Zenon

LEMMA StreamSteps ==
  ASSUME StreamInv, [Next]_vars
  PROVE  StreamStep
<1>1. /\ sock \in {"up", "eof", "dead", "down"} /\ io \in IO /\ Len(io.wire) <= WireCap
      /\ rxbuf \in Seq(Byte) /\ Len(rxbuf) < RxBuf /\ cuts \in BOOLEAN
  BY Zenon DEF StreamInv, StreamOK
<1>2. ASSUME UNCHANGED stream PROVE StreamStep
  <2>1. UNCHANGED <<sock, io, rxbuf, sent, got, cuts>>
    BY <1>2, Zenon DEF stream
  <2>2. StreamOK(sock', io', rxbuf', sent') /\ Frames(sock', io', rxbuf') = Frames(sock, io, rxbuf)
    BY <2>1, Zenon DEF StreamInv
  <2> QED
    BY <1>1, <2>1, <2>2, StayStep, Zenon
<1>3. CASE HubStarts \/ GuestPosts \/ HandleRx \/ QemuConnects \/ QueueStarts
  BY <1>2, <1>3, Zenon DEF HubStarts, GuestPosts, HandleRx, QemuConnects, QueueStarts
<1>4. CASE QemuDisconnects \/ DeviceReset \/ UNCHANGED vars
  BY <1>2, <1>4, Zenon DEF QemuDisconnects, DeviceReset, vars
<1>5. CASE Forward
  <2>1. sock = "up" \/ sock = "dead"
    BY <1>5, Zenon DEF Forward
  <2> QED
    BY <1>5, <2>1, SendStep, DeadSendStep, Zenon
<1>6. CASE Flush
  BY <1>6, FlushStep, Zenon
<1>7. CASE HubCloses
  <2>1. sock = "dead" /\ sock' = "down" /\ io' = Fresh /\ UNCHANGED <<rxbuf, sent, got, cuts>>
    BY <1>7, Zenon DEF HubCloses
  <2>2. sock \in {"dead", "down"} /\ sock' \in {"dead", "down"} /\ io' \in IO /\ Len(io'.wire) <= WireCap
    BY <2>1, FreshIs, Zenon
  <2>3. StreamOK(sock', io', rxbuf', sent') /\ Frames(sock', io', rxbuf') = {} /\ Frames(sock, io, rxbuf) = {}
    BY <1>1, <2>1, <2>2, ClosedIs, Zenon
  <2> QED
    BY <1>1, <2>1, <2>3, StayStep, Zenon
<1>8. CASE HubDies
  BY <1>8, DieStep, Zenon
<1>9. CASE MediumRead
  BY <1>9, ReadStep, Zenon
<1>10. CASE MediumEof
  <2>1. /\ sock = "eof" /\ io.wire = <<>> /\ sock' = "down" /\ UNCHANGED <<io, sent, got, cuts>>
        /\ rxbuf' = IF kind = "virtio" THEN <<>> ELSE rxbuf
    BY <1>10, Zenon DEF MediumEof
  <2>2. Open(sock) /\ io.outbuf = <<>> /\ Whole(rxbuf) = {}
    BY <2>1, Zenon DEF StreamInv, StreamOK, Open
  <2>3. Flow(rxbuf, io) = rxbuf
    <3>1. <<>> \in Seq(Byte)
      OBVIOUS
    <3>2. Pipe(io) = <<>>
      BY <2>1, <2>2, <3>1, CatEmpty, Zenon DEF Pipe
    <3> QED
      BY <1>1, <3>2, CatEmpty, Zenon DEF Flow
  <2>4. Frames(sock, io, rxbuf) = {}
    BY <2>2, <2>3, Zenon DEF Frames
  <2>5. sock' \in {"dead", "down"} /\ io' \in IO /\ Len(io'.wire) <= WireCap
    BY <1>1, <2>1, Zenon
  <2>6. rxbuf' \in Seq(Byte) /\ Len(rxbuf') < RxBuf
    BY <1>1, <2>1, NothingIsSound, Zenon
  <2>7. StreamOK(sock', io', rxbuf', sent') /\ Frames(sock', io', rxbuf') = {}
    BY <2>5, <2>6, ClosedIs, Zenon
  <2> QED
    BY <1>1, <2>1, <2>4, <2>7, StayStep, Zenon
<1>11. CASE Reconnect
  <2>1. ~Open(sock) /\ sock' = "up" /\ io' = Fresh /\ rxbuf' = <<>> /\ UNCHANGED <<sent, got, cuts>>
    BY <1>11, Zenon DEF Reconnect, HasMedium, Open, connect_medium
  <2>2. Frames(sock, io, rxbuf) = {}
    BY <2>1, Zenon DEF Frames
  <2>3. Flow(rxbuf', io') = <<>> /\ io' \in IO /\ Len(io'.wire) <= WireCap /\ io'.outbuf = <<>>
    BY <2>1, FreshIs, Zenon
  <2>4. /\ sock' \in {"up", "eof", "dead", "down"} /\ rxbuf' \in Seq(Byte) /\ Len(rxbuf') < RxBuf
        /\ Whole(rxbuf') = {} /\ Sound(Flow(rxbuf', io'), sent') /\ Complete(Flow(rxbuf', io'))
    BY <2>1, <2>3, NothingIsSound, NothingIsWhole, Zenon
  <2>5. StreamOK(sock', io', rxbuf', sent') /\ Frames(sock', io', rxbuf') = {}
    BY <2>3, <2>4, NothingIsWhole, Zenon DEF StreamOK, Frames
  <2> QED
    BY <1>1, <2>1, <2>2, <2>5, StayStep, Zenon
<1>12. CASE HostTx
  <2>1. UNCHANGED <<rxbuf, sent, got>> /\ \E pdu \in BOOLEAN : cb_pdu_to_medium(pdu, io.wire)
    BY <1>12, Zenon DEF HostTx
  <2> QED
    BY <2>1, CallStep, Zenon
<1>13. CASE Tick
  <2>1. UNCHANGED <<rxbuf, sent, got>> /\ \E pdu \in BOOLEAN : cb_pdu_to_medium(pdu, io.wire)
    BY <1>13, Zenon DEF Tick
  <2> QED
    BY <2>1, CallStep, Zenon
<1>14. CASE NodeRestarts
  <2>1. /\ sock' = (IF sock = "up" THEN "dead" ELSE IF sock = "eof" THEN "down" ELSE sock)
        /\ io' = [io EXCEPT !.wire = <<>>] /\ rxbuf' = <<>> /\ cuts' = ~cuts /\ UNCHANGED <<sent, got>>
    BY <1>14, Zenon DEF NodeRestarts
  <2>2. sock' \in {"dead", "down"}
    BY <1>1, <2>1, Zenon
  <2>3. <<>> \in Seq(Byte)
    OBVIOUS
  <2>4. io' \in IO /\ io'.wire = <<>>
    BY <1>1, <2>1, <2>3, Zenon DEF IO
  <2>5. Len(io'.wire) <= WireCap /\ rxbuf' \in Seq(Byte) /\ Len(rxbuf') < RxBuf
    BY <2>1, <2>4, FreshIs, NothingIsSound, Zenon
  <2> QED
    BY <2>1, <2>2, <2>4, <2>5, CloseStep, Zenon
<1> QED
  BY <1>3, <1>4, <1>5, <1>6, <1>7, <1>8, <1>9, <1>10, <1>11, <1>12, <1>13, <1>14, Zenon DEF Next

LEMMA StreamInit == Init => StreamInv /\ StreamFifo!Init
<1> SUFFICES ASSUME Init PROVE StreamInv /\ StreamFifo!Init
  BY Zenon
<1>1. sock = "down" /\ io = Fresh /\ rxbuf = <<>> /\ sent = 0 /\ got = 0 /\ cuts = FALSE
  BY Zenon DEF Init
<1>2. sock \in {"dead", "down"} /\ io \in IO /\ Len(io.wire) <= WireCap /\ rxbuf \in Seq(Byte) /\ Len(rxbuf) < RxBuf
  BY <1>1, FreshIs, NothingIsSound, Zenon
<1>3. StreamOK(sock, io, rxbuf, sent)
  BY <1>2, ClosedIs, Zenon
<1>4. sent \in Nat /\ sent <= MaxFrames /\ cuts \in BOOLEAN
  <2>1. sent = 0 /\ cuts \in BOOLEAN /\ MaxFrames \in Nat
    BY <1>1, TransportAssumption, Zenon
  <2>2. sent \in Nat /\ sent <= MaxFrames
    BY <2>1
  <2> QED
    BY <2>1, <2>2, Zenon
<1>5. InFlight = <<>>
  BY <1>1, Zenon DEF InFlight, HasMedium
<1> QED
  BY <1>1, <1>3, <1>4, <1>5, NothingIsWhole, Zenon DEF StreamInv, StreamFifo!Init

LEMMA StreamInvHolds == Spec => []StreamInv
<1>1. StreamInv /\ [Next]_vars => StreamInv'
  BY StreamSteps, StepRefines, Zenon
<1> QED
  BY <1>1, StreamInit, PTL DEF Spec

\* The stream implements the lossy queue: frames reach the core in the order the hub forwards
\* them, each at most once and whole; peer_send drops one only behind as many as
\* SEND_BUF_SIZE guarantees, and the rest is lost only with the socket.
THEOREM StreamKeepsOrder == Spec => StreamIsFifo
<1>1. Init => StreamInv /\ StreamFifo!Init
  BY StreamInit, Zenon
<1>2. StreamInv /\ [Next]_vars => StreamInv' /\ [StreamFifo!Next]_<<Whole(InFlight), sent, got, cuts>>
  BY StreamSteps, StepRefines, Zenon
<1> QED
  BY <1>1, <1>2, PTL DEF Spec, StreamIsFifo, StreamFifo!Spec, StreamFifo!vars

\* Partial writes, partial reads, a full backlog and reconnects never put medium_readable out
\* of step: what is under way is a run of whole frames that only the hub's death cuts.
THEOREM StreamStaysFramed == Spec => []StreamIsFramed
<1>1. StreamInv => StreamIsFramed
  <2> SUFFICES ASSUME StreamInv PROVE StreamIsFramed
    BY Zenon
  <2> DEFINE s == Flow(rxbuf, io)
  <2>1. CASE Open(sock)
    <3>1. io \in IO /\ rxbuf \in Seq(Byte) /\ Sound(s, sent) /\ (sock = "up" => Complete(s))
      BY <2>1, Zenon DEF StreamInv, StreamOK
    <3>2. InFlight = s
      BY <2>1, <3>1, FlowIs, Zenon DEF InFlight, HasMedium, Open
    <3> HIDE DEF s
    <3>3. s \in Seq(Byte) /\ Framed(s)
      BY <3>1, Zenon DEF Sound
    <3>4. ASSUME s # <<>>, sock = "up" PROVE Last(s)[2] = SizeOf(Last(s)[1])
      <4>1. Len(s) # 0
        BY <3>3, <3>4, EmptySeq, Zenon
      <4>2. Ends(s, Len(s))
        BY <3>1, <3>4, <4>1, Zenon DEF Complete
      <4> QED
        BY <4>2, Zenon DEF Ends, Place, Size, Last
    <3> QED
      BY <3>2, <3>3, <3>4, Zenon DEF StreamIsFramed
  <2>2. CASE ~Open(sock)
    <3>1. InFlight = <<>>
      BY <2>2, Zenon DEF InFlight, HasMedium, Open
    <3>2. Framed(<<>>)
      BY NothingIsSound, Zenon DEF Sound
    <3> QED
      BY <3>1, <3>2, Zenon DEF StreamIsFramed
  <2> QED
    BY <2>1, <2>2, Zenon
<1> QED
  BY <1>1, StreamInvHolds, PTL

\* medium_readable never leaves rxbuf full, so that the branch that throws it away is dead.
THEOREM ReadKeepsRoom == Spec => []ReadHasRoom
<1>1. StreamInv => ReadHasRoom
  BY Zenon DEF StreamInv, StreamOK, ReadHasRoom
<1> QED
  BY <1>1, StreamInvHolds, PTL
=============================================================================
