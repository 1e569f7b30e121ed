------------------------ MODULE VbtGuestQueue_proofs ------------------------
(***************************************************************************)
(* The queue of HCI packets towards the guest (cb_hci_to_host and          *)
(* flush_pending): its counters wrap at 2^32 and its slots are reused, and *)
(* for any number of packets it is still a lossy FIFO, in which packets    *)
(* keep their order and only one that finds it full is refused.            *)
(***************************************************************************)
EXTENDS VbtTransport, FiniteSetTheorems, WellFoundedInduction, TLAPS

-----------------------------------------------------------------------------
(* Quotients and remainders *)

LEMMA Product ==
  ASSUME NEW m \in Nat, NEW k \in Int, k >= 1
  PROVE  m * k >= m
OBVIOUS

LEMMA Distribute ==
  ASSUME NEW m \in Int, NEW a \in Int, NEW b \in Int
  PROVE  /\ m * a \in Int /\ m * b \in Int
         /\ m * (a + b) = m * a + m * b /\ m * (a - b) = m * a - m * b
OBVIOUS

\* r is what is left when x is divided by m, d times.
Divides(m, x, d, r) == d \in Int /\ r \in 0 .. m - 1 /\ x = m * d + r

\* Remainders by name: the provers are not to compute with them.
Rem(x, m) == x % m

LEMMA DivMod ==
  ASSUME NEW m \in Nat \ {0}, NEW x \in Int
  PROVE  \E d \in Int : Divides(m, x, d, Rem(x, m))
<1>1. PICK d \in Int, r \in Int, p \in Int : d = x \div m /\ r = x % m /\ p = m * d
  OBVIOUS
<1>2. r \in 0 .. m - 1 /\ r = x - p
  BY <1>1
<1>3. x = p + r
  BY <1>2
<1>4. Divides(m, x, d, r)
  BY <1>1, <1>2, <1>3, Zenon DEF Divides
<1>5. r = Rem(x, m)
  BY <1>1, Zenon DEF Rem
<1>6. QED
  BY <1>4, <1>5, Zenon

\* Quotient and remainder are unique.
LEMMA DivIsUnique ==
  ASSUME NEW m \in Nat \ {0}, NEW x \in Int, NEW d, NEW r, NEW e, NEW s,
         Divides(m, x, d, r), Divides(m, x, e, s)
  PROVE  d = e /\ r = s
<1>1. d \in Int /\ e \in Int /\ r \in 0 .. m - 1 /\ s \in 0 .. m - 1
  BY Zenon DEF Divides
<1>2. PICK md \in Int, me \in Int : md = m * d /\ me = m * e
  BY <1>1, Distribute
<1>3. md - me = s - r
  BY <1>1, <1>2 DEF Divides
<1>4. m * (d - e) = md - me /\ m * (e - d) = me - md
  BY <1>1, <1>2, Distribute
<1>5. CASE d - e >= 1
  BY <1>1, <1>3, <1>4, <1>5, Product
<1>6. CASE e - d >= 1
  BY <1>1, <1>3, <1>4, <1>6, Product
<1>7. CASE d = e
  BY <1>1, <1>2, <1>3, <1>7
<1> QED
  BY <1>1, <1>5, <1>6, <1>7

LEMMA RemIs ==
  ASSUME NEW m \in Nat \ {0}, NEW x \in Int, NEW d, NEW r, Divides(m, x, d, r)
  PROVE  Rem(x, m) = r
BY DivMod, DivIsUnique, Zenon

LEMMA RemIn ==
  ASSUME NEW m \in Nat \ {0}, NEW x \in Int
  PROVE  Rem(x, m) \in 0 .. m - 1
BY DivMod, Zenon DEF Divides

LEMMA RemSmall ==
  ASSUME NEW m \in Nat \ {0}, NEW x \in 0 .. m - 1
  PROVE  Rem(x, m) = x
BY DEF Rem

\* A multiple of the modulus makes no difference.
LEMMA RemMultiple ==
  ASSUME NEW m \in Nat \ {0}, NEW w \in Int, Rem(w, m) = 0, NEW x \in Int
  PROVE  Rem(x + w, m) = Rem(x, m) /\ Rem(x - w, m) = Rem(x, m)
<1>1. PICK c \in Int : Divides(m, w, c, 0)
  BY DivMod, Zenon
<1>2. PICK d \in Int : Divides(m, x, d, Rem(x, m))
  BY DivMod, Zenon
<1>3. PICK md \in Int, mc \in Int : md = m * d /\ mc = m * c
  BY Distribute
<1>4. m * (d + c) = md + mc /\ m * (d - c) = md - mc
  BY <1>3, Distribute
<1>5. w = mc /\ Rem(x, m) \in 0 .. m - 1 /\ x = md + Rem(x, m)
  <2>1. w = mc + 0 /\ Rem(x, m) \in 0 .. m - 1 /\ x = md + Rem(x, m)
    BY <1>1, <1>2, <1>3, Zenon DEF Divides
  <2> QED
    BY <2>1
<1>6. PICK r \in Int : r = Rem(x, m)
  BY <1>5
<1>7. x + w = (md + mc) + r /\ x - w = (md - mc) + r /\ d + c \in Int /\ d - c \in Int
  BY <1>5, <1>6
<1>8. Divides(m, x + w, d + c, Rem(x, m)) /\ Divides(m, x - w, d - c, Rem(x, m))
  BY <1>4, <1>5, <1>6, <1>7, Zenon DEF Divides
<1>9. x + w \in Int /\ x - w \in Int
  OBVIOUS
<1> QED
  BY <1>8, <1>9, RemIs, Zenon

\* Numbers at most one modulus away.
LEMMA RemOnce ==
  ASSUME NEW m \in Nat \ {0}, NEW x \in Int
  PROVE  /\ x \in m .. 2 * m - 1 => Rem(x, m) = x - m
         /\ x \in -m .. -1 => Rem(x, m) = x + m
<1>1. x \in m .. 2 * m - 1 => Divides(m, x, 1, x - m)
  BY DEF Divides
<1>2. x \in -m .. -1 => Divides(m, x, -1, x + m)
  BY DEF Divides
<1> QED
  BY <1>1, <1>2, RemIs, Zenon

LEMMA RemDiffers ==
  ASSUME NEW m \in Nat \ {0}, NEW x \in Int, NEW y \in Int, x < y, y - x < m
  PROVE  Rem(x, m) # Rem(y, m)
<1> SUFFICES ASSUME Rem(x, m) = Rem(y, m) PROVE FALSE
  BY Zenon
<1>1. PICK c \in Int : Divides(m, x, c, Rem(x, m))
  BY DivMod, Zenon
<1>2. PICK d \in Int : Divides(m, y, d, Rem(x, m))
  BY DivMod, Zenon
<1>3. PICK md \in Int, mc \in Int : md = m * d /\ mc = m * c
  BY Distribute
<1>4. m * (d - c) = md - mc /\ m * (c - d) = mc - md /\ md - mc = y - x
  BY <1>1, <1>2, <1>3, Distribute DEF Divides
<1>5. CASE d - c >= 1
  BY <1>4, <1>5, Product
<1>6. CASE c - d >= 1
  BY <1>4, <1>6, Product
<1>7. CASE c = d
  BY <1>3, <1>4, <1>7
<1> QED
  BY <1>5, <1>6, <1>7

-----------------------------------------------------------------------------
(* The queue towards the guest *)

Queue == [slot : [0 .. PendingMax - 1 -> Nat], head : 0 .. Wrap - 1, tail : 0 .. Wrap - 1,
          bufs : Nat, ready : BOOLEAN, seen : Nat]

LEMMA Sizes == PendingMax \in Nat \ {0} /\ Wrap \in Nat \ {0} /\ PendingMax < Wrap
BY TransportAssumption

LEMMA Divisible == Rem(Wrap, PendingMax) = 0
BY TransportAssumption, Zenon DEF Rem

LEMMA BacklogIs ==
  ASSUME NEW d \in Queue
  PROVE  /\ Backlog(d) \in 0 .. Wrap - 1
         /\ Backlog(d) = IF d.head <= d.tail THEN d.tail - d.head ELSE d.tail - d.head + Wrap
<1>1. d.head \in 0 .. Wrap - 1 /\ d.tail \in 0 .. Wrap - 1
  BY Zenon DEF Queue
<1>2. CASE d.head <= d.tail
  <2>1. d.tail - d.head \in 0 .. Wrap - 1
    BY <1>1, <1>2, Sizes
  <2>2. Rem(d.tail - d.head, Wrap) = d.tail - d.head
    BY <2>1, RemSmall, Sizes, Zenon
  <2> QED
    BY <1>2, <2>1, <2>2, Zenon DEF Backlog, Rem
<1>3. CASE ~(d.head <= d.tail)
  <2>1. d.tail - d.head \in -Wrap .. -1 /\ d.tail - d.head + Wrap \in 0 .. Wrap - 1
    BY <1>1, <1>3, Sizes
  <2>2. Rem(d.tail - d.head, Wrap) = d.tail - d.head + Wrap
    BY <2>1, RemOnce, Sizes
  <2> QED
    BY <1>3, <2>1, <2>2, Zenon DEF Backlog, Rem
<1> QED
  BY <1>2, <1>3, Zenon

\* A counter that is advanced, and the slot it names.
LEMMA Advanced ==
  ASSUME NEW c \in 0 .. Wrap - 1, NEW k \in 0 .. PendingMax
  PROVE  /\ Rem(c + k, Wrap) = IF c + k < Wrap THEN c + k ELSE c + k - Wrap
         /\ Rem(Rem(c + k, Wrap), PendingMax) = Rem(c + k, PendingMax)
<1>1. CASE c + k < Wrap
  <2>1. c + k \in 0 .. Wrap - 1
    BY <1>1, Sizes
  <2> QED
    BY <1>1, <2>1, RemSmall, Sizes, Zenon
<1>2. CASE ~(c + k < Wrap)
  <2>1. c + k \in Wrap .. 2 * Wrap - 1 /\ c + k \in Int /\ Wrap \in Int
    BY <1>2, Sizes
  <2>2. Rem(c + k, Wrap) = c + k - Wrap
    BY <2>1, RemOnce, Sizes
  <2>3. Rem(c + k - Wrap, PendingMax) = Rem(c + k, PendingMax)
    BY <2>1, RemMultiple, Sizes, Divisible
  <2> QED
    BY <1>2, <2>2, <2>3, Zenon
<1> QED
  BY <1>1, <1>2, Zenon

LEMMA WaitingIs ==
  ASSUME NEW d \in Queue, Backlog(d) <= PendingMax
  PROVE  /\ DOMAIN Waiting(d) = 1 .. Backlog(d)
         /\ \A i \in 1 .. Backlog(d) : /\ Waiting(d)[i] = d.slot[Rem(d.head + i - 1, PendingMax)]
                                       /\ Waiting(d)[i] \in Nat
<1>1. DOMAIN Waiting(d) = 1 .. Backlog(d)
  BY Zenon DEF Waiting
<1>2. ASSUME NEW i \in 1 .. Backlog(d)
      PROVE  Waiting(d)[i] = d.slot[Rem(d.head + i - 1, PendingMax)] /\ Waiting(d)[i] \in Nat
  <2>1. d.head \in 0 .. Wrap - 1 /\ d.slot \in [0 .. PendingMax - 1 -> Nat]
    BY Zenon DEF Queue
  <2>2. i - 1 \in 0 .. PendingMax /\ d.head + (i - 1) = d.head + i - 1 /\ d.head + i - 1 \in Int
    BY <1>2, <2>1, BacklogIs, Sizes
  <2>3. Rem(Rem(d.head + i - 1, Wrap), PendingMax) = Rem(d.head + i - 1, PendingMax)
    BY <2>1, <2>2, Advanced
  <2>4. Waiting(d)[i] = d.slot[Rem(Rem(d.head + i - 1, Wrap), PendingMax)]
    BY <1>2, Zenon DEF Waiting, Rem
  <2>5. Rem(d.head + i - 1, PendingMax) \in 0 .. PendingMax - 1
    BY <2>2, Sizes, RemIn, Zenon
  <2> QED
    BY <2>1, <2>3, <2>4, <2>5, Zenon
<1> QED
  BY <1>1, <1>2, Zenon

Appended(d, e) == [d EXCEPT !.slot[d.tail % PendingMax] = e, !.tail = (@ + 1) % Wrap]

\* The slot behind the last one is free, across the wrap of the counters.
LEMMA AppendedIs ==
  ASSUME NEW d \in Queue, Backlog(d) < PendingMax, NEW e \in Nat
  PROVE  LET u == Appended(d, e)
         IN  /\ u \in Queue /\ u.head = d.head /\ u.seen = d.seen
             /\ Backlog(u) = Backlog(d) + 1
             /\ \A i \in 1 .. Backlog(d) : Waiting(u)[i] = Waiting(d)[i]
             /\ Waiting(u)[Backlog(d) + 1] = e
<1> DEFINE u == Appended(d, e)
           b == Backlog(d)
           t == Rem(d.tail, PendingMax)
           next == Rem(d.tail + 1, Wrap)
<1>1. d.head \in 0 .. Wrap - 1 /\ d.tail \in 0 .. Wrap - 1 /\ d.slot \in [0 .. PendingMax - 1 -> Nat]
  BY Zenon DEF Queue
<1>2. b \in 0 .. PendingMax - 1 /\ d.tail \in Int /\ d.tail + 1 \in Int
  BY <1>1, Sizes, BacklogIs
<1>3. t \in 0 .. PendingMax - 1 /\ next \in 0 .. Wrap - 1
  BY <1>2, Sizes, RemIn, Zenon
<1>4. next = IF d.tail + 1 < Wrap THEN d.tail + 1 ELSE d.tail + 1 - Wrap
  <2>1. 1 \in 0 .. PendingMax
    BY Sizes
  <2> QED
    BY <1>1, <2>1, Advanced, Zenon
<1>5. /\ u.slot = [d.slot EXCEPT ![t] = e] /\ u.tail = next /\ u.head = d.head
      /\ u.bufs = d.bufs /\ u.ready = d.ready /\ u.seen = d.seen
  BY DEF Queue, Appended, Rem
<1>6. u \in Queue
  BY <1>1, <1>3, Zenon DEF Queue, Appended, Rem
<1> HIDE DEF u, b, t, next
<1>7. b = IF d.head <= d.tail THEN d.tail - d.head ELSE d.tail - d.head + Wrap
  BY BacklogIs, Zenon DEF b
<1>8. Backlog(u) = b + 1
  <2>1. Backlog(u) = IF d.head <= next THEN next - d.head ELSE next - d.head + Wrap
    BY <1>5, <1>6, BacklogIs, Zenon
  <2>2. PICK h \in 0 .. Wrap - 1, l \in 0 .. Wrap - 1 : h = d.head /\ l = d.tail
    BY <1>1, Zenon
  <2>3. /\ b = IF h <= l THEN l - h ELSE l - h + Wrap
        /\ next = IF l + 1 < Wrap THEN l + 1 ELSE l + 1 - Wrap
        /\ Backlog(u) = IF h <= next THEN next - h ELSE next - h + Wrap
    BY <1>4, <1>7, <2>1, <2>2, Zenon
  <2> QED
    BY <1>2, <2>3, Sizes
<1>9. t = Rem(d.head + b, PendingMax)
  <2> DEFINE last == Rem(d.head + b, Wrap)
  <2>1. b \in 0 .. PendingMax
    BY <1>2, Sizes
  <2>2. last = IF d.head + b < Wrap THEN d.head + b ELSE d.head + b - Wrap
    BY <1>1, <2>1, Advanced, Zenon
  <2>3. Rem(last, PendingMax) = Rem(d.head + b, PendingMax)
    BY <1>1, <2>1, Advanced, Zenon
  <2> HIDE DEF last
  <2>4. last = d.tail
    <3>1. PICK h \in 0 .. Wrap - 1, l \in 0 .. Wrap - 1 : h = d.head /\ l = d.tail
      BY <1>1, Zenon
    <3>2. /\ b = IF h <= l THEN l - h ELSE l - h + Wrap
          /\ last = IF h + b < Wrap THEN h + b ELSE h + b - Wrap
      BY <1>7, <2>2, <3>1, Zenon
    <3>3. last = l
      BY <1>2, <3>2, Sizes
    <3> QED
      BY <3>1, <3>3, Zenon
  <2> QED
    BY <2>3, <2>4, Zenon DEF t
<1>10. b <= PendingMax /\ Backlog(u) <= PendingMax /\ Backlog(d) = b
  BY <1>2, <1>8, Sizes DEF b
<1>11. PICK h \in 0 .. Wrap - 1 : h = d.head /\ t = Rem(h + b, PendingMax)
  BY <1>1, <1>9, Zenon
<1>12. ASSUME NEW i \in 1 .. b PROVE Waiting(u)[i] = Waiting(d)[i]
  <2> DEFINE p == Rem(h + i - 1, PendingMax)
  <2>1. /\ h + i - 1 < h + b /\ h + b - (h + i - 1) < PendingMax
        /\ h + i - 1 \in Int /\ h + b \in Int
    BY <1>2, Sizes
  <2>2. p # t
    <3>1. PICK x \in Int, y \in Int : x = h + i - 1 /\ y = h + b /\ x < y /\ y - x < PendingMax
      BY <1>2, <2>1, Sizes
    <3>2. Rem(x, PendingMax) # Rem(y, PendingMax)
      BY <3>1, RemDiffers, Sizes, Zenon
    <3> QED
      BY <1>11, <3>1, <3>2, Zenon
  <2>3. p \in 0 .. PendingMax - 1
    BY <2>1, RemIn, Sizes, Zenon
  <2>4. i \in 1 .. Backlog(u) /\ i \in 1 .. Backlog(d)
    BY <1>2, <1>8, <1>10
  <2>5. Waiting(u)[i] = u.slot[p]
    BY <1>5, <1>6, <1>10, <1>11, <2>4, WaitingIs
  <2>6. Waiting(d)[i] = d.slot[p]
    BY <1>10, <1>11, <2>4, WaitingIs, Zenon
  <2> HIDE DEF p
  <2> QED
    BY <1>1, <1>5, <2>2, <2>3, <2>5, <2>6, Zenon
<1>13. Waiting(u)[b + 1] = e
  <2>1. PICK j \in 1 .. Backlog(u) : j = b + 1 /\ h + j - 1 = h + b
    BY <1>2, <1>8
  <2>2. Waiting(u)[j] = u.slot[Rem(h + j - 1, PendingMax)]
    BY <1>5, <1>6, <1>10, <1>11, WaitingIs, Zenon
  <2>3. Waiting(u)[b + 1] = u.slot[t]
    BY <1>11, <2>1, <2>2, Zenon
  <2> QED
    BY <1>1, <1>3, <1>5, <2>3, Zenon
<1> QED
  BY <1>5, <1>6, <1>8, <1>12, <1>13, Zenon DEF u, b

\* The first n packets that wait are used up.
Drained(d, u, n) ==
  /\ u \in Queue /\ n \in 0 .. Backlog(d) /\ Backlog(u) = Backlog(d) - n
  /\ \A i \in 1 .. Backlog(u) : Waiting(u)[i] = Waiting(d)[i + n]
  /\ u.seen = IF n = 0 THEN d.seen ELSE Waiting(d)[n]
  /\ d.head = d.tail => u.head = u.tail

LEMMA FlushedIs ==
  ASSUME NEW d \in Queue, Backlog(d) <= PendingMax
  PROVE  \E n \in Nat : Drained(d, flush_pending(d), n)
<1> DEFINE n == IF d.ready THEN Smaller(Backlog(d), d.bufs) ELSE 0
           u == flush_pending(d)
           b == Backlog(d)
           first == Rem(d.head + n, Wrap)
<1>1. /\ d.head \in 0 .. Wrap - 1 /\ d.tail \in 0 .. Wrap - 1 /\ d.bufs \in Nat /\ d.seen \in Nat
      /\ d.slot \in [0 .. PendingMax - 1 -> Nat]
  BY Zenon DEF Queue
<1>2. b \in 0 .. PendingMax
  BY Sizes, BacklogIs
<1>3. n \in 0 .. b /\ n \in 0 .. PendingMax
  BY <1>1, <1>2, Sizes DEF Smaller
<1>4. d.bufs - n \in Nat
  BY <1>1, <1>2, Sizes DEF Smaller
<1>5. /\ u.slot = d.slot /\ u.tail = d.tail /\ u.head = first
      /\ u.bufs = d.bufs - n /\ u.ready = d.ready /\ u.seen = IF n = 0 THEN d.seen ELSE Waiting(d)[n]
  BY Zenon DEF Queue, flush_pending, Rem
<1>6. n # 0 => n \in 1 .. b /\ Waiting(d)[n] \in Nat
  BY <1>2, <1>3, WaitingIs
<1>7. first \in 0 .. Wrap - 1
  <2>1. d.head + n \in Int
    BY <1>1, <1>2, <1>3
  <2> QED
    BY <2>1, Sizes, RemIn, Zenon
<1>8. u \in Queue
  BY <1>1, <1>3, <1>4, <1>6, <1>7 DEF Queue, flush_pending, Rem
<1> HIDE DEF n
<1>9. first = IF d.head + n < Wrap THEN d.head + n ELSE d.head + n - Wrap
  BY <1>1, <1>3, Advanced, Zenon
<1> HIDE DEF u, b, first
<1>10. PICK h \in 0 .. Wrap - 1, l \in 0 .. Wrap - 1 :
        /\ h = d.head /\ l = d.tail
        /\ first = IF h + n < Wrap THEN h + n ELSE h + n - Wrap
        /\ b = IF h <= l THEN l - h ELSE l - h + Wrap
  BY <1>1, <1>9, BacklogIs, Zenon DEF b
<1>11. Backlog(u) = b - n
  <2>1. Backlog(u) = IF first <= l THEN l - first ELSE l - first + Wrap
    BY <1>5, <1>8, <1>10, BacklogIs, Zenon
  <2> QED
    BY <1>2, <1>3, <1>10, <2>1, Sizes
<1>12. Backlog(d) = b /\ Backlog(u) <= PendingMax
  BY <1>2, <1>3, <1>11, Sizes DEF b
<1>13. ASSUME NEW i \in 1 .. Backlog(u) PROVE Waiting(u)[i] = Waiting(d)[i + n]
  <2>1. i + n \in 1 .. b /\ h + (i + n) - 1 = h + n + i - 1 /\ h + n + i - 1 \in Int
    BY <1>2, <1>3, <1>11
  <2>2. Waiting(u)[i] = d.slot[Rem(first + i - 1, PendingMax)]
    BY <1>5, <1>8, <1>12, WaitingIs, Zenon
  <2>3. Waiting(d)[i + n] = d.slot[Rem(h + n + i - 1, PendingMax)]
    BY <1>10, <1>12, <2>1, WaitingIs
  <2>4. Rem(first + i - 1, PendingMax) = Rem(h + n + i - 1, PendingMax)
    <3>1. CASE h + n < Wrap
      BY <1>10, <3>1, Zenon
    <3>2. CASE ~(h + n < Wrap)
      <4>1. PICK x \in Int : x = h + n + i - 1
        BY <2>1, Zenon
      <4>2. first = h + n - Wrap /\ h \in Int /\ n \in Int /\ i \in Int /\ Wrap \in Int
        BY <1>2, <1>3, <1>10, <1>11, <3>2, Sizes
      <4>3. first + i - 1 = x - Wrap
        BY <4>1, <4>2
      <4>4. Rem(x - Wrap, PendingMax) = Rem(x, PendingMax)
        BY <4>2, RemMultiple, Sizes, Divisible, Zenon
      <4> QED
        BY <4>1, <4>3, <4>4, Zenon
    <3> QED
      BY <3>1, <3>2, Zenon
  <2> QED
    BY <2>2, <2>3, <2>4, Zenon
<1>14. d.head = d.tail => u.head = u.tail
  <2>1. h = l => b = 0 /\ n = 0 /\ first = h
    BY <1>2, <1>3, <1>10, Sizes
  <2> QED
    BY <1>5, <1>10, <2>1, Zenon
<1>15. n \in Nat /\ n \in 0 .. Backlog(d) /\ Backlog(u) = Backlog(d) - n
  BY <1>2, <1>3, <1>11, <1>12
<1>16. Drained(d, u, n)
  BY <1>5, <1>8, <1>13, <1>14, <1>15, Zenon DEF Drained
<1> QED
  BY <1>15, <1>16, Zenon DEF u

-----------------------------------------------------------------------------
(* Packets pass through the queue in order *)

\* The packets that wait.
Items(d) == Range(Waiting(d))

Ascending(d) == \A i, j \in 1 .. Backlog(d) : i < j => Waiting(d)[i] < Waiting(d)[j]

\* The queue after e packets.
QueueOK(d, e) ==
  /\ d \in Queue /\ Backlog(d) <= PendingMax /\ Ascending(d)
  /\ \A i \in 1 .. Backlog(d) : Waiting(d)[i] \in 1 .. e
  /\ kind = "vhci" => d.head = d.tail

\* The packets in R are read, in order: what waits and what the guest saw last.
Reads(R, rest, last, seen) ==
  /\ \A i \in R, j \in rest : i < j
  /\ IF R = {} THEN seen = last ELSE seen \in R /\ \A i \in R : i <= seen

LEMMA ItemsAre ==
  ASSUME NEW d \in Queue, Backlog(d) <= PendingMax
  PROVE  Items(d) = {Waiting(d)[i] : i \in 1 .. Backlog(d)}
BY WaitingIs, Zenon DEF Items, Range

LEMMA FlushReads ==
  ASSUME NEW e \in Nat, NEW d, QueueOK(d, e)
  PROVE  LET u == flush_pending(d)
         IN  /\ QueueOK(u, e) /\ Items(u) \subseteq Items(d)
             /\ Reads(Items(d) \ Items(u), Items(u), d.seen, u.seen)
<1> DEFINE u == flush_pending(d)
<1>1. d \in Queue /\ Backlog(d) <= PendingMax /\ Ascending(d)
  BY Zenon DEF QueueOK
<1>2. PICK n \in Nat : Drained(d, u, n)
  BY <1>1, FlushedIs, Zenon
<1> HIDE DEF u
<1>3. PICK b \in Nat, c \in Nat : b = Backlog(d) /\ c = Backlog(u) /\ n \in 0 .. b /\ c = b - n
  BY <1>1, <1>2, BacklogIs, Sizes DEF Drained
<1>4. \A i \in 1 .. c : i + n \in 1 .. b /\ Waiting(u)[i] = Waiting(d)[i + n]
  BY <1>2, <1>3 DEF Drained
<1>5. u \in Queue /\ Backlog(u) <= PendingMax
  BY <1>1, <1>2, <1>3, Sizes DEF Drained
<1>6. \A i \in 1 .. b : Waiting(d)[i] \in 1 .. e
  BY <1>3, Zenon DEF QueueOK
<1>7. \A i, j \in 1 .. b : i < j => Waiting(d)[i] < Waiting(d)[j]
  BY <1>1, <1>3, Zenon DEF Ascending
<1>8. QueueOK(u, e)
  <2>1. Ascending(u)
    <3> SUFFICES ASSUME NEW i \in 1 .. c, NEW j \in 1 .. c, i < j PROVE Waiting(u)[i] < Waiting(u)[j]
      BY <1>3, Zenon DEF Ascending
    <3>1. i + n < j + n
      BY <1>3
    <3> QED
      BY <1>4, <1>7, <3>1, Zenon
  <2>2. \A i \in 1 .. Backlog(u) : Waiting(u)[i] \in 1 .. e
    BY <1>3, <1>4, <1>6, Zenon
  <2>3. kind = "vhci" => u.head = u.tail
    BY <1>2, Zenon DEF QueueOK, Drained
  <2> QED
    BY <1>5, <2>1, <2>2, <2>3, Zenon DEF QueueOK
<1>9. Items(d) = {Waiting(d)[i] : i \in 1 .. b} /\ Items(u) = {Waiting(u)[i] : i \in 1 .. c}
  BY <1>1, <1>3, <1>5, ItemsAre, Zenon
<1>10. Items(u) = {Waiting(d)[i] : i \in n + 1 .. b}
  <2>1. ASSUME NEW i \in n + 1 .. b PROVE i - n \in 1 .. c /\ Waiting(u)[i - n] = Waiting(d)[i]
    <3>1. PICK k \in 1 .. c : k = i - n /\ k + n = i
      BY <1>3
    <3> QED
      BY <1>4, <3>1, Zenon
  <2>2. ASSUME NEW i \in 1 .. c PROVE i + n \in n + 1 .. b
    BY <1>3
  <2> QED
    BY <1>4, <1>9, <2>1, <2>2
<1>11. Items(d) \ Items(u) = {Waiting(d)[i] : i \in 1 .. n}
  <2>1. ASSUME NEW i \in 1 .. n, NEW j \in n + 1 .. b PROVE Waiting(d)[i] < Waiting(d)[j]
    BY <1>3, <1>7
  <2>2. ASSUME NEW i \in 1 .. n PROVE i \in 1 .. b /\ Waiting(d)[i] \notin Items(u)
    <3>1. i \in 1 .. b /\ Waiting(d)[i] \in Nat
      BY <1>3, <1>6
    <3>2. \A j \in n + 1 .. b : j \in 1 .. b /\ Waiting(d)[j] # Waiting(d)[i]
      <4>1. ASSUME NEW j \in n + 1 .. b PROVE j \in 1 .. b /\ Waiting(d)[j] # Waiting(d)[i]
        <5>1. j \in 1 .. b /\ Waiting(d)[i] < Waiting(d)[j]
          BY <1>3, <2>1
        <5>2. Waiting(d)[j] \in Nat
          BY <1>6, <5>1
        <5> QED
          BY <3>1, <5>1, <5>2
      <4> QED
        BY <4>1, Zenon
    <3> QED
      BY <1>10, <3>1, <3>2, Zenon
  <2>3. ASSUME NEW i \in 1 .. b, i \notin 1 .. n PROVE i \in n + 1 .. b
    BY <1>3, <2>3
  <2> QED
    BY <1>9, <1>10, <2>2, <2>3, Zenon
<1>12. Reads(Items(d) \ Items(u), Items(u), d.seen, u.seen)
  <2>1. \A i \in 1 .. n, j \in n + 1 .. b : Waiting(d)[i] < Waiting(d)[j]
    BY <1>3, <1>7
  <2>2. CASE n = 0
    <3>1. u.seen = d.seen /\ 1 .. n = {}
      BY <1>2, <2>2 DEF Drained
    <3> QED
      BY <1>11, <3>1, Zenon DEF Reads
  <2>3. CASE n # 0
    <3>1. n \in 1 .. n /\ u.seen = Waiting(d)[n]
      BY <1>2, <2>3 DEF Drained
    <3>2. ASSUME NEW i \in 1 .. n PROVE Waiting(d)[i] <= Waiting(d)[n]
      <4>1. i \in 1 .. b /\ n \in 1 .. b /\ (i = n \/ i < n)
        BY <1>3
      <4> QED
        BY <1>6, <1>7, <4>1
    <3> QED
      BY <1>10, <1>11, <2>1, <3>1, <3>2 DEF Reads
  <2> QED
    BY <2>2, <2>3, Zenon
<1>13. Items(u) \subseteq Items(d)
  <2>1. ASSUME NEW i \in n + 1 .. b PROVE i \in 1 .. b
    BY <1>3
  <2> QED
    BY <1>9, <1>10, <2>1, Zenon
<1> QED
  BY <1>8, <1>12, <1>13, Zenon DEF u

LEMMA AppendAdds ==
  ASSUME NEW e \in Nat, NEW d, QueueOK(d, e), Backlog(d) < PendingMax, kind # "vhci"
  PROVE  LET u == Appended(d, e + 1)
         IN  QueueOK(u, e + 1) /\ Items(u) = Items(d) \cup {e + 1} /\ u.seen = d.seen
<1> DEFINE u == Appended(d, e + 1)
<1>1. d \in Queue /\ Backlog(d) <= PendingMax /\ Ascending(d) /\ e + 1 \in Nat
  BY DEF QueueOK
<1>2. /\ u \in Queue /\ u.seen = d.seen /\ Backlog(u) = Backlog(d) + 1
      /\ \A i \in 1 .. Backlog(d) : Waiting(u)[i] = Waiting(d)[i]
      /\ Waiting(u)[Backlog(d) + 1] = e + 1
  BY <1>1, AppendedIs, Zenon
<1> HIDE DEF u
<1>3. PICK b \in Nat : b = Backlog(d) /\ b < PendingMax
  BY <1>1, BacklogIs, Sizes
<1>4. Backlog(u) = b + 1 /\ Backlog(u) <= PendingMax /\ b + 1 \in 1 .. b + 1
  BY <1>2, <1>3, Sizes
<1>5. \A i \in 1 .. b : Waiting(u)[i] = Waiting(d)[i] /\ Waiting(d)[i] \in 1 .. e
  BY <1>2, <1>3, Zenon DEF QueueOK
<1>6. Waiting(u)[b + 1] = e + 1
  BY <1>2, <1>3, Zenon
<1>7. ASSUME NEW i \in 1 .. b + 1 PROVE i \in 1 .. b \/ i = b + 1
  BY <1>3
<1>8. Ascending(u)
  <2> SUFFICES ASSUME NEW i \in 1 .. b + 1, NEW j \in 1 .. b + 1, i < j PROVE Waiting(u)[i] < Waiting(u)[j]
    BY <1>4, Zenon DEF Ascending
  <2>1. i \in 1 .. b /\ (j \in 1 .. b \/ j = b + 1)
    BY <1>3
  <2>2. CASE j \in 1 .. b
    BY <1>1, <1>3, <1>5, <2>1, <2>2, Zenon DEF Ascending
  <2>3. CASE j = b + 1
    BY <1>5, <1>6, <2>1, <2>3
  <2> QED
    BY <2>1, <2>2, <2>3, Zenon
<1>9. \A i \in 1 .. Backlog(u) : Waiting(u)[i] \in 1 .. e + 1
  BY <1>4, <1>5, <1>6, <1>7
<1>10. Items(d) = {Waiting(d)[i] : i \in 1 .. b} /\ Items(u) = {Waiting(u)[i] : i \in 1 .. b + 1}
  BY <1>1, <1>2, <1>3, <1>4, ItemsAre, Zenon
<1>11. \A i \in 1 .. b : i \in 1 .. b + 1
  BY <1>3
<1>12. Items(u) = Items(d) \cup {e + 1}
  BY <1>4, <1>5, <1>6, <1>7, <1>10, <1>11, Zenon
<1>13. QueueOK(u, e + 1)
  BY <1>2, <1>4, <1>8, <1>9, Zenon DEF QueueOK
<1> QED
  BY <1>2, <1>12, <1>13, Zenon DEF u

\* From d0 and e0 packets to d and e packets: some of the packets e0 + 1 .. e are accepted,
\* and the first of all are read.  None is refused unless the queue ends up full.
Passed(d0, e0, d, e) ==
  \E accepted \in SUBSET (e0 + 1 .. e) :
    /\ Items(d) \subseteq Items(d0) \cup accepted
    /\ Reads((Items(d0) \cup accepted) \ Items(d), Items(d), d0.seen, d.seen)
    /\ accepted # e0 + 1 .. e => Backlog(d) = PendingMax

LEMMA ItemsBelow ==
  ASSUME NEW e \in Nat, NEW d, QueueOK(d, e)
  PROVE  Items(d) \subseteq 1 .. e
<1>1. Items(d) = {Waiting(d)[i] : i \in 1 .. Backlog(d)}
  BY ItemsAre, Zenon DEF QueueOK
<1> QED
  BY <1>1, Zenon DEF QueueOK

\* One packet: it is refused by a full queue, or accepted, and the queue flushed.
LEMMA HciToHost ==
  ASSUME NEW e \in Nat, NEW d, QueueOK(d, e)
  PROVE  LET u == cb_hci_to_host(d, e + 1)
         IN  /\ QueueOK(u, e + 1)
             /\ \/ u = d /\ Backlog(d) = PendingMax
                \/ /\ Backlog(d) < PendingMax /\ Items(u) \subseteq Items(d) \cup {e + 1}
                   /\ Reads((Items(d) \cup {e + 1}) \ Items(u), Items(u), d.seen, u.seen)
<1> DEFINE u == cb_hci_to_host(d, e + 1)
<1>1. d \in Queue /\ Backlog(d) <= PendingMax /\ Backlog(d) \in Nat /\ e + 1 \in Nat
  BY BacklogIs, Sizes DEF QueueOK
<1>2. CASE kind = "vhci"
  <2>1. u = [d EXCEPT !.seen = e + 1]
    BY <1>2, Zenon DEF cb_hci_to_host
  <2>2. /\ u \in Queue /\ u.head = d.head /\ u.tail = d.tail /\ u.slot = d.slot /\ u.seen = e + 1
    BY <1>1, <2>1, Zenon DEF Queue
  <2>3. Backlog(u) = Backlog(d) /\ Waiting(u) = Waiting(d)
    BY <2>2, Zenon DEF Backlog, Waiting
  <2>4. d.head = d.tail
    BY <1>2, Zenon DEF QueueOK
  <2>5. Backlog(d) = 0 /\ Backlog(u) = 0
    <3>1. PICK h \in 0 .. Wrap - 1 : h = d.head
      BY <1>1, Zenon DEF Queue
    <3>2. Backlog(d) = IF h <= h THEN h - h ELSE h - h + Wrap
      BY <1>1, <2>4, <3>1, BacklogIs, Zenon
    <3> QED
      BY <2>3, <3>2, Sizes
  <2>6. Items(d) = {} /\ Items(u) = {}
    BY <1>1, <2>2, <2>5, ItemsAre, Sizes
  <2>7. QueueOK(u, e + 1)
    BY <1>1, <2>2, <2>4, <2>5 DEF QueueOK, Ascending
  <2>8. Reads({e + 1}, {}, d.seen, u.seen)
    BY <1>1, <2>2 DEF Reads
  <2> QED
    BY <2>5, <2>6, <2>7, <2>8, Sizes
<1>3. CASE kind # "vhci" /\ Backlog(d) >= PendingMax
  <2>1. u = d /\ Backlog(d) = PendingMax
    BY <1>1, <1>3, Sizes DEF cb_hci_to_host
  <2>2. QueueOK(d, e + 1)
    <3>1. \A i \in 1 .. e : i \in 1 .. e + 1
      OBVIOUS
    <3> QED
      BY <3>1, Zenon DEF QueueOK
  <2> QED
    BY <2>1, <2>2, Zenon
<1>4. CASE kind # "vhci" /\ ~(Backlog(d) >= PendingMax)
  <2> DEFINE a == Appended(d, e + 1)
  <2>1. Backlog(d) < PendingMax /\ u = flush_pending(a)
    <3>1. Backlog(d) < PendingMax
      BY <1>1, <1>4, Sizes
    <3>2. u = flush_pending(a)
      BY <1>4, Zenon DEF cb_hci_to_host, Appended
    <3> QED
      BY <3>1, <3>2, Zenon
  <2>2. QueueOK(a, e + 1) /\ Items(a) = Items(d) \cup {e + 1} /\ a.seen = d.seen
    BY <1>4, <2>1, AppendAdds, Zenon
  <2> HIDE DEF a
  <2>3. QueueOK(u, e + 1) /\ Items(u) \subseteq Items(a) /\ Reads(Items(a) \ Items(u), Items(u), a.seen, u.seen)
    BY <1>1, <2>1, <2>2, FlushReads, Zenon
  <2> QED
    BY <2>1, <2>2, <2>3, Zenon
<1> QED
  BY <1>2, <1>3, <1>4, Zenon

\* Packets pass one after the other.
LEMMA PassedOn ==
  ASSUME NEW e0 \in Nat, NEW e \in Nat, e0 <= e, NEW d0, NEW d, QueueOK(d0, e0), QueueOK(d, e),
         Passed(d0, e0, d, e)
  PROVE  LET u == cb_hci_to_host(d, e + 1)
         IN  QueueOK(u, e + 1) /\ Passed(d0, e0, u, e + 1)
<1> DEFINE u == cb_hci_to_host(d, e + 1)
<1>1. PICK acc \in SUBSET (e0 + 1 .. e) :
        /\ Items(d) \subseteq Items(d0) \cup acc
        /\ Reads((Items(d0) \cup acc) \ Items(d), Items(d), d0.seen, d.seen)
        /\ acc # e0 + 1 .. e => Backlog(d) = PendingMax
  BY Zenon DEF Passed
<1>2. QueueOK(u, e + 1)
  BY HciToHost, Zenon
<1>3. CASE u = d /\ Backlog(d) = PendingMax
  <2>1. acc \in SUBSET (e0 + 1 .. e + 1)
    BY <1>1
  <2> QED
    BY <1>1, <1>2, <1>3, <2>1, Zenon DEF Passed
<1>4. CASE /\ Backlog(d) < PendingMax /\ Items(u) \subseteq Items(d) \cup {e + 1}
           /\ Reads((Items(d) \cup {e + 1}) \ Items(u), Items(u), d.seen, u.seen)
  <2> DEFINE I0 == Items(d0)
             I1 == Items(d)
             I2 == Items(u)
             G  == (I0 \cup acc) \ I1
             R  == (I1 \cup {e + 1}) \ I2
             all == acc \cup {e + 1}
  <2>1. Backlog(d) # PendingMax
    <3>1. Backlog(d) \in Nat
      BY BacklogIs, Sizes DEF QueueOK
    <3> QED
      BY <1>4, <3>1, Sizes
  <2>2. all = e0 + 1 .. e + 1 /\ acc = e0 + 1 .. e
    BY <1>1, <2>1
  <2>3. I0 \subseteq 1 .. e0 /\ I1 \subseteq 1 .. e
    BY ItemsBelow, Zenon
  <2>4. \A x \in G : x \in Nat /\ x < e + 1
    BY <2>2, <2>3
  <2>5. Reads(G, I1, d0.seen, d.seen) /\ Reads(R, I2, d.seen, u.seen) /\ I1 \subseteq I0 \cup acc
        /\ I2 \subseteq I1 \cup {e + 1}
    BY <1>1, <1>4, Zenon
  <2>6. \A x \in R : x \in Nat
    BY <2>3
  <2> HIDE DEF I0, I1, I2
  <2>7. (I0 \cup all) \ I2 = G \cup R
    <3>1. \A x \in G : x # e + 1
      BY <2>4
    <3> QED
      BY <2>5, <3>1, Zenon
  <2> HIDE DEF G, all
  <2>8. \A x \in G : (\A y \in I1 : x < y) /\ x < e + 1
    BY <2>4, <2>5, Zenon DEF Reads
  <2>9. \A x \in G, y \in R : x < y
    BY <2>8, Zenon DEF R
  <2>10. \A x \in G \cup R, y \in I2 : x < y
    BY <2>5, <2>8, Zenon DEF Reads
  <2> HIDE DEF R
  <2>11. Reads(G \cup R, I2, d0.seen, u.seen)
    <3>1. CASE R = {}
      BY <2>5, <2>10, <3>1, Zenon DEF Reads
    <3>2. CASE R # {}
      <4>1. u.seen \in R /\ (\A x \in R : x <= u.seen)
        BY <2>5, <3>2, Zenon DEF Reads
      <4>2. ASSUME NEW x \in G PROVE x <= u.seen
        <5>1. x < u.seen /\ x \in Nat /\ u.seen \in Nat
          BY <2>4, <2>6, <2>9, <4>1, Zenon
        <5> QED
          BY <5>1
      <4> QED
        BY <2>10, <3>2, <4>1, <4>2, Zenon DEF Reads
    <3> QED
      BY <3>1, <3>2, Zenon
  <2>12. I2 \subseteq I0 \cup all
    BY <2>5, Zenon DEF all
  <2>13. Passed(d0, e0, u, e + 1)
    <3>1. all \in SUBSET (e0 + 1 .. e + 1)
      BY <2>2, Zenon
    <3> QED
      BY <2>2, <2>7, <2>11, <2>12, <3>1, Zenon DEF Passed, I0, I2
  <2> QED
    BY <1>2, <2>13, Zenon
<1> QED
  BY <1>3, <1>4, HciToHost, Zenon

-----------------------------------------------------------------------------
(* Folds *)

\* A non-empty set of naturals has a least element.
LEMMA LeastElement ==
  ASSUME NEW S \in SUBSET Nat, S # {}
  PROVE  \E m \in S : \A n \in S : m <= n
<1>1. PICK m \in S : \A n \in S : <<n, m>> \notin OpToRel(<, Nat)
  BY NatLessThanWellFounded, WFMin, Zenon
<1>2. \A n \in S : ~(n < m)
  BY <1>1, Zenon DEF OpToRel
<1> QED
  BY <1>2

\* Induction: a set with 0 that is closed under the steps up to N has all of 0 .. N.
LEMMA SetInduction ==
  ASSUME NEW N \in Nat, NEW S, 0 \in S,
         \A k \in 1 .. N : k - 1 \in S => k \in S
  PROVE  \A k \in 0 .. N : k \in S
<1> DEFINE Bad == {k \in 0 .. N : k \notin S}
<1>1. SUFFICES ASSUME Bad # {} PROVE FALSE
  BY Zenon
<1>2. Bad \in SUBSET Nat
  OBVIOUS
<1>3. PICK m \in Bad : \A n \in Bad : m <= n
  BY <1>1, <1>2, LeastElement, Zenon
<1>4. m \in 1 .. N /\ m - 1 \in 0 .. N /\ m - 1 \notin Bad
  BY <1>3
<1>5. m - 1 \in S
  BY <1>4, Zenon
<1>6. QED
  BY <1>3, <1>4, <1>5, Zenon

\* A non-empty set of numbers up to n has a greatest one.
LEMMA MaxIs ==
  ASSUME NEW n \in Nat, NEW S \in SUBSET (1 .. n), S # {}
  PROVE  Max(S) \in S /\ \A x \in S : x <= Max(S)
<1> DEFINE T == {n - x : x \in S}
<1>1. \A x \in S : x \in Nat /\ n - x \in Nat /\ n - x \in T
  OBVIOUS
<1>2. T \in SUBSET Nat /\ T # {}
  BY <1>1, Zenon
<1>3. PICK m \in T : \A k \in T : m <= k
  BY <1>2, LeastElement, Zenon
<1>4. PICK y \in S : m = n - y
  BY Zenon
<1> HIDE DEF T
<1>5. ASSUME NEW x \in S PROVE y >= x
  <2>1. n - y <= n - x /\ x \in Nat /\ y \in Nat
    BY <1>1, <1>3, <1>4, Zenon
  <2> QED
    BY <2>1
<1>6. Max(S) \in S /\ \A x \in S : Max(S) >= x
  BY <1>5, Zenon DEF Max
<1>7. \A x \in S : x \in Nat
  BY <1>1, Zenon
<1> QED
  BY <1>6, <1>7, Zenon

\* f folds the steps op over the subsets of S, from a; ch picks the last element.
Folds(f, S, a, op, ch) ==
  \A s \in SUBSET S : f[s] = IF s = {} THEN a ELSE op[ch[s]][f[s \ {ch[s]}]]

Chooses(ch, S) == \A s \in SUBSET S : s # {} => ch[s] \in s

LEMMA FoldExists ==
  ASSUME NEW S, IsFiniteSet(S), NEW A, NEW a \in A, NEW op \in [S -> [A -> A]],
         NEW ch, Chooses(ch, S)
  PROVE  \E f \in [SUBSET S -> A] : Folds(f, S, a, op, ch)
<1> DEFINE Size(s) == Cardinality(s)
           x(s) == ch[s]
           Right(f, n) == \A s \in SUBSET S : Size(s) <= n =>
                           f[s] = IF s = {} THEN a ELSE op[x(s)][f[s \ {x(s)}]]
           N == {n \in Nat : \E f \in [SUBSET S -> A] : Right(f, n)}
<1>1. \A s \in SUBSET S : IsFiniteSet(s) /\ Size(s) \in Nat /\ (Size(s) = 0 <=> s = {})
  BY FS_Subset, FS_CardinalityType, FS_EmptySet, Zenon
<1>2. \A s \in SUBSET S : s # {} => x(s) \in s /\ s \ {x(s)} \in SUBSET S /\ Size(s \ {x(s)}) = Size(s) - 1
  BY <1>1, FS_RemoveElement, Zenon DEF Chooses
<1> HIDE DEF Size, x
<1>3. 0 \in N
  <2>1. [s \in SUBSET S |-> a] \in [SUBSET S -> A] /\ Right([s \in SUBSET S |-> a], 0)
    BY <1>1
  <2> QED
    BY <2>1, Zenon
<1>4. ASSUME NEW n \in N PROVE n + 1 \in N
  <2>1. PICK f \in [SUBSET S -> A] : Right(f, n)
    BY Zenon
  <2> DEFINE g == [s \in SUBSET S |-> IF Size(s) <= n THEN f[s] ELSE op[x(s)][f[s \ {x(s)}]]]
  <2>2. ASSUME NEW s \in SUBSET S PROVE g[s] \in A
    <3>1. CASE Size(s) <= n
      BY <3>1, Zenon
    <3>2. CASE ~(Size(s) <= n)
      <4>1. s # {}
        BY <1>1, <3>2
      <4>2. op[x(s)] \in [A -> A] /\ f[s \ {x(s)}] \in A
        BY <1>2, <4>1, Zenon
      <4> QED
        BY <3>2, <4>2, Zenon
    <3> QED
      BY <3>1, <3>2, Zenon
  <2>3. g \in [SUBSET S -> A]
    BY <2>2, Zenon
  <2>4. ASSUME NEW s \in SUBSET S, Size(s) <= n + 1
        PROVE  g[s] = IF s = {} THEN a ELSE op[x(s)][g[s \ {x(s)}]]
    <3>1. CASE s = {}
      <4>1. Size(s) <= n /\ Size(s) \in Nat
        BY <1>1, <3>1
      <4>2. g[s] = f[s] /\ f[s] = a
        BY <2>1, <3>1, <4>1, Zenon
      <4> QED
        BY <3>1, <4>2, Zenon
    <3>2. CASE s # {}
      <4>1. s \ {x(s)} \in SUBSET S /\ Size(s \ {x(s)}) <= n
        BY <1>1, <1>2, <2>4, <3>2
      <4>2. g[s \ {x(s)}] = f[s \ {x(s)}]
        BY <4>1, Zenon
      <4>3. g[s] = op[x(s)][f[s \ {x(s)}]]
        <5>1. CASE Size(s) <= n
          <6>1. g[s] = f[s]
            BY <5>1, Zenon
          <6> QED
            BY <2>1, <3>2, <5>1, <6>1, Zenon
        <5>2. CASE ~(Size(s) <= n)
          BY <5>2, Zenon
        <5> QED
          BY <5>1, <5>2, Zenon
      <4> QED
        BY <3>2, <4>2, <4>3, Zenon
    <3> QED
      BY <3>1, <3>2, Zenon
  <2> HIDE DEF g
  <2>5. Right(g, n + 1)
    BY <2>4, Zenon
  <2>6. n + 1 \in Nat
    OBVIOUS
  <2> HIDE DEF Right
  <2> QED
    BY <2>3, <2>5, <2>6, Zenon
<1> HIDE DEF N
<1>5. Cardinality(S) \in N
  <2> DEFINE Bad == {n \in Nat : n \notin N}
  <2>1. SUFFICES ASSUME Bad # {} PROVE FALSE
    BY FS_CardinalityType, Zenon
  <2>2. PICK m \in Bad : \A n \in Bad : m <= n
    BY <2>1, LeastElement, Zenon
  <2>3. m \in Nat /\ m \notin N /\ m # 0
    BY <1>3, <2>2, Zenon
  <2>4. m - 1 \in Nat /\ ~(m <= m - 1) /\ (m - 1) + 1 = m
    BY <2>3
  <2>5. m - 1 \in N
    BY <2>2, <2>4, Zenon
  <2> QED
    BY <1>4, <2>3, <2>4, <2>5, Zenon
<1>6. PICK f \in [SUBSET S -> A] : Right(f, Cardinality(S))
  BY <1>5, Zenon DEF N
<1>7. \A s \in SUBSET S : Size(s) <= Cardinality(S)
  BY FS_Subset, Zenon DEF Size
<1> QED
  BY <1>6, <1>7, Zenon DEF Folds, x

LEMMA QueueStays ==
  ASSUME NEW d \in Queue, NEW e \in Nat
  PROVE  cb_hci_to_host(d, e) \in Queue
<1>1. Backlog(d) \in Nat
  BY BacklogIs, Sizes
<1>2. CASE kind = "vhci"
  <2>1. [d EXCEPT !.seen = e] \in Queue
    BY Zenon DEF Queue
  <2> QED
    BY <1>2, <2>1, Zenon DEF cb_hci_to_host
<1>3. CASE kind # "vhci" /\ Backlog(d) >= PendingMax
  BY <1>3, Zenon DEF cb_hci_to_host
<1>4. CASE kind # "vhci" /\ ~(Backlog(d) >= PendingMax)
  <2>1. Backlog(d) < PendingMax /\ Backlog(d) + 1 <= PendingMax
    BY <1>1, <1>4, Sizes
  <2>2. Appended(d, e) \in Queue /\ Backlog(Appended(d, e)) <= PendingMax
    BY <2>1, AppendedIs, Zenon
  <2>3. PICK n \in Nat : Drained(Appended(d, e), flush_pending(Appended(d, e)), n)
    BY <2>2, FlushedIs, Zenon
  <2>4. cb_hci_to_host(d, e) = flush_pending(Appended(d, e))
    BY <1>4, Zenon DEF cb_hci_to_host, Appended
  <2> QED
    BY <2>3, <2>4, Zenon DEF Drained
<1> QED
  BY <1>2, <1>3, <1>4, Zenon

\* What Emit folds: g[1 .. k] is the queue after the first k of n packets.
Emits(g, n, d, e) ==
  /\ g[1 .. 0] = d
  /\ \A k \in 1 .. n : g[1 .. k] = cb_hci_to_host(g[1 .. k - 1], e + k)

LEMMA FoldEmits ==
  ASSUME NEW d \in Queue, NEW e \in Nat, NEW n \in Nat
  PROVE  \E g : Emits(g, n, d, e) /\ HandOn(d, e, n) = g[1 .. n]
<1> DEFINE S  == 1 .. n
           Def(g) == [s \in SUBSET S |->
                        IF s = {} THEN d ELSE cb_hci_to_host(g[s \ {Max(s)}], e + Max(s))]
           fold == CHOOSE g : g = Def(g)
           ch == [s \in SUBSET S |-> Max(s)]
           op == [i \in S |-> [h \in Queue |-> cb_hci_to_host(h, e + i)]]
<1>1. HandOn(d, e, n) = fold[S]
  BY Zenon DEF HandOn, MapThenFoldSet
<1>2. \A i \in S : e + i \in Nat
  OBVIOUS
<1>3. op \in [S -> [Queue -> Queue]]
  BY <1>2, QueueStays, Zenon
<1>4. \A s \in SUBSET S : s # {} => ch[s] = Max(s) /\ Max(s) \in s
  BY MaxIs, Zenon
<1>5. IsFiniteSet(S)
  BY FS_Interval
<1> HIDE DEF S, ch, op
<1>6. PICK g \in [SUBSET S -> Queue] : Folds(g, S, d, op, ch)
  <2>1. Chooses(ch, S)
    BY <1>4, Zenon DEF Chooses
  <2> HIDE DEF Def, fold
  <2> QED
    BY <1>3, <1>5, <2>1, FoldExists, Zenon
<1>7. g = Def(g)
  <2>1. ASSUME NEW s \in SUBSET S
        PROVE  g[s] = IF s = {} THEN d ELSE cb_hci_to_host(g[s \ {Max(s)}], e + Max(s))
    <3>1. CASE s = {}
      BY <1>6, <3>1, Zenon DEF Folds
    <3>2. CASE s # {}
      <4>1. Max(s) \in S /\ s \ {Max(s)} \in SUBSET S /\ g[s \ {Max(s)}] \in Queue
        BY <1>4, <1>6, <3>2, Zenon
      <4>2. g[s] = op[Max(s)][g[s \ {Max(s)}]]
        BY <1>4, <1>6, <3>2, Zenon DEF Folds
      <4>3. op[Max(s)][g[s \ {Max(s)}]] = cb_hci_to_host(g[s \ {Max(s)}], e + Max(s))
        BY <4>1, Zenon DEF op
      <4> QED
        BY <1>2, <3>2, <4>1, <4>2, <4>3, Zenon
    <3> QED
      BY <3>1, <3>2, Zenon
  <2>2. g = [s \in SUBSET S |-> g[s]]
    BY <1>6, Zenon
  <2> QED
    BY <1>2, <2>1, <2>2, Zenon
<1>8. fold = Def(fold)
  BY <1>7, Zenon
<1> HIDE DEF fold
<1>9. \A s \in SUBSET S : fold[s] = IF s = {} THEN d ELSE cb_hci_to_host(fold[s \ {Max(s)}], e + Max(s))
  BY <1>2, <1>8, Zenon
<1>10. ASSUME NEW k \in 1 .. n PROVE fold[1 .. k] = cb_hci_to_host(fold[1 .. k - 1], e + k)
  <2>1. 1 .. k \in SUBSET S /\ 1 .. k # {} /\ k \in S /\ 1 .. k \in SUBSET (1 .. n)
    BY DEF S
  <2>2. Max(1 .. k) = k
    <3>1. Max(1 .. k) \in 1 .. k /\ k <= Max(1 .. k)
      <4>1. k \in 1 .. k
        OBVIOUS
      <4> QED
        BY <2>1, <4>1, MaxIs, Zenon
    <3> QED
      BY <3>1
  <2>3. (1 .. k) \ {k} = 1 .. k - 1
    OBVIOUS
  <2> QED
    BY <1>2, <1>9, <2>1, <2>2, <2>3, Zenon
<1>11. fold[1 .. 0] = d
  <2>1. 1 .. 0 = {} /\ {} \in SUBSET S
    OBVIOUS
  <2> QED
    BY <1>9, <2>1, Zenon
<1>12. Emits(fold, n, d, e)
  BY <1>10, <1>11, Zenon DEF Emits
<1>13. HandOn(d, e, n) = fold[1 .. n]
  BY <1>1, <1>2, Zenon DEF S
<1> QED
  BY <1>12, <1>13, Zenon

\* A call of the core passes its packets through the queue.
LEMMA EmitPasses ==
  ASSUME NEW d, NEW e \in Nat, NEW n \in Nat, QueueOK(d, e)
  PROVE  LET u == HandOn(d, e, n)
         IN  QueueOK(u, e + n) /\ Passed(d, e, u, e + n)
<1> DEFINE u == HandOn(d, e, n)
<1>1. PICK g : Emits(g, n, d, e) /\ u = g[1 .. n]
  BY FoldEmits, Zenon DEF QueueOK
<1> HIDE DEF u
<1> DEFINE G == {k \in 0 .. n : QueueOK(g[1 .. k], e + k) /\ Passed(d, e, g[1 .. k], e + k)}
<1>2. 0 \in G
  <2>1. g[1 .. 0] = d /\ e + 0 = e /\ e + 1 .. e + 0 = {}
    BY <1>1 DEF Emits
  <2>2. Reads({}, Items(d), d.seen, d.seen)
    BY Zenon DEF Reads
  <2>3. Passed(d, e, d, e)
    <3>1. {} \in SUBSET (e + 1 .. e) /\ {} = e + 1 .. e
      OBVIOUS
    <3>2. (Items(d) \cup {}) \ Items(d) = {} /\ Items(d) \subseteq Items(d) \cup {}
      BY Zenon
    <3> QED
      BY <2>2, <3>1, <3>2, Zenon DEF Passed
  <2> QED
    BY <2>1, <2>3
<1>3. ASSUME NEW k \in 1 .. n, k - 1 \in G PROVE k \in G
  <2>1. QueueOK(g[1 .. k - 1], e + (k - 1)) /\ Passed(d, e, g[1 .. k - 1], e + (k - 1))
    BY <1>3, Zenon
  <2>2. e + (k - 1) \in Nat /\ e <= e + (k - 1) /\ e + (k - 1) + 1 = e + k
    OBVIOUS
  <2>3. g[1 .. k] = cb_hci_to_host(g[1 .. k - 1], e + k)
    BY <1>1, Zenon DEF Emits
  <2> HIDE DEF G
  <2>4. QueueOK(g[1 .. k], e + k) /\ Passed(d, e, g[1 .. k], e + k)
    BY <2>1, <2>2, <2>3, PassedOn
  <2> QED
    BY <2>4 DEF G
<1> HIDE DEF G
<1>4. n \in G
  <2>1. \A k \in 0 .. n : k \in G
    BY <1>2, <1>3, SetInduction, Zenon
  <2> QED
    BY <2>1
<1> QED
  BY <1>1, <1>4, Zenon DEF G, u

-----------------------------------------------------------------------------
(* The queue towards the guest implements VbtFifo *)

LEMMA FullQueue ==
  ASSUME NEW d, NEW e \in Nat, QueueOK(d, e), Backlog(d) = PendingMax
  PROVE  Cardinality(Items(d)) >= PendingMax
<1> DEFINE f == [i \in 1 .. PendingMax |-> Waiting(d)[i]]
<1>1. Items(d) = {Waiting(d)[i] : i \in 1 .. PendingMax}
  BY ItemsAre, Zenon DEF QueueOK
<1>2. \A i \in 1 .. PendingMax : Waiting(d)[i] \in Nat
  BY Sizes DEF QueueOK
<1>3. \A i, j \in 1 .. PendingMax : i < j => Waiting(d)[i] < Waiting(d)[j]
  BY Zenon DEF QueueOK, Ascending
<1>4. f \in Injection(1 .. PendingMax, Items(d))
  <2>1. f \in [1 .. PendingMax -> Items(d)]
    BY <1>1, Zenon
  <2>2. ASSUME NEW i \in 1 .. PendingMax, NEW j \in 1 .. PendingMax, f[i] = f[j] PROVE i = j
    <3>1. Waiting(d)[i] = Waiting(d)[j] /\ Waiting(d)[i] \in Nat /\ Waiting(d)[j] \in Nat
      BY <1>2, <2>2, Zenon
    <3>2. ~(Waiting(d)[i] < Waiting(d)[j]) /\ ~(Waiting(d)[j] < Waiting(d)[i])
      BY <3>1
    <3>3. ~(i < j) /\ ~(j < i)
      BY <1>3, <3>2, Zenon
    <3> QED
      BY <3>3, Sizes
  <2> QED
    BY <2>1, <2>2, Zenon DEF Injection, IsInjective
<1>5. IsFiniteSet(Items(d))
  <2>1. Items(d) \subseteq 1 .. e
    BY ItemsBelow, Zenon
  <2>2. IsFiniteSet(1 .. e)
    BY FS_Interval
  <2> QED
    BY <2>1, <2>2, FS_Subset, Zenon
<1>6. Cardinality(1 .. PendingMax) = PendingMax
  BY FS_Interval, Sizes
<1> HIDE DEF f
<1>7. Cardinality(1 .. PendingMax) <= Cardinality(Items(d)) /\ Cardinality(Items(d)) \in Nat
  BY <1>4, <1>5, FS_Injection, FS_CardinalityType, Zenon
<1> QED
  BY <1>6, <1>7, Sizes, Zenon

LEMMA SameCardinality == \A S : GuestFifo!Cardinality(S) = Cardinality(S)
BY Zenon DEF GuestFifo!Cardinality, Cardinality

\* The queue, the packets and the buffers at any moment.
GuestInv ==
  /\ kind \in {"vhci", "vhost", "virtio"} /\ emitted \in Nat /\ resets \in BOOLEAN
  /\ QueueOK(q, emitted)

\* What a step that cuts nothing does to the queue.
GuestPass ==
  /\ emitted' \in Nat /\ emitted <= emitted' /\ resets' = resets /\ kind' = kind
  /\ QueueOK(q', emitted') /\ Passed(q, emitted, q', emitted')

\* What a step that empties the queue does.
GuestCut ==
  /\ emitted' = emitted /\ resets' = ~resets /\ kind' = kind
  /\ QueueOK(q', emitted') /\ Items(q') = {} /\ q'.seen = q.seen

LEMMA PassRefines ==
  ASSUME GuestInv, GuestPass
  PROVE  GuestInv' /\ GuestFifo!Next
<1> DEFINE I == Items(q)
           J == Items(q')
<1>1. GuestInv'
  <2>1. QueueOK(q, emitted)' <=> QueueOK(q', emitted')
    BY Zenon DEF GuestPass, QueueOK, Queue, Ascending, Backlog, Waiting
  <2> QED
    BY <2>1, Zenon DEF GuestInv, GuestPass
<1>2. PICK acc \in SUBSET (emitted + 1 .. emitted') :
        /\ J \subseteq I \cup acc /\ Reads((I \cup acc) \ J, J, q.seen, q'.seen)
        /\ acc # emitted + 1 .. emitted' => Backlog(q') = PendingMax
  BY Zenon DEF GuestPass, Passed
<1>3. I = Range(Waiting(q)) /\ J = Range(Waiting(q))'
  BY Zenon DEF Items, Waiting, Backlog
<1>4. acc # emitted + 1 .. emitted' => Cardinality(J) >= PendingMax
  BY <1>2, FullQueue, Zenon DEF GuestPass
<1> DEFINE gone == (I \cup acc) \ J
<1> HIDE DEF I, J
<1>5. J = (I \cup acc) \ (gone \cup {}) /\ gone \ gone = {}
  BY <1>2, Zenon
<1>6. GuestFifo!Pass(acc, gone, {})
  <2>1. GuestFifo!Before(gone, J) /\ GuestFifo!Before(gone, {}) /\ GuestFifo!Before(J, {})
    BY <1>2, Zenon DEF GuestFifo!Before, Reads
  <2>2. IF gone = {} THEN q'.seen = q.seen ELSE q'.seen \in gone /\ \A i \in gone : i <= q'.seen
    BY <1>2, Zenon DEF Reads
  <2> HIDE DEF gone
  <2>3. Range(Waiting(q))' = (Range(Waiting(q)) \cup acc) \ (gone \cup {})
    BY <1>3, <1>5, Zenon
  <2>4. GuestFifo!Before(gone, Range(Waiting(q))') /\ GuestFifo!Before(Range(Waiting(q))', {})
    BY <1>3, <2>1, Zenon
  <2>5. acc # emitted + 1 .. emitted' => Cardinality(Range(Waiting(q))') >= PendingMax
    BY <1>3, <1>4, Zenon
  <2>6. acc # emitted + 1 .. emitted' => GuestFifo!Cardinality(Range(Waiting(q))') >= PendingMax
    BY <2>5, SameCardinality, Zenon
  <2> QED
    BY <2>1, <2>2, <2>3, <2>4, <2>6, Zenon DEF GuestFifo!Pass
<1>7. emitted' >= emitted /\ resets' \in BOOLEAN
  BY Zenon DEF GuestInv, GuestPass
<1>8. GuestFifo!Next
  <2>1. gone \in SUBSET gone /\ gone \ gone = {}
    BY Zenon
  <2> QED
    BY <1>2, <1>3, <1>6, <1>7, <2>1, Zenon DEF GuestFifo!Next
<1> QED
  BY <1>1, <1>8, Zenon

LEMMA CutRefines ==
  ASSUME GuestInv, GuestCut
  PROVE  GuestInv' /\ GuestFifo!Next
<1> DEFINE I == Items(q)
           J == Items(q')
<1>1. GuestInv'
  <2>1. QueueOK(q, emitted)' <=> QueueOK(q', emitted')
    BY Zenon DEF GuestCut, QueueOK, Queue, Ascending, Backlog, Waiting
  <2>2. resets' \in BOOLEAN
    BY Zenon DEF GuestInv, GuestCut
  <2> QED
    BY <2>1, <2>2, Zenon DEF GuestInv, GuestCut
<1>2. I = Range(Waiting(q)) /\ J = Range(Waiting(q))' /\ J = {}
  BY Zenon DEF Items, Waiting, Backlog, GuestCut
<1> HIDE DEF I, J
<1>3. resets' # resets /\ resets' \in BOOLEAN /\ emitted' >= emitted
  BY DEF GuestInv, GuestCut
<1>4. {} = emitted + 1 .. emitted' /\ {} \in SUBSET (emitted + 1 .. emitted')
  BY DEF GuestInv, GuestCut
<1>5. GuestFifo!Before({}, {}) /\ GuestFifo!Before({}, I)
  BY Zenon DEF GuestFifo!Before
<1>6. (I \cup {}) \ J = I /\ I \ {} = I /\ (I \cup {}) \ ({} \cup I) = {}
  BY <1>2, Zenon
<1>7. GuestFifo!Pass({}, {}, I)
  BY <1>2, <1>3, <1>4, <1>5, <1>6, Zenon DEF GuestFifo!Pass, GuestCut
<1>8. GuestFifo!Next
  <2>1. {} \in SUBSET I
    BY Zenon
  <2> QED
    BY <1>2, <1>3, <1>4, <1>6, <1>7, <2>1, Zenon DEF GuestFifo!Next
<1> QED
  BY <1>1, <1>8, Zenon

\* A flush, and a change of the buffers only.
LEMMA FlushPasses ==
  ASSUME NEW e \in Nat, NEW d, QueueOK(d, e)
  PROVE  QueueOK(flush_pending(d), e) /\ Passed(d, e, flush_pending(d), e)
<1> DEFINE u == flush_pending(d)
<1>1. QueueOK(u, e) /\ Items(u) \subseteq Items(d) /\ Reads(Items(d) \ Items(u), Items(u), d.seen, u.seen)
  BY FlushReads, Zenon
<1>2. {} \in SUBSET (e + 1 .. e) /\ {} = e + 1 .. e /\ Items(d) \cup {} = Items(d)
  OBVIOUS
<1> HIDE DEF u
<1>3. Passed(d, e, u, e)
  BY <1>1, <1>2, Zenon DEF Passed
<1> QED
  BY <1>1, <1>3, Zenon DEF u

LEMMA BuffersPass ==
  ASSUME NEW e \in Nat, NEW d, QueueOK(d, e), NEW u \in Queue,
         u.head = d.head, u.tail = d.tail, u.slot = d.slot, u.seen = d.seen
  PROVE  QueueOK(u, e) /\ Passed(d, e, u, e)
<1>1. Backlog(u) = Backlog(d) /\ Waiting(u) = Waiting(d)
  BY Zenon DEF Backlog, Waiting
<1>2. QueueOK(u, e) /\ Items(u) = Items(d)
  BY <1>1, Zenon DEF QueueOK, Ascending, Items
<1>3. {} \in SUBSET (e + 1 .. e) /\ {} = e + 1 .. e /\ (Items(d) \cup {}) \ Items(d) = {}
      /\ Items(d) \subseteq Items(d) \cup {}
  OBVIOUS
<1>4. Reads({}, Items(d), d.seen, u.seen)
  BY Zenon DEF Reads
<1>5. Passed(d, e, u, e)
  BY <1>2, <1>3, <1>4, Zenon DEF Passed
<1> QED
  BY <1>2, <1>5, Zenon

LEMMA EmptyIs ==
  ASSUME NEW c \in 0 .. Wrap - 1, NEW ready \in BOOLEAN, NEW seen \in Nat, NEW e \in Nat
  PROVE  LET d == EmptyQueue(c, ready, seen)
         IN  QueueOK(d, e) /\ Items(d) = {} /\ d.seen = seen
<1> DEFINE d == EmptyQueue(c, ready, seen)
<1>1. d \in Queue /\ d.head = c /\ d.tail = c /\ d.seen = seen
  BY Sizes, Zenon DEF EmptyQueue, Queue
<1> HIDE DEF d
<1>2. Backlog(d) = IF c <= c THEN c - c ELSE c - c + Wrap
  BY <1>1, BacklogIs, Zenon
<1>3. Backlog(d) = 0 /\ Backlog(d) <= PendingMax
  BY <1>2, Sizes
<1>4. Items(d) = {}
  BY <1>1, <1>3, ItemsAre
<1>5. QueueOK(d, e)
  BY <1>1, <1>3 DEF QueueOK, Ascending
<1> QED
  BY <1>1, <1>4, <1>5, Zenon DEF d

-----------------------------------------------------------------------------
LEMMA EmitSteps ==
  ASSUME GuestInv, NEW n \in Nat, Emit(n), UNCHANGED <<kind, resets>>
  PROVE  GuestPass
<1> DEFINE u == HandOn(q, emitted, n)
<1>1. emitted \in Nat /\ QueueOK(q, emitted) /\ emitted' = emitted + n /\ q' = u
  BY Zenon DEF GuestInv, Emit
<1>2. QueueOK(u, emitted + n) /\ Passed(q, emitted, u, emitted + n)
  BY <1>1, EmitPasses, Zenon
<1> HIDE DEF u
<1>3. emitted' \in Nat /\ emitted <= emitted'
  BY <1>1
<1> QED
  BY <1>1, <1>2, <1>3, Zenon DEF GuestPass

LEMMA FlushSteps ==
  ASSUME GuestInv, UNCHANGED <<kind, resets, emitted>>, q' = flush_pending(q)
  PROVE  GuestPass
<1>1. emitted \in Nat /\ QueueOK(q, emitted) /\ emitted <= emitted
  BY DEF GuestInv
<1> QED
  BY <1>1, FlushPasses, Zenon DEF GuestPass

LEMMA BufferSteps ==
  ASSUME GuestInv, UNCHANGED <<kind, resets, emitted>>, q' \in Queue,
         q'.head = q.head, q'.tail = q.tail, q'.slot = q.slot, q'.seen = q.seen
  PROVE  GuestPass
<1>1. emitted \in Nat /\ QueueOK(q, emitted) /\ emitted <= emitted
  BY DEF GuestInv
<1>2. QueueOK(q', emitted) /\ Passed(q, emitted, q', emitted)
  BY <1>1, BuffersPass, Zenon
<1> QED
  BY <1>1, <1>2, Zenon DEF GuestPass

LEMMA CutSteps ==
  ASSUME GuestInv, UNCHANGED <<kind, emitted>>, resets' = ~resets,
         NEW ready \in BOOLEAN, q' = Emptied(ready)
  PROVE  GuestCut
<1>1. emitted \in Nat /\ q.seen \in Nat /\ 0 \in 0 .. Wrap - 1
  BY Sizes DEF GuestInv, QueueOK, Queue
<1>2. QueueOK(q', emitted) /\ Items(q') = {} /\ q'.seen = q.seen
  BY <1>1, EmptyIs, Zenon DEF Emptied
<1> QED
  BY <1>2, Zenon DEF GuestCut

LEMMA GuestSteps ==
  ASSUME GuestInv, [Next]_vars
  PROVE  GuestPass \/ GuestCut
<1>1. q \in Queue /\ kind \in {"vhci", "vhost", "virtio"}
  BY Zenon DEF GuestInv, QueueOK
<1>2. ASSUME UNCHANGED <<kind, guest>> PROVE GuestPass
  BY <1>1, <1>2, BufferSteps, Zenon DEF guest
<1>3. CASE Forward \/ Flush \/ HubCloses \/ HubDies \/ HubStarts
  BY <1>2, <1>3, Zenon DEF Forward, Flush, HubCloses, HubDies, HubStarts
<1>4. CASE MediumEof \/ Reconnect
  BY <1>2, <1>4, Zenon DEF MediumEof, Reconnect
<1>5. CASE MediumRead
  <2> DEFINE r == medium_readable(rxbuf, io.wire)
  <2>1. PICK n \in IF r.got = <<>> THEN {0} ELSE CallEvents : Emit(n)
    BY <1>5, Zenon DEF MediumRead
  <2>2. n \in Nat
    BY <2>1, TransportAssumption
  <2>3. UNCHANGED <<kind, resets>>
    BY <1>5, Zenon DEF MediumRead
  <2> QED
    BY <2>1, <2>2, <2>3, EmitSteps, Zenon
<1>6. CASE HostTx
  <2>1. PICK n \in CallEvents \ {0} : Emit(n)
    BY <1>6, Zenon DEF HostTx
  <2>2. n \in Nat
    BY <2>1, TransportAssumption, Zenon
  <2>3. UNCHANGED <<kind, resets>>
    BY <1>6, Zenon DEF HostTx
  <2> QED
    BY <2>1, <2>2, <2>3, EmitSteps, Zenon
<1>7. CASE Tick
  <2>1. UNCHANGED <<kind, resets, emitted>> /\ q' = Tick_flush(q)
    BY <1>7, Zenon DEF Tick
  <2>2. CASE kind = "vhci"
    BY <1>1, <2>1, <2>2, BufferSteps, Zenon DEF Tick_flush
  <2>3. CASE kind # "vhci"
    BY <2>1, <2>3, FlushSteps, Zenon DEF Tick_flush
  <2> QED
    BY <2>2, <2>3, Zenon
<1>8. CASE GuestPosts
  <2>1. UNCHANGED <<kind, resets, emitted>> /\ q' = [q EXCEPT !.bufs = @ + 1]
    BY <1>8, Zenon DEF GuestPosts
  <2>2. q' \in Queue /\ q'.head = q.head /\ q'.tail = q.tail /\ q'.slot = q.slot /\ q'.seen = q.seen
    BY <1>1, <2>1 DEF Queue
  <2> QED
    BY <2>1, <2>2, BufferSteps, Zenon
<1>9. CASE HandleRx
  BY <1>9, FlushSteps, Zenon DEF HandleRx
<1>10. CASE QemuConnects
  BY <1>10, CutSteps, Zenon DEF QemuConnects
<1>11. CASE QueueStarts
  <2>1. UNCHANGED <<kind, resets, emitted>> /\ q' = [q EXCEPT !.ready = TRUE]
    BY <1>11, Zenon DEF QueueStarts
  <2>2. q' \in Queue /\ q'.head = q.head /\ q'.tail = q.tail /\ q'.slot = q.slot /\ q'.seen = q.seen
    BY <1>1, <2>1, Zenon DEF Queue
  <2> QED
    BY <2>1, <2>2, BufferSteps, Zenon
<1>12. CASE QemuDisconnects
  <2>1. UNCHANGED <<kind, resets, emitted>> /\ q' = [q EXCEPT !.ready = FALSE, !.bufs = 0]
    BY <1>12, Zenon DEF QemuDisconnects
  <2>2. q' \in Queue /\ q'.head = q.head /\ q'.tail = q.tail /\ q'.slot = q.slot /\ q'.seen = q.seen
    BY <1>1, <2>1, Zenon DEF Queue
  <2> QED
    BY <2>1, <2>2, BufferSteps, Zenon
<1>13. CASE DeviceReset
  BY <1>13, CutSteps, Zenon DEF DeviceReset
<1>14. CASE NodeRestarts
  <2>1. (kind # "vhost") \in BOOLEAN
    BY Zenon
  <2> QED
    BY <1>14, <2>1, CutSteps, Zenon DEF NodeRestarts
<1>15. CASE UNCHANGED vars
  BY <1>2, <1>15, Zenon DEF vars
<1> QED
  BY <1>3, <1>4, <1>5, <1>6, <1>7, <1>8, <1>9, <1>10, <1>11, <1>12, <1>13, <1>14, <1>15, Zenon DEF Next

LEMMA GuestInit == Init => GuestInv /\ GuestFifo!Init
<1> SUFFICES ASSUME Init PROVE GuestInv /\ GuestFifo!Init
  BY Zenon
<1>1. kind \in {"vhci", "vhost", "virtio"} /\ emitted = 0 /\ emitted \in Nat /\ resets = FALSE
  BY TransportAssumption, Zenon DEF Init
<1>2. PICK c \in IF kind = "virtio" THEN {0, Wrap - 1} ELSE {0} : q = EmptyQueue(c, kind # "vhost", 0)
  BY Zenon DEF Init
<1>3. c \in 0 .. Wrap - 1 /\ (kind # "vhost") \in BOOLEAN /\ 0 \in Nat
  BY <1>2, Sizes
<1>4. QueueOK(q, emitted) /\ Items(q) = {} /\ q.seen = 0
  BY <1>1, <1>2, <1>3, EmptyIs, Zenon
<1> QED
  BY <1>1, <1>4, Zenon DEF GuestInv, GuestFifo!Init, Items

\* The queue towards the guest: packets reach the guest in the order the core emits them,
\* each at most once, across the wrap of the counters; one is refused only behind PENDING_MAX
\* others, and only a reset or a new connection empties the queue.
THEOREM GuestQueueKeepsOrder == Spec => GuestQueueIsFifo
<1>1. Init => GuestInv /\ GuestFifo!Init
  BY GuestInit, Zenon
<1>2. GuestInv /\ [Next]_vars => GuestInv' /\ [GuestFifo!Next]_<<Range(Waiting(q)), emitted, q.seen, resets>>
  BY GuestSteps, PassRefines, CutRefines, Zenon
<1> QED
  BY <1>1, <1>2, PTL DEF Spec, GuestQueueIsFifo, GuestFifo!Spec, GuestFifo!vars
=============================================================================
