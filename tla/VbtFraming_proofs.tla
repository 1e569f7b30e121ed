------------------------- MODULE VbtFraming_proofs --------------------------
(***************************************************************************)
(* What the operators of VbtPeerIO and VbtTransport do to a stream of      *)
(* frames of any length: what is left of it when its front is read, its    *)
(* end is cut or a frame is added, which frames the loop of                *)
(* medium_readable takes out of the receive buffer, what a read and a      *)
(* write move, and which frames of a stream are complete.  Nothing here is *)
(* about a step of the specification: VbtStream_proofs is.                 *)
(***************************************************************************)
EXTENDS VbtTransport, FiniteSetTheorems, WellFoundedInduction, SequenceTheorems, TLAPS

LEMMA Distribute ==
  ASSUME NEW m \in Int, NEW a \in Int, NEW b \in Int
  PROVE  /\ m * a \in Int /\ m * b \in Int
         /\ m * (a + b) = m * a + m * b /\ m * (a - b) = m * a - m * b
OBVIOUS

\* A non-empty set of naturals has a least element.
LEMMA LeastElement ==
  ASSUME NEW S \in SUBSET Nat, S # {}
  PROVE  \E m \in S : \A n \in S : m <= n
<1>1. PICK m \in S : \A n \in S : <<n, m>> \notin OpToRel(<, Nat)
  BY NatLessThanWellFounded, WFMin, Zenon
<1>2. \A n \in S : ~(n < m)
  BY <1>1, Zenon DEF OpToRel
<1> QED
  BY <1>2

\* Induction: a set with 0 that is closed under the steps up to N has all of 0 .. N.
LEMMA SetInduction ==
  ASSUME NEW N \in Nat, NEW S, 0 \in S,
         \A k \in 1 .. N : k - 1 \in S => k \in S
  PROVE  \A k \in 0 .. N : k \in S
<1> DEFINE Bad == {k \in 0 .. N : k \notin S}
<1>1. SUFFICES ASSUME Bad # {} PROVE FALSE
  BY Zenon
<1>2. Bad \in SUBSET Nat
  OBVIOUS
<1>3. PICK m \in Bad : \A n \in Bad : m <= n
  BY <1>1, <1>2, LeastElement, Zenon
<1>4. m \in 1 .. N /\ m - 1 \in 0 .. N /\ m - 1 \notin Bad
  BY <1>3
<1>5. m - 1 \in S
  BY <1>4, Zenon
<1>6. QED
  BY <1>3, <1>4, <1>5, Zenon

-----------------------------------------------------------------------------
(* Sequences *)

\* Concatenation by name, as Rem above.
Cat(s, t) == s \o t

LEMMA CatIs ==
  ASSUME NEW S, NEW s \in Seq(S), NEW t \in Seq(S)
  PROVE  /\ Cat(s, t) \in Seq(S) /\ Len(Cat(s, t)) = Len(s) + Len(t)
         /\ \A i \in 1 .. Len(s) + Len(t) : Cat(s, t)[i] = IF i <= Len(s) THEN s[i] ELSE t[i - Len(s)]
BY ConcatProperties, Zenon DEF Cat

LEMMA CatAssociates ==
  ASSUME NEW S, NEW s \in Seq(S), NEW t \in Seq(S), NEW u \in Seq(S)
  PROVE  Cat(Cat(s, t), u) = Cat(s, Cat(t, u))
BY ConcatAssociative DEF Cat

LEMMA CatEmpty ==
  ASSUME NEW S, NEW s \in Seq(S)
  PROVE  Cat(s, <<>>) = s /\ Cat(<<>>, s) = s
BY ConcatEmptySeq, Zenon DEF Cat

LEMMA UptoIs ==
  ASSUME NEW S, NEW s \in Seq(S), NEW n \in 0 .. Len(s)
  PROVE  Upto(s, n) \in Seq(S) /\ Len(Upto(s, n)) = n /\ \A i \in 1 .. n : Upto(s, n)[i] = s[i]
<1>1. Len(s) \in Nat /\ n \in Int /\ \A i \in 1 .. n : s[i] \in S
  BY LenProperties, ElementOfSeq
<1>2. /\ SubSeq(s, 1, n) \in Seq(S) /\ Len(SubSeq(s, 1, n)) = (IF 1 <= n THEN n - 1 + 1 ELSE 0)
      /\ \A i \in 1 .. n - 1 + 1 : SubSeq(s, 1, n)[i] = s[1 + i - 1]
  BY <1>1, SubSeqProperties
<1> HIDE DEF Upto
<1>3. Upto(s, n) = SubSeq(s, 1, n)
  BY Zenon DEF Upto
<1>4. n - 1 + 1 = n /\ \A i \in 1 .. n : 1 + i - 1 = i
  BY <1>1
<1> QED
  BY <1>1, <1>2, <1>3, <1>4

LEMMA FromIs ==
  ASSUME NEW S, NEW s \in Seq(S), NEW n \in 1 .. Len(s) + 1
  PROVE  /\ From(s, n) \in Seq(S) /\ Len(From(s, n)) = Len(s) - n + 1
         /\ \A i \in 1 .. Len(s) - n + 1 : From(s, n)[i] = s[n + i - 1]
<1>1. Len(s) \in Nat /\ n \in Int /\ \A i \in n .. Len(s) : s[i] \in S
  BY LenProperties, ElementOfSeq
<1> DEFINE m == Len(s)
<1>2. /\ SubSeq(s, n, m) \in Seq(S) /\ Len(SubSeq(s, n, m)) = (IF n <= m THEN m - n + 1 ELSE 0)
      /\ \A i \in 1 .. m - n + 1 : SubSeq(s, n, m)[i] = s[n + i - 1]
  BY <1>1, SubSeqProperties
<1>3. From(s, n) = SubSeq(s, n, m)
  BY Zenon DEF From
<1> QED
  BY <1>1, <1>2, <1>3

LEMMA SplitIs ==
  ASSUME NEW S, NEW s \in Seq(S), NEW n \in 0 .. Len(s)
  PROVE  Cat(Upto(s, n), From(s, n + 1)) = s
<1> DEFINE m == Len(s)
<1>1. m \in Nat
  BY LenProperties, Zenon
<1>2. 1 \in 1 .. m + 1 /\ n \in 1 - 1 .. m /\ m \in n .. m
  BY <1>1
<1>3. SubSeq(s, 1, n) \o SubSeq(s, n + 1, m) = SubSeq(s, 1, m) /\ SubSeq(s, 1, m) = s
  BY <1>2, ConcatAdjacentSubSeq, SubSeqFull, Zenon
<1> QED
  BY <1>3, Zenon DEF Upto, From, Cat

\* Taking j - 1 bytes from the front of a stream when n of w have been moved behind a.
LEMMA TakeFront ==
  ASSUME NEW S, NEW a \in Seq(S), NEW w \in Seq(S), NEW c \in Seq(S), NEW n \in 0 .. Len(w),
         NEW j \in 1 .. Len(a) + n + 1
  PROVE  /\ j \in 1 .. Len(Cat(Cat(a, w), c)) + 1
         /\ Cat(Cat(From(Cat(a, Upto(w, n)), j), From(w, n + 1)), c) = From(Cat(Cat(a, w), c), j)
<1> DEFINE u == Upto(w, n)
           f == From(w, n + 1)
           b == Cat(a, u)
           g == From(b, j)
           s == Cat(Cat(a, w), c)
           x == Cat(f, c)
           l == Len(b)
           z == Len(x)
<1> HIDE DEF u, f, b, g, s, x
<1>1. Len(a) \in Nat /\ Len(w) \in Nat
  BY LenProperties, Zenon
<1>2. u \in Seq(S) /\ Len(u) = n
  BY UptoIs, Zenon DEF u
<1>3. f \in Seq(S)
  <2>1. n + 1 \in 1 .. Len(w) + 1
    BY <1>1
  <2> QED
    BY <2>1, FromIs, Zenon DEF f
<1>4. Cat(u, f) = w
  BY SplitIs, Zenon DEF u, f
<1>5. b \in Seq(S) /\ l = Len(a) + n
  BY <1>2, CatIs, Zenon DEF b
<1>6. Cat(b, f) = Cat(a, w)
  BY <1>2, <1>3, <1>4, CatAssociates DEF b
<1>7. x \in Seq(S) /\ s = Cat(b, x)
  <2>1. x \in Seq(S)
    BY <1>3, CatIs, Zenon DEF x
  <2>2. s = Cat(b, x)
    BY <1>3, <1>5, <1>6, CatAssociates DEF s, x
  <2> QED
    BY <2>1, <2>2, Zenon
<1>8. j \in 1 .. l + 1 /\ l \in Nat
  BY <1>1, <1>5
<1>9. g \in Seq(S) /\ Len(g) = l - j + 1 /\ \A i \in 1 .. l - j + 1 : g[i] = b[j + i - 1]
  BY <1>5, <1>8, FromIs, Zenon DEF g
<1>10. Cat(Cat(g, f), c) = Cat(g, x)
  <2>1. g \in Seq(S)
    BY <1>9, Zenon
  <2> QED
    BY <1>3, <2>1, CatAssociates DEF x
<1>11. z \in Nat /\ s \in Seq(S) /\ Len(s) = l + z
       /\ \A i \in 1 .. l + z : s[i] = IF i <= l THEN b[i] ELSE x[i - l]
  BY <1>5, <1>7, CatIs, LenProperties, Zenon
<1> DEFINE h == Cat(g, x)
           d == l - j + 1
<1>12. h \in Seq(S) /\ Len(h) = d + z
       /\ \A i \in 1 .. d + z : h[i] = IF i <= d THEN g[i] ELSE x[i - d]
  <2>1. h \in Seq(S) /\ Len(h) = Len(g) + z
        /\ \A i \in 1 .. Len(g) + z : h[i] = IF i <= Len(g) THEN g[i] ELSE x[i - Len(g)]
    BY <1>7, <1>9, CatIs, Zenon
  <2> QED
    BY <1>9, <2>1, Zenon
<1> HIDE DEF l, z, h
<1>13. j \in 1 .. Len(s) + 1 /\ Len(s) - j + 1 = d + z /\ d \in Nat
  BY <1>8, <1>11
<1> DEFINE r == From(s, j)
<1>14. r \in Seq(S) /\ Len(r) = Len(s) - j + 1 /\ \A i \in 1 .. Len(s) - j + 1 : r[i] = s[j + i - 1]
  BY <1>11, <1>13, FromIs, Zenon
<1>15. Len(r) = d + z /\ \A i \in 1 .. d + z : r[i] = s[j + i - 1]
  BY <1>13, <1>14, Zenon
<1> HIDE DEF r
<1>16. ASSUME NEW i \in 1 .. d + z PROVE h[i] = r[i]
  <2>1. /\ j + i - 1 \in 1 .. l + z /\ i - d = (j + i - 1) - l
        /\ (i <= d => i \in 1 .. d /\ j + i - 1 <= l) /\ (~(i <= d) => ~(j + i - 1 <= l))
    BY <1>8, <1>11
  <2>2. r[i] = s[j + i - 1]
    BY <1>15, Zenon
  <2>3. CASE i <= d
    BY <1>9, <1>11, <1>12, <2>1, <2>2, <2>3, Zenon
  <2>4. CASE ~(i <= d)
    BY <1>11, <1>12, <2>1, <2>2, <2>4, Zenon
  <2> QED
    BY <2>3, <2>4, Zenon
<1>17. h = r
  <2>1. Len(h) = Len(r) /\ \A i \in 1 .. Len(h) : h[i] = r[i]
    BY <1>12, <1>15, <1>16, Zenon
  <2> QED
    BY <1>12, <1>14, <2>1, SeqEqual, Zenon
<1> QED
  BY <1>10, <1>13, <1>17, Zenon DEF g, b, u, f, s, h, r

-----------------------------------------------------------------------------
(* Streams of frames *)

Frame == 1 .. MaxFrames
Byte  == {b \in Frame \X (1 .. MaxSize) : b[2] <= SizeOf(b[1])}

LEMMA ByteIs ==
  ASSUME NEW b \in Byte
  PROVE  /\ b[1] \in Nat /\ b[2] \in Nat /\ SizeOf(b[1]) \in Nat /\ b[1] \in Frame
         /\ 1 <= b[2] /\ b[2] <= SizeOf(b[1]) /\ SizeOf(b[1]) <= MaxSize
         /\ b = <<b[1], b[2]>>
<1>1. b \in Frame \X (1 .. MaxSize) /\ b[2] <= SizeOf(b[1])
  BY Zenon DEF Byte
<1>2. b[1] \in Frame /\ b[2] \in 1 .. MaxSize /\ b = <<b[1], b[2]>>
  BY <1>1
<1>3. MaxFrames \in Nat /\ MaxSize \in Nat
  BY PeerIOAssumption, TransportAssumption, Zenon
<1>4. SizeOf(b[1]) \in 1 .. MaxSize
  BY <1>2, TransportAssumption, Zenon DEF Frame
<1>5. b[1] \in Nat
  BY <1>2, <1>3 DEF Frame
<1> QED
  BY <1>1, <1>2, <1>3, <1>4, <1>5

\* Byte i of a stream: its frame, its place in the frame and the size of the frame.
At(s, i)     == s[i][1]
Place(s, i)  == s[i][2]
Size(s, i)   == SizeOf(s[i][1])

LEMMA AtIs ==
  ASSUME NEW s \in Seq(Byte), NEW i \in 1 .. Len(s)
  PROVE  /\ At(s, i) \in Nat /\ Place(s, i) \in Nat /\ Size(s, i) \in Nat /\ At(s, i) \in Frame
         /\ 1 <= Place(s, i) /\ Place(s, i) <= Size(s, i) /\ Size(s, i) <= MaxSize
         /\ s[i] = <<At(s, i), Place(s, i)>> /\ s[i] \in Byte /\ Size(s, i) = SizeOf(At(s, i))
<1>1. s[i] \in Byte
  BY ElementOfSeq, Zenon
<1> QED
  BY <1>1, ByteIs, Zenon DEF At, Place, Size

LEMMA FramedIs ==
  ASSUME NEW s \in Seq(Byte)
  PROVE  Framed(s) <=>
           /\ 1 \in 1 .. Len(s) => Place(s, 1) = 1
           /\ \A i \in 1 .. Len(s) - 1 :
                /\ Place(s, i) < Size(s, i) => s[i + 1] = <<At(s, i), Place(s, i) + 1>>
                /\ ~(Place(s, i) < Size(s, i)) => Place(s, i + 1) = 1 /\ At(s, i + 1) > At(s, i)
<1>1. s # <<>> <=> 1 \in 1 .. Len(s)
  BY EmptySeq, LenProperties
<1>2. Framed(s) <=>
        /\ s # <<>> => Place(s, 1) = 1
        /\ \A i \in 1 .. Len(s) - 1 : IF Place(s, i) < Size(s, i) THEN s[i + 1] = <<At(s, i), Place(s, i) + 1>>
                                      ELSE Place(s, i + 1) = 1 /\ At(s, i + 1) > At(s, i)
  BY Zenon DEF Framed, At, Place, Size
<1> QED
  BY <1>1, <1>2, Zenon

\* The next byte is the next of its frame, or the first of a later one.
LEMMA NextByte ==
  ASSUME NEW s \in Seq(Byte), Framed(s), NEW i \in 1 .. Len(s), i + 1 \in 1 .. Len(s)
  PROVE  \/ Place(s, i) < Size(s, i) /\ At(s, i + 1) = At(s, i) /\ Place(s, i + 1) = Place(s, i) + 1
         \/ Place(s, i) = Size(s, i) /\ Place(s, i + 1) = 1 /\ At(s, i + 1) > At(s, i)
<1>1. Len(s) \in Nat
  BY LenProperties, Zenon
<1>2. i \in 1 .. Len(s) - 1
  BY <1>1
<1>3. /\ Place(s, i) < Size(s, i) => s[i + 1] = <<At(s, i), Place(s, i) + 1>>
      /\ ~(Place(s, i) < Size(s, i)) => Place(s, i + 1) = 1 /\ At(s, i + 1) > At(s, i)
  BY <1>2, FramedIs, Zenon
<1>4. Place(s, i) \in Nat /\ Size(s, i) \in Nat /\ Place(s, i) <= Size(s, i)
  BY AtIs, Zenon
<1>5. CASE Place(s, i) < Size(s, i)
  <2>1. s[i + 1][1] = At(s, i) /\ s[i + 1][2] = Place(s, i) + 1
    BY <1>3, <1>5
  <2> QED
    BY <1>5, <2>1, Zenon DEF At, Place
<1>6. CASE ~(Place(s, i) < Size(s, i))
  <2>1. Place(s, i) = Size(s, i)
    BY <1>4, <1>6
  <2> QED
    BY <1>3, <1>6, <2>1, Zenon
<1> QED
  BY <1>5, <1>6, Zenon

\* Bytes are in the order of their frames, and in a frame of their places.
Precedes(s, i, j) == At(s, i) < At(s, j) \/ (At(s, i) = At(s, j) /\ Place(s, i) < Place(s, j))

LEMMA StreamIsOrdered ==
  ASSUME NEW s \in Seq(Byte), Framed(s), NEW i \in 1 .. Len(s), NEW j \in 1 .. Len(s), i < j
  PROVE  Precedes(s, i, j)
<1> DEFINE N == Len(s) - i
           G == {m \in 0 .. N : m # 0 => Precedes(s, i, i + m)}
<1>1. Len(s) \in Nat /\ N \in Nat /\ \A m \in 0 .. N : i + m \in 1 .. Len(s)
  BY LenProperties
<1>2. 0 \in G
  BY <1>1
<1>3. ASSUME NEW m \in 1 .. N, m - 1 \in G PROVE m \in G
  <2> DEFINE k == i + (m - 1)
  <2>1. k \in 1 .. Len(s) /\ k + 1 \in 1 .. Len(s) /\ i + m = k + 1 /\ m \in 0 .. N
    BY <1>1
  <2>2. m = 1 \/ Precedes(s, i, k)
    BY <1>3
  <2>3. m = 1 => k = i
    BY <1>1
  <2> HIDE DEF k
  <2>4. /\ At(s, i) \in Nat /\ Place(s, i) \in Nat /\ At(s, k) \in Nat /\ Place(s, k) \in Nat
        /\ At(s, k + 1) \in Nat /\ Place(s, k + 1) \in Nat
    BY <2>1, AtIs, Zenon
  <2>5. Precedes(s, k, k + 1)
    BY <2>1, <2>4, NextByte DEF Precedes
  <2>6. Precedes(s, i, k + 1)
    BY <2>2, <2>3, <2>4, <2>5 DEF Precedes
  <2> QED
    BY <2>1, <2>6, Zenon
<1> HIDE DEF G, N
<1>4. \A m \in 0 .. N : m \in G
  BY <1>1, <1>2, <1>3, SetInduction, Zenon
<1>5. j - i \in 0 .. N /\ j - i # 0 /\ i + (j - i) = j
  BY <1>1 DEF N
<1> QED
  BY <1>4, <1>5, Zenon DEF G

LEMMA Monotone ==
  ASSUME NEW s \in Seq(Byte), Framed(s), NEW i \in 1 .. Len(s), NEW j \in 1 .. Len(s)
  PROVE  (i <= j => At(s, i) <= At(s, j)) /\ (s[i] = s[j] => i = j)
<1>1. /\ At(s, i) \in Nat /\ Place(s, i) \in Nat /\ At(s, j) \in Nat /\ Place(s, j) \in Nat
      /\ Len(s) \in Nat
  BY AtIs, LenProperties, Zenon
<1>2. s[i] = s[j] => At(s, i) = At(s, j) /\ Place(s, i) = Place(s, j)
  BY Zenon DEF At, Place
<1>3. CASE i < j
  BY <1>1, <1>2, <1>3, StreamIsOrdered DEF Precedes
<1>4. CASE j < i
  BY <1>1, <1>2, <1>4, StreamIsOrdered DEF Precedes
<1>5. CASE i = j
  BY <1>1, <1>5
<1> QED
  BY <1>1, <1>3, <1>4, <1>5

\* From the first byte of a frame on, the stream has the frame's bytes.
LEMMA FrameRuns ==
  ASSUME NEW s \in Seq(Byte), Framed(s), NEW i \in 1 .. Len(s), Place(s, i) = 1,
         NEW m \in Nat, m < Size(s, i), i + m <= Len(s)
  PROVE  At(s, i + m) = At(s, i) /\ Place(s, i + m) = m + 1
<1> DEFINE G == {n \in 0 .. m : At(s, i + n) = At(s, i) /\ Place(s, i + n) = n + 1}
<1>1. Len(s) \in Nat /\ Size(s, i) \in Nat /\ \A n \in 0 .. m : i + n \in 1 .. Len(s)
  BY AtIs, LenProperties
<1>2. 0 \in G
  <2>1. i + 0 = i /\ 0 \in 0 .. m /\ 1 = 0 + 1
    BY <1>1
  <2> QED
    BY <2>1, Zenon
<1>3. ASSUME NEW n \in 1 .. m, n - 1 \in G PROVE n \in G
  <2> DEFINE k == i + (n - 1)
  <2>1. k \in 1 .. Len(s) /\ k + 1 \in 1 .. Len(s) /\ i + n = k + 1 /\ n \in 0 .. m
    BY <1>1
  <2>2. At(s, k) = At(s, i) /\ Place(s, k) = n
    <3>1. At(s, k) = At(s, i) /\ Place(s, k) = n - 1 + 1
      BY <1>3, Zenon
    <3> QED
      BY <3>1
  <2> HIDE DEF k
  <2>3. Size(s, k) = Size(s, i)
    BY <2>2, Zenon DEF Size, At
  <2>4. n < Size(s, i)
    BY <1>1
  <2>5. At(s, k + 1) = At(s, i) /\ Place(s, k + 1) = n + 1
    BY <2>1, <2>2, <2>3, <2>4, NextByte
  <2> QED
    BY <2>1, <2>5, Zenon
<1> HIDE DEF G
<1>4. \A n \in 0 .. m : n \in G
  BY <1>2, <1>3, SetInduction, Zenon
<1>5. m \in 0 .. m
  OBVIOUS
<1> QED
  BY <1>4, <1>5, Zenon DEF G

\* The frames of a stream that are complete.
Ends(s, i) == Place(s, i) = Size(s, i)

LEMMA WholeIs ==
  ASSUME NEW s \in Seq(Byte)
  PROVE  Whole(s) = {At(s, i) : i \in {j \in 1 .. Len(s) : Ends(s, j)}}
<1>1. DOMAIN s = 1 .. Len(s)
  BY LenProperties
<1>2. Range(s) = {s[i] : i \in 1 .. Len(s)}
  BY <1>1, Zenon DEF Range
<1> QED
  BY <1>2, Zenon DEF Whole, At, Place, Size, Ends

LEMMA WholeHas ==
  ASSUME NEW s \in Seq(Byte), NEW i \in 1 .. Len(s), Ends(s, i)
  PROVE  At(s, i) \in Whole(s)
BY WholeIs, Zenon

LEMMA WholeFrom ==
  ASSUME NEW s \in Seq(Byte), NEW x \in Whole(s)
  PROVE  \E i \in 1 .. Len(s) : Ends(s, i) /\ x = At(s, i)
BY WholeIs, Zenon

\* In a stream that ends with the end of a frame all frames are complete.
LEMMA AllAreWhole ==
  ASSUME NEW s \in Seq(Byte), Framed(s), Len(s) # 0 => Ends(s, Len(s)), NEW i \in 1 .. Len(s)
  PROVE  At(s, i) \in Whole(s)
<1> DEFINE N == Len(s) - 1
           G == {m \in 0 .. N : At(s, Len(s) - m) \in Whole(s)}
<1>1. Len(s) \in Nat /\ N \in Nat /\ \A m \in 0 .. N : Len(s) - m \in 1 .. Len(s)
  BY LenProperties
<1>2. 0 \in G
  <2>1. Len(s) - 0 = Len(s) /\ Len(s) \in 1 .. Len(s) /\ Len(s) # 0 /\ 0 \in 0 .. N
    BY <1>1
  <2> QED
    BY <2>1, WholeHas, Zenon
<1>3. ASSUME NEW m \in 1 .. N, m - 1 \in G PROVE m \in G
  <2> DEFINE k == Len(s) - m
  <2>1. k \in 1 .. Len(s) /\ k + 1 \in 1 .. Len(s) /\ Len(s) - (m - 1) = k + 1 /\ m \in 0 .. N
    BY <1>1
  <2>2. At(s, k + 1) \in Whole(s)
    BY <1>3, <2>1, Zenon
  <2> HIDE DEF k
  <2>3. At(s, k) \in Whole(s)
    BY <2>1, <2>2, NextByte, WholeHas, Zenon DEF Ends
  <2> QED
    BY <2>1, <2>3, Zenon DEF k
<1> HIDE DEF G
<1>4. \A m \in 0 .. N : m \in G
  BY <1>1, <1>2, <1>3, SetInduction, Zenon
<1>5. Len(s) - i \in 0 .. N /\ Len(s) - (Len(s) - i) = i
  BY <1>1
<1> QED
  BY <1>4, <1>5, Zenon DEF G

-----------------------------------------------------------------------------
(* What happens to a stream: its front is read, its end is cut, a frame is added *)

LEMMA FrontIsRead ==
  ASSUME NEW s \in Seq(Byte), Framed(s), NEW j \in 1 .. Len(s) + 1,
         j \in 1 .. Len(s) => Place(s, j) = 1
  PROVE  From(s, j) \in Seq(Byte) /\ Framed(From(s, j))
<1> DEFINE t == From(s, j)
<1>1. Len(s) \in Nat
  BY LenProperties, Zenon
<1>2. t \in Seq(Byte) /\ Len(t) = Len(s) - j + 1 /\ \A i \in 1 .. Len(s) - j + 1 : t[i] = s[j + i - 1]
  BY FromIs, Zenon
<1> HIDE DEF t
<1>3. Len(t) \in Nat /\ \A i \in 1 .. Len(t) : t[i] = s[j + i - 1] /\ j + i - 1 \in 1 .. Len(s)
  <2>1. PICK l \in Nat : l = Len(s)
    BY <1>1, Zenon
  <2>2. j \in 1 .. l + 1 /\ l - j + 1 \in Nat /\ \A i \in 1 .. l - j + 1 : j + i - 1 \in 1 .. l
    BY <2>1
  <2> QED
    BY <1>2, <2>1, <2>2, Zenon
<1>4. \A i \in 1 .. Len(t) : At(t, i) = At(s, j + i - 1) /\ Place(t, i) = Place(s, j + i - 1)
                              /\ Size(t, i) = Size(s, j + i - 1)
  BY <1>3, Zenon DEF At, Place, Size
<1>5. 1 \in 1 .. Len(t) => Place(t, 1) = 1
  <2>1. j + 1 - 1 = j
    BY <1>1
  <2> QED
    BY <1>3, <1>4, <2>1, Zenon
<1>6. ASSUME NEW i \in 1 .. Len(t) - 1
      PROVE  /\ Place(t, i) < Size(t, i) => t[i + 1] = <<At(t, i), Place(t, i) + 1>>
             /\ ~(Place(t, i) < Size(t, i)) => Place(t, i + 1) = 1 /\ At(t, i + 1) > At(t, i)
  <2> DEFINE k == j + i - 1
  <2>1. i \in 1 .. Len(t) /\ i + 1 \in 1 .. Len(t) /\ j + (i + 1) - 1 = k + 1 /\ k \in 1 .. Len(s) - 1
    BY <1>1, <1>2, <1>3
  <2>2. t[i + 1] = s[k + 1] /\ At(t, i + 1) = At(s, k + 1) /\ Place(t, i + 1) = Place(s, k + 1)
    BY <1>3, <1>4, <2>1
  <2>3. At(t, i) = At(s, k) /\ Place(t, i) = Place(s, k) /\ Size(t, i) = Size(s, k)
    BY <1>4, <2>1, Zenon
  <2> HIDE DEF k
  <2> QED
    BY <2>1, <2>2, <2>3, FramedIs, Zenon
<1>7. Framed(t)
  BY <1>2, <1>5, <1>6, FramedIs, Zenon
<1> QED
  BY <1>2, <1>7, Zenon DEF t

\* t is the beginning of s.
Begins(t, s) == Len(t) <= Len(s) /\ \A i \in 1 .. Len(t) : t[i] = s[i]

LEMMA EndIsCut ==
  ASSUME NEW s \in Seq(Byte), Framed(s), NEW t \in Seq(Byte), Begins(t, s)
  PROVE  Framed(t)
<1>1. Len(s) \in Nat /\ Len(t) \in Nat /\ Len(t) <= Len(s)
  BY LenProperties, Zenon DEF Begins
<1>2. \A i \in 1 .. Len(t) : At(t, i) = At(s, i) /\ Place(t, i) = Place(s, i) /\ Size(t, i) = Size(s, i)
                             /\ t[i] = s[i]
  BY Zenon DEF At, Place, Size, Begins
<1>3. 1 \in 1 .. Len(t) => Place(t, 1) = 1
  <2>1. 1 \in 1 .. Len(t) => 1 \in 1 .. Len(s)
    BY <1>1
  <2> QED
    BY <1>2, <2>1, FramedIs, Zenon
<1>4. ASSUME NEW i \in 1 .. Len(t) - 1
      PROVE  /\ Place(t, i) < Size(t, i) => t[i + 1] = <<At(t, i), Place(t, i) + 1>>
             /\ ~(Place(t, i) < Size(t, i)) => Place(t, i + 1) = 1 /\ At(t, i + 1) > At(t, i)
  <2>1. i \in 1 .. Len(t) /\ i + 1 \in 1 .. Len(t) /\ i \in 1 .. Len(s) - 1
    BY <1>1
  <2> QED
    BY <1>2, <2>1, FramedIs, Zenon
<1> QED
  BY <1>3, <1>4, FramedIs, Zenon

LEMMA BytesIs ==
  ASSUME NEW k \in Frame
  PROVE  /\ Bytes(k) \in Seq(Byte) /\ Len(Bytes(k)) = SizeOf(k) /\ SizeOf(k) \in Nat /\ 1 <= SizeOf(k)
         /\ SizeOf(k) <= MaxSize /\ \A i \in 1 .. SizeOf(k) : Bytes(k)[i] = <<k, i>>
<1>1. MaxSize \in Nat /\ SizeOf(k) \in 1 .. MaxSize
  BY PeerIOAssumption, TransportAssumption, Zenon DEF Frame
<1> DEFINE n == SizeOf(k)
           b == Bytes(k)
<1>2. n \in Nat /\ 1 <= n /\ n <= MaxSize
  BY <1>1
<1>3. ASSUME NEW i \in 1 .. n PROVE <<k, i>> \in Byte
  <2>1. i \in 1 .. MaxSize /\ i <= SizeOf(k)
    BY <1>1, <1>2
  <2> QED
    BY <2>1, Zenon DEF Byte
<1>4. b = [i \in 1 .. n |-> <<k, i>>]
  BY Zenon DEF Bytes
<1>5. b \in [1 .. n -> Byte] /\ DOMAIN b = 1 .. n /\ \A i \in 1 .. n : b[i] = <<k, i>>
  BY <1>3, <1>4, Zenon
<1> HIDE DEF n, b
<1>6. b \in Seq(Byte)
  BY <1>2, <1>5, SeqDef, Zenon
<1>7. Len(b) \in Nat /\ 1 .. Len(b) = 1 .. n
  BY <1>5, <1>6, LenProperties, Zenon
<1>8. Len(b) = n
  <2>1. n \in 1 .. Len(b) /\ Len(b) + 1 \notin 1 .. n
    BY <1>2, <1>7
  <2> QED
    BY <1>2, <1>7, <2>1
<1> QED
  BY <1>2, <1>5, <1>6, <1>8, Zenon DEF n, b

LEMMA FrameIsAdded ==
  ASSUME NEW s \in Seq(Byte), Framed(s), Len(s) # 0 => Ends(s, Len(s)),
         NEW k \in Frame, \A i \in 1 .. Len(s) : At(s, i) < k
  PROVE  LET t == Cat(s, Bytes(k))
         IN  /\ t \in Seq(Byte) /\ Framed(t) /\ Len(t) # 0 /\ Ends(t, Len(t))
             /\ Whole(t) = Whole(s) \cup {k} /\ \A i \in 1 .. Len(t) : At(t, i) <= k
<1> DEFINE t == Cat(s, Bytes(k))
           l == Len(s)
           n == SizeOf(k)
<1>1. l \in Nat /\ n \in Nat /\ 1 <= n /\ k \in Nat
  BY BytesIs, LenProperties, TransportAssumption DEF Frame
<1>2. /\ Bytes(k) \in Seq(Byte) /\ Len(Bytes(k)) = n /\ \A i \in 1 .. n : Bytes(k)[i] = <<k, i>>
  BY BytesIs, Zenon
<1> HIDE DEF n
<1>3. /\ t \in Seq(Byte) /\ Len(t) = l + n
      /\ \A i \in 1 .. l + n : t[i] = IF i <= l THEN s[i] ELSE Bytes(k)[i - l]
  <2>1. /\ t \in Seq(Byte) /\ Len(t) = Len(s) + Len(Bytes(k))
        /\ \A i \in 1 .. Len(s) + Len(Bytes(k)) : t[i] = IF i <= Len(s) THEN s[i] ELSE Bytes(k)[i - Len(s)]
    BY <1>2, CatIs, Zenon
  <2> QED
    BY <1>2, <2>1, Zenon
<1> HIDE DEF t, l
<1>4. \A i \in 1 .. l : i \in 1 .. Len(t) /\ t[i] = s[i]
  BY <1>1, <1>3
<1>5. \A i \in 1 .. l : At(t, i) = At(s, i) /\ Place(t, i) = Place(s, i) /\ Size(t, i) = Size(s, i)
                        /\ (Ends(t, i) <=> Ends(s, i))
  BY <1>4, Zenon DEF At, Place, Size, Ends
<1>6. ASSUME NEW i \in 1 .. n
      PROVE  /\ l + i \in 1 .. Len(t) /\ t[l + i] = <<k, i>>
             /\ At(t, l + i) = k /\ Place(t, l + i) = i /\ Size(t, l + i) = n
  <2>1. l + i \in 1 .. l + n /\ ~(l + i <= l) /\ (l + i) - l = i
    BY <1>1
  <2>2. t[l + i] = <<k, i>>
    BY <1>2, <1>3, <2>1, Zenon
  <2>3. At(t, l + i) = k /\ Place(t, l + i) = i
    BY <2>2 DEF At, Place
  <2> QED
    BY <1>3, <2>1, <2>2, <2>3, Zenon DEF Size, At, n
<1>7. \A j \in 1 .. Len(t) : j \in 1 .. l \/ \E i \in 1 .. n : j = l + i
  <2> SUFFICES ASSUME NEW j \in 1 .. Len(t), ~(j \in 1 .. l) PROVE \E i \in 1 .. n : j = l + i
    BY Zenon
  <2>1. j - l \in 1 .. n /\ j = l + (j - l)
    BY <1>1, <1>3
  <2> QED
    BY <2>1, Zenon
<1>8. 1 \in 1 .. Len(t) => Place(t, 1) = 1
  <2>1. CASE l = 0
    <3>1. 1 \in 1 .. n /\ l + 1 = 1
      BY <1>1, <2>1
    <3>2. Place(t, l + 1) = 1
      BY <1>6, <3>1, Zenon
    <3> QED
      BY <3>1, <3>2, Zenon
  <2>2. CASE l # 0
    <3>1. 1 \in 1 .. l
      BY <1>1, <2>2
    <3> QED
      BY <1>5, <3>1, FramedIs, Zenon DEF l
  <2> QED
    BY <2>1, <2>2, Zenon
<1>9. ASSUME NEW i \in 1 .. Len(t) - 1
      PROVE  /\ Place(t, i) < Size(t, i) => t[i + 1] = <<At(t, i), Place(t, i) + 1>>
             /\ ~(Place(t, i) < Size(t, i)) => Place(t, i + 1) = 1 /\ At(t, i + 1) > At(t, i)
  <2>1. CASE i \in 1 .. l - 1
    <3>1. i \in 1 .. l /\ i + 1 \in 1 .. l
      BY <1>1, <2>1
    <3>2. i \in 1 .. Len(s) - 1
      BY <2>1, Zenon DEF l
    <3> QED
      BY <1>4, <1>5, <3>1, <3>2, FramedIs, Zenon
  <2>2. CASE i = l /\ l # 0
    <3>1. l \in 1 .. l /\ 1 \in 1 .. n /\ l \in 1 .. Len(s)
      BY <1>1, <2>2 DEF l
    <3>2. Ends(s, l) /\ At(s, l) < k /\ At(s, l) \in Nat /\ Place(s, l) \in Nat /\ Size(s, l) \in Nat
      BY <2>2, <3>1, AtIs, Zenon DEF l
    <3>3. At(t, l) < k /\ ~(Place(t, l) < Size(t, l))
      BY <1>5, <3>1, <3>2 DEF Ends
    <3>4. Place(t, l + 1) = 1 /\ At(t, l + 1) = k
      BY <1>6, <3>1, Zenon
    <3> QED
      BY <1>1, <1>5, <2>2, <3>1, <3>2, <3>3, <3>4, Zenon
  <2>3. CASE i > l
    <3> DEFINE m == i - l
    <3>1. m \in 1 .. n /\ m + 1 \in 1 .. n /\ i = l + m /\ i + 1 = l + (m + 1)
      BY <1>1, <1>3, <2>3
    <3> HIDE DEF m
    <3>2. At(t, i) = k /\ Place(t, i) = m /\ Size(t, i) = n
      BY <1>6, <3>1, Zenon
    <3>3. t[i + 1] = <<k, m + 1>>
      BY <1>6, <3>1, Zenon
    <3>4. m < n
      BY <1>1, <3>1
    <3> QED
      BY <3>2, <3>3, <3>4, Zenon
  <2> QED
    BY <1>1, <1>3, <2>1, <2>2, <2>3
<1>10. Framed(t)
  BY <1>3, <1>8, <1>9, FramedIs, Zenon
<1>11. n \in 1 .. n /\ Len(t) = l + n /\ Len(t) # 0
  BY <1>1, <1>3
<1>12. Ends(t, Len(t)) /\ At(t, Len(t)) = k /\ Len(t) \in 1 .. Len(t)
  BY <1>6, <1>11, Zenon DEF Ends
<1>13. Whole(t) = Whole(s) \cup {k}
  <2>1. ASSUME NEW x \in Whole(t) PROVE x \in Whole(s) \cup {k}
    <3>1. PICK j \in 1 .. Len(t) : Ends(t, j) /\ x = At(t, j)
      BY <1>3, WholeFrom, Zenon
    <3>2. CASE j \in 1 .. l
      <4>1. Ends(s, j) /\ x = At(s, j) /\ j \in 1 .. Len(s)
        BY <1>5, <3>1, <3>2, Zenon DEF l
      <4> QED
        BY <4>1, WholeHas, Zenon
    <3>3. CASE \E i \in 1 .. n : j = l + i
      BY <1>6, <3>1, <3>3, Zenon
    <3> QED
      BY <1>7, <3>2, <3>3, Zenon
  <2>2. ASSUME NEW x \in Whole(s) PROVE x \in Whole(t)
    <3>1. PICK j \in 1 .. l : Ends(s, j) /\ x = At(s, j)
      BY WholeFrom, Zenon DEF l
    <3>2. j \in 1 .. Len(t) /\ Ends(t, j) /\ x = At(t, j)
      BY <1>4, <1>5, <3>1, Zenon
    <3> QED
      BY <1>3, <3>2, WholeHas, Zenon
  <2>3. k \in Whole(t)
    BY <1>3, <1>12, WholeHas, Zenon
  <2> QED
    BY <2>1, <2>2, <2>3, Zenon
<1>14. ASSUME NEW j \in 1 .. Len(t) PROVE At(t, j) <= k
  <2>1. CASE j \in 1 .. l
    <3>1. j \in 1 .. Len(s) /\ At(t, j) = At(s, j)
      BY <1>5, <2>1, Zenon DEF l
    <3>2. At(s, j) < k /\ At(s, j) \in Nat
      BY <3>1, AtIs, Zenon
    <3> QED
      BY <1>1, <3>1, <3>2
  <2>2. CASE \E i \in 1 .. n : j = l + i
    <3>1. At(t, j) = k /\ k \in Nat
      BY <1>1, <1>6, <2>2, Zenon
    <3> QED
      BY <3>1
  <2> QED
    BY <1>7, <2>1, <2>2, Zenon
<1> QED
  BY <1>3, <1>10, <1>11, <1>12, <1>13, <1>14, Zenon DEF t

-----------------------------------------------------------------------------
(* The loop of medium_readable *)

\* One round of the loop at i, given what the later rounds return.
Round(buf, f, i) ==
  LET n == Announced(buf[i])
  IN  IF i > Len(buf) THEN [rest |-> <<>>, got |-> <<>>]
      ELSE IF n > MaxSize THEN [rest |-> <<>>, got |-> <<>>]
      ELSE IF i + n - 1 > Len(buf) THEN [rest |-> From(buf, i), got |-> <<>>]
      ELSE [f[i + n] EXCEPT !.got = <<buf[i][1]>> \o @]

Rounds(buf, f) == [i \in 1 .. Len(buf) + 1 |-> Round(buf, f, i)]

LEMMA ParseIs ==
  ASSUME NEW buf
  PROVE  parse(buf) = (CHOOSE f : f = Rounds(buf, f))[1]
BY Zenon DEF parse, Rounds, Round

\* A round uses later rounds only.
LEMMA RoundIsLocal ==
  ASSUME NEW buf \in Seq(Byte), NEW f, NEW g, NEW i \in 1 .. Len(buf) + 1,
         \A x \in 1 .. Len(buf) + 1 : x > i => f[x] = g[x]
  PROVE  Round(buf, f, i) = Round(buf, g, i)
<1> DEFINE n == Announced(buf[i])
<1>1. Len(buf) \in Nat
  BY LenProperties, Zenon
<1>2. CASE i > Len(buf) \/ n > MaxSize \/ i + n - 1 > Len(buf)
  BY <1>2, Zenon DEF Round
<1>3. CASE ~(i > Len(buf)) /\ ~(n > MaxSize) /\ ~(i + n - 1 > Len(buf))
  <2>1. i \in 1 .. Len(buf)
    BY <1>1, <1>3
  <2>2. SizeOf(buf[i][1]) \in Nat /\ 1 <= SizeOf(buf[i][1]) /\ MaxSize \in Nat
    <3>1. /\ Size(buf, i) \in Nat /\ Place(buf, i) \in Nat /\ 1 <= Place(buf, i)
          /\ Place(buf, i) <= Size(buf, i)
      BY <2>1, AtIs, Zenon
    <3> QED
      BY <3>1, PeerIOAssumption DEF Size
  <2>3. n \in Nat /\ 1 <= n
    BY <2>2 DEF Announced
  <2> HIDE DEF n
  <2>4. i + n \in 1 .. Len(buf) + 1 /\ i + n > i
    BY <1>1, <1>3, <2>3
  <2>5. f[i + n] = g[i + n]
    BY <2>4, Zenon
  <2> QED
    BY <1>3, <2>5, Zenon DEF Round, n
<1> QED
  BY <1>2, <1>3, Zenon

LEMMA LoopExists ==
  ASSUME NEW buf \in Seq(Byte)
  PROVE  \E f : f = Rounds(buf, f)
<1> DEFINE N == Len(buf) + 1
           Right(f, k) == \A i \in 1 .. N : i > N - k => f[i] = Round(buf, f, i)
           G == {k \in 0 .. N : \E f : Right(f, k)}
<1>1. Len(buf) \in Nat /\ N \in Nat
  BY LenProperties
<1>2. 0 \in G
  <2>1. \A i \in 1 .. N : ~(i > N - 0)
    BY <1>1
  <2>2. Right(<<>>, 0) /\ 0 \in 0 .. N
    BY <1>1, <2>1
  <2> QED
    BY <2>2, Zenon
<1>3. ASSUME NEW k \in 1 .. N, k - 1 \in G PROVE k \in G
  <2>1. PICK f : Right(f, k - 1)
    BY <1>3, Zenon
  <2> DEFINE c == N - (k - 1)
             g == [x \in 1 .. N |-> IF x = c THEN Round(buf, f, c) ELSE f[x]]
  <2>2. c \in 1 .. N /\ \A i \in 1 .. N : i > N - k => i = c \/ i > c
    BY <1>1
  <2>3. \A x \in 1 .. N : x > c => g[x] = f[x]
    BY <2>2
  <2>4. g[c] = Round(buf, f, c)
    BY <2>2, Zenon
  <2>5. \A i \in 1 .. N : i > c => f[i] = Round(buf, f, i)
    BY <2>1, Zenon
  <2> HIDE DEF g, c, Right
  <2>6. ASSUME NEW i \in 1 .. N, i = c \/ i > c PROVE g[i] = Round(buf, g, i)
    <3>1. \A x \in 1 .. N : x > i => f[x] = g[x]
      <4>1. \A x \in 1 .. N : x > i => x > c
        BY <2>2, <2>6, <1>1
      <4> QED
        BY <2>3, <4>1, Zenon
    <3>2. Round(buf, f, i) = Round(buf, g, i)
      BY <3>1, RoundIsLocal, Zenon
    <3> QED
      BY <2>3, <2>4, <2>5, <2>6, <3>2, Zenon
  <2>7. Right(g, k)
    BY <2>2, <2>6, Zenon DEF Right
  <2>8. k \in 0 .. N
    BY <1>1
  <2> QED
    BY <2>7, <2>8, Zenon
<1> HIDE DEF G
<1>4. N \in G
  <2>1. \A k \in 0 .. N : k \in G
    BY <1>1, <1>2, <1>3, SetInduction, Zenon
  <2> QED
    BY <1>1, <2>1
<1>5. PICK f : Right(f, N)
  BY <1>4, Zenon DEF G
<1>6. \A i \in 1 .. N : f[i] = Round(buf, f, i)
  <2>1. \A i \in 1 .. N : i > N - N
    BY <1>1
  <2> QED
    BY <1>5, <2>1, Zenon
<1> DEFINE h == [i \in 1 .. N |-> f[i]]
<1>7. \A i \in 1 .. N : h[i] = f[i]
  BY Zenon
<1>8. \A i \in 1 .. N : h[i] = Round(buf, h, i)
  <2> HIDE DEF h
  <2> SUFFICES ASSUME NEW i \in 1 .. N PROVE h[i] = Round(buf, h, i)
    BY Zenon
  <2>1. Round(buf, f, i) = Round(buf, h, i)
    BY <1>7, RoundIsLocal, Zenon
  <2> QED
    BY <1>6, <1>7, <2>1, Zenon
<1>9. h = [i \in 1 .. N |-> Round(buf, h, i)]
  <2>1. h = [i \in 1 .. N |-> h[i]]
    BY Zenon
  <2> HIDE DEF h
  <2> QED
    BY <1>8, <2>1, Zenon
<1> HIDE DEF h
<1> QED
  BY <1>9, Zenon DEF Rounds

LEMMA ParseLoops ==
  ASSUME NEW buf \in Seq(Byte)
  PROVE  \E f : parse(buf) = f[1] /\ \A i \in 1 .. Len(buf) + 1 : f[i] = Round(buf, f, i)
<1> DEFINE f == CHOOSE g : g = Rounds(buf, g)
<1>1. f = Rounds(buf, f)
  BY LoopExists, Zenon
<1>2. parse(buf) = f[1]
  BY ParseIs, Zenon
<1> HIDE DEF f
<1>3. \A i \in 1 .. Len(buf) + 1 : f[i] = Round(buf, f, i)
  BY <1>1, Zenon DEF Rounds
<1> QED
  BY <1>2, <1>3, Zenon

Result == [rest : Seq(Byte), got : Seq(Nat)]

\* i is the first byte of a frame, or behind the last byte.
Starts(buf, i) == i \in 1 .. Len(buf) => Place(buf, i) = 1

\* What the loop returns from i on: it stops at j, the start of a frame that is not
\* complete, and has handed on the frames before it.
Parsed(buf, i, r, j) ==
  /\ r \in Result /\ j \in i .. Len(buf) + 1 /\ r.rest = From(buf, j)
  /\ j \in 1 .. Len(buf) => Place(buf, j) = 1 /\ j + Size(buf, j) - 1 > Len(buf)
  /\ r.got = <<>> <=> j = i
  /\ j # i => j - 1 \in 1 .. Len(buf) /\ Last(r.got) = At(buf, j - 1) /\ Ends(buf, j - 1)

LEMMA LastIs ==
  ASSUME NEW x \in Nat, NEW g \in Seq(Nat)
  PROVE  LET h == Cat(<<x>>, g)
         IN  h \in Seq(Nat) /\ h # <<>> /\ Last(h) = IF g = <<>> THEN x ELSE Last(g)
<1> DEFINE h == Cat(<<x>>, g)
           o == <<x>>
<1>1. o \in Seq(Nat) /\ Len(o) = 1 /\ o[1] = x
  OBVIOUS
<1> HIDE DEF o
<1>2. Len(g) \in Nat
  BY LenProperties, Zenon
<1>3. h \in Seq(Nat) /\ Len(h) = Len(o) + Len(g)
      /\ \A i \in 1 .. Len(o) + Len(g) : h[i] = IF i <= Len(o) THEN o[i] ELSE g[i - Len(o)]
  BY <1>1, CatIs, Zenon DEF o
<1> HIDE DEF h
<1>4. Len(h) = 1 + Len(g) /\ \A i \in 1 .. 1 + Len(g) : h[i] = IF i <= 1 THEN o[i] ELSE g[i - 1]
  BY <1>1, <1>3, Zenon
<1>5. h # <<>>
  <2>1. Len(h) # 0
    BY <1>2, <1>4
  <2> QED
    BY <2>1, EmptySeq, Zenon
<1>6. Last(h) = h[Len(h)] /\ Last(g) = g[Len(g)]
  BY Zenon DEF Last
<1>7. CASE g = <<>>
  <2>1. Len(h) = 1
    BY <1>4, <1>7, EmptySeq
  <2>2. h[1] = o[1]
    BY <1>2, <1>4
  <2> QED
    BY <1>1, <1>3, <1>5, <1>6, <1>7, <2>1, <2>2, Zenon DEF h
<1>8. CASE g # <<>>
  <2>1. Len(g) \in Nat \ {0}
    BY <1>8, EmptySeq, Zenon
  <2>2. Len(h) \in 1 .. 1 + Len(g) /\ ~(Len(h) <= 1) /\ Len(h) - 1 = Len(g)
    BY <1>4, <2>1
  <2>3. h[Len(h)] = g[Len(g)]
    BY <1>4, <2>2, Zenon
  <2> QED
    BY <1>3, <1>5, <1>6, <1>8, <2>3, Zenon DEF h
<1> QED
  BY <1>7, <1>8, Zenon

\* A complete frame is followed by the start of another.
LEMMA NextStarts ==
  ASSUME NEW buf \in Seq(Byte), Framed(buf), NEW i \in 1 .. Len(buf), Place(buf, i) = 1,
         i + Size(buf, i) - 1 <= Len(buf)
  PROVE  LET k == i + Size(buf, i)
         IN  /\ k \in i + 1 .. Len(buf) + 1 /\ Starts(buf, k) /\ k - 1 \in 1 .. Len(buf)
             /\ At(buf, k - 1) = At(buf, i) /\ Ends(buf, k - 1)
<1> DEFINE n == Size(buf, i)
           m == n - 1
           e == i + m
<1>1. Len(buf) \in Nat /\ n \in Nat /\ 1 <= n
  BY AtIs, LenProperties, Zenon
<1>2. m \in Nat /\ m < n /\ e \in 1 .. Len(buf) /\ m + 1 = n /\ e <= Len(buf)
  BY <1>1
<1>3. At(buf, e) = At(buf, i) /\ Place(buf, e) = n
  BY <1>2, FrameRuns, Zenon
<1>4. i + n - 1 = e /\ e + 1 = i + n /\ i + n \in i + 1 .. Len(buf) + 1
  BY <1>1
<1> HIDE DEF e
<1>5. Size(buf, e) = n
  BY <1>3, Zenon DEF Size, At
<1>6. Ends(buf, e)
  BY <1>3, <1>5, Zenon DEF Ends
<1>7. Starts(buf, i + n)
  <2> SUFFICES ASSUME e + 1 \in 1 .. Len(buf) PROVE Place(buf, e + 1) = 1
    BY <1>4, Zenon DEF Starts
  <2>1. ~(Place(buf, e) < Size(buf, e))
    BY <1>1, <1>3, <1>5
  <2> QED
    BY <1>2, <2>1, NextByte, Zenon
<1>8. i + n - 1 \in 1 .. Len(buf) /\ At(buf, i + n - 1) = At(buf, i) /\ Ends(buf, i + n - 1)
  BY <1>2, <1>3, <1>4, <1>6, Zenon
<1> QED
  BY <1>4, <1>7, <1>8

LEMMA RoundIs ==
  ASSUME NEW buf \in Seq(Byte), Framed(buf), NEW f, NEW i \in 1 .. Len(buf) + 1, Starts(buf, i),
         f[i] = Round(buf, f, i),
         \A x \in i + 1 .. Len(buf) + 1 : Starts(buf, x) => \E j : Parsed(buf, x, f[x], j)
  PROVE  \E j : Parsed(buf, i, f[i], j)
<1>1. Len(buf) \in Nat /\ MaxSize \in Nat
  BY LenProperties, PeerIOAssumption, Zenon
<1>2. From(buf, i) \in Seq(Byte) /\ Len(From(buf, i)) = Len(buf) - i + 1
  BY FromIs, Zenon
<1>3. CASE i > Len(buf)
  <2>1. f[i] = [rest |-> <<>>, got |-> <<>>]
    BY <1>3, Zenon DEF Round
  <2>2. From(buf, i) = <<>>
    <3>1. Len(From(buf, i)) = 0
      BY <1>1, <1>2, <1>3
    <3> QED
      BY <1>2, <3>1, EmptySeq, Zenon
  <2>3. f[i] \in Result /\ f[i].rest = <<>> /\ f[i].got = <<>>
    BY <2>1 DEF Result
  <2>4. i \in i .. Len(buf) + 1 /\ ~(i \in 1 .. Len(buf))
    BY <1>1, <1>3
  <2>5. Parsed(buf, i, f[i], i)
    BY <2>2, <2>3, <2>4, Zenon DEF Parsed
  <2> QED
    BY <2>5, Zenon
<1>4. CASE ~(i > Len(buf))
  <2> DEFINE n == Size(buf, i)
  <2>1. i \in 1 .. Len(buf) /\ Place(buf, i) = 1
    BY <1>1, <1>4 DEF Starts
  <2>2. n \in Nat /\ 1 <= n /\ n <= MaxSize /\ At(buf, i) \in Nat
    BY <2>1, AtIs, Zenon
  <2>3. Announced(buf[i]) = n
    BY <2>1, Zenon DEF Announced, Size, Place
  <2>4. ~(n > MaxSize)
    BY <1>1, <2>2
  <2>5. CASE i + n - 1 > Len(buf)
    <3>1. f[i] = [rest |-> From(buf, i), got |-> <<>>]
      BY <1>4, <2>3, <2>4, <2>5, Zenon DEF Round
    <3>2. f[i] \in Result /\ f[i].rest = From(buf, i) /\ f[i].got = <<>>
      BY <1>2, <3>1 DEF Result
    <3>3. i \in i .. Len(buf) + 1
      BY <1>1
    <3>4. Parsed(buf, i, f[i], i)
      BY <2>1, <2>5, <3>2, <3>3, Zenon DEF Parsed
    <3> QED
      BY <3>4, Zenon
  <2>6. CASE ~(i + n - 1 > Len(buf))
    <3> DEFINE k == i + n
    <3>1. f[i] = [f[k] EXCEPT !.got = <<At(buf, i)>> \o @]
      BY <1>4, <2>3, <2>4, <2>6, Zenon DEF Round, At
    <3>2. i + n - 1 <= Len(buf)
      BY <1>1, <2>2, <2>6
    <3>3. /\ k \in i + 1 .. Len(buf) + 1 /\ Starts(buf, k) /\ k - 1 \in 1 .. Len(buf)
          /\ At(buf, k - 1) = At(buf, i) /\ Ends(buf, k - 1)
      BY <2>1, <3>2, NextStarts, Zenon
    <3> HIDE DEF k
    <3>4. PICK j : Parsed(buf, k, f[k], j)
      BY <3>3, Zenon
    <3> DEFINE g == f[k].got
               h == Cat(<<At(buf, i)>>, g)
    <3>5. f[k] \in Result /\ g \in Seq(Nat)
      BY <3>4, Zenon DEF Parsed, Result
    <3>6. h \in Seq(Nat) /\ h # <<>> /\ Last(h) = IF g = <<>> THEN At(buf, i) ELSE Last(g)
      BY <2>2, <3>5, LastIs, Zenon
    <3>7. f[i] = [f[k] EXCEPT !.got = h]
      BY <3>1, Zenon DEF Cat
    <3> HIDE DEF h
    <3>8. f[i] \in Result /\ f[i].rest = f[k].rest /\ f[i].got = h
      BY <3>5, <3>6, <3>7, Zenon DEF Result
    <3>9. j \in k .. Len(buf) + 1 /\ j \in i .. Len(buf) + 1 /\ j # i
      <4>1. j \in k .. Len(buf) + 1
        BY <3>4, Zenon DEF Parsed
      <4> QED
        BY <1>1, <3>3, <4>1
    <3>10. j - 1 \in 1 .. Len(buf) /\ Last(h) = At(buf, j - 1) /\ Ends(buf, j - 1)
      <4>1. CASE j = k
        <5>1. g = <<>>
          BY <3>4, <4>1, Zenon DEF Parsed
        <5> QED
          BY <3>3, <3>6, <4>1, <5>1, Zenon
      <4>2. CASE j # k
        BY <3>4, <3>6, <4>2, Zenon DEF Parsed
      <4> QED
        BY <4>1, <4>2, Zenon
    <3>11. Parsed(buf, i, f[i], j)
      BY <3>4, <3>6, <3>8, <3>9, <3>10, Zenon DEF Parsed
    <3> QED
      BY <3>11, Zenon
  <2> QED
    BY <2>5, <2>6, Zenon
<1> QED
  BY <1>3, <1>4, Zenon

LEMMA ParseReturns ==
  ASSUME NEW buf \in Seq(Byte), Framed(buf)
  PROVE  \E j : Parsed(buf, 1, parse(buf), j)
<1> DEFINE N == Len(buf) + 1
<1>1. PICK f : parse(buf) = f[1] /\ \A i \in 1 .. Len(buf) + 1 : f[i] = Round(buf, f, i)
  BY ParseLoops, Zenon
<1> DEFINE G == {k \in 0 .. N : \A x \in 1 .. N : x > N - k /\ Starts(buf, x) => \E j : Parsed(buf, x, f[x], j)}
<1>2. Len(buf) \in Nat /\ N \in Nat
  BY LenProperties
<1>3. 0 \in G
  <2>1. \A x \in 1 .. N : ~(x > N - 0)
    BY <1>2
  <2>2. 0 \in 0 .. N
    BY <1>2
  <2> QED
    BY <2>1, <2>2, Zenon
<1>4. ASSUME NEW k \in 1 .. N, k - 1 \in G PROVE k \in G
  <2> DEFINE i == N - (k - 1)
  <2>1. i \in 1 .. N /\ k \in 0 .. N /\ \A x \in 1 .. N : x > N - k => x = i \/ x > i
    BY <1>2
  <2>2. \A x \in i + 1 .. N : x \in 1 .. N /\ x > i
    BY <1>2, <2>1
  <2>3. \A x \in 1 .. N : x > i /\ Starts(buf, x) => \E j : Parsed(buf, x, f[x], j)
    BY <1>4, Zenon
  <2> HIDE DEF i, G
  <2>4. \A x \in i + 1 .. N : Starts(buf, x) => \E j : Parsed(buf, x, f[x], j)
    BY <2>2, <2>3, Zenon
  <2>5. Starts(buf, i) => \E j : Parsed(buf, i, f[i], j)
    BY <1>1, <2>1, <2>4, RoundIs, Zenon
  <2> QED
    BY <2>1, <2>3, <2>5, Zenon DEF G
<1> HIDE DEF G
<1>5. N \in G
  <2>1. \A k \in 0 .. N : k \in G
    BY <1>2, <1>3, <1>4, SetInduction, Zenon
  <2> QED
    BY <1>2, <2>1
<1>6. 1 \in 1 .. N /\ 1 > N - N
  BY <1>2
<1>7. Starts(buf, 1)
  BY FramedIs, Zenon DEF Starts
<1> QED
  BY <1>1, <1>5, <1>6, <1>7, Zenon DEF G

-----------------------------------------------------------------------------
(* Reading and writing *)

LEMMA BufferSizes ==
  /\ MaxSize \in Nat \ {0} /\ SendBuf \in Nat /\ RxBuf \in Nat /\ WireCap \in Nat \ {0}
  /\ MaxSize <= SendBuf /\ RxBuf = MaxSize
BY PeerIOAssumption, Zenon

LEMMA SmallerIs ==
  ASSUME NEW a \in Nat, NEW b \in Nat
  PROVE  Smaller(a, b) \in 0 .. b /\ Smaller(a, b) <= a
BY DEF Smaller

\* The start of a frame that is not complete has no complete frame behind it.
LEMMA RestIsPart ==
  ASSUME NEW buf \in Seq(Byte), Framed(buf), NEW j \in 1 .. Len(buf) + 1,
         j \in 1 .. Len(buf) => Place(buf, j) = 1 /\ j + Size(buf, j) - 1 > Len(buf)
  PROVE  Len(From(buf, j)) < RxBuf /\ Whole(From(buf, j)) = {}
<1> DEFINE t == From(buf, j)
<1>1. Len(buf) \in Nat
  BY LenProperties, Zenon
<1>2. t \in Seq(Byte) /\ Len(t) = Len(buf) - j + 1 /\ \A i \in 1 .. Len(buf) - j + 1 : t[i] = buf[j + i - 1]
  BY FromIs, Zenon
<1> HIDE DEF t
<1>3. CASE j = Len(buf) + 1
  <2>1. Len(t) = 0 /\ 0 < RxBuf
    BY <1>1, <1>2, <1>3, BufferSizes
  <2>2. Whole(t) = {}
    <3> SUFFICES ASSUME NEW x \in Whole(t) PROVE FALSE
      BY Zenon
    <3>1. PICK i \in 1 .. Len(t) : Ends(t, i) /\ x = At(t, i)
      BY <1>2, WholeFrom, Zenon
    <3> QED
      BY <2>1, <3>1
  <2> QED
    BY <2>1, <2>2, Zenon DEF t
<1>4. CASE j # Len(buf) + 1
  <2>1. j \in 1 .. Len(buf) /\ Place(buf, j) = 1 /\ j + Size(buf, j) - 1 > Len(buf)
    BY <1>1, <1>4
  <2>2. Size(buf, j) \in Nat /\ Size(buf, j) <= MaxSize
    BY <2>1, AtIs, Zenon
  <2>3. Len(t) \in Nat /\ Len(t) < Size(buf, j) /\ Len(t) < RxBuf
    BY <1>1, <1>2, <2>1, <2>2, BufferSizes
  <2>4. ASSUME NEW i \in 1 .. Len(t) PROVE ~Ends(t, i)
    <3> DEFINE m == i - 1
    <3>1. m \in Nat /\ m < Size(buf, j) /\ j + m <= Len(buf) /\ j + i - 1 = j + m /\ m + 1 = i
      BY <1>1, <1>2, <2>1, <2>2, <2>3
    <3>2. At(buf, j + m) = At(buf, j) /\ Place(buf, j + m) = i
      BY <2>1, <3>1, FrameRuns, Zenon
    <3>3. t[i] = buf[j + m]
      BY <1>2, <3>1, Zenon
    <3>4. Place(t, i) = i /\ Size(t, i) = Size(buf, j)
      BY <3>2, <3>3, Zenon DEF Place, Size, At
    <3> QED
      BY <2>2, <2>3, <3>4 DEF Ends
  <2>5. Whole(t) = {}
    <3> SUFFICES ASSUME NEW x \in Whole(t) PROVE FALSE
      BY Zenon
    <3>1. PICK i \in 1 .. Len(t) : Ends(t, i) /\ x = At(t, i)
      BY <1>2, WholeFrom, Zenon
    <3> QED
      BY <2>4, <3>1, Zenon
  <2> QED
    BY <2>3, <2>5, Zenon DEF t
<1> QED
  BY <1>3, <1>4, Zenon

\* A read takes j - 1 bytes from the front of the stream, whole frames all of them.
Taken(s, j, g) ==
  /\ j \in 1 .. Len(s) + 1 /\ Starts(s, j)
  /\ g = <<>> <=> j = 1
  /\ j # 1 => j - 1 \in 1 .. Len(s) /\ Last(g) = At(s, j - 1) /\ Ends(s, j - 1)

LEMMA ReadIs ==
  ASSUME NEW rx \in Seq(Byte), NEW w \in Seq(Byte), NEW c \in Seq(Byte),
         Framed(Cat(Cat(rx, w), c)), Len(rx) < RxBuf
  PROVE  LET s == Cat(Cat(rx, w), c)
             r == medium_readable(rx, w)
         IN  /\ r.rxbuf \in Seq(Byte) /\ Len(r.rxbuf) < RxBuf /\ Whole(r.rxbuf) = {}
             /\ r.wire \in Seq(Byte) /\ Len(r.wire) <= Len(w)
             /\ \E j : Taken(s, j, r.got) /\ Cat(Cat(r.rxbuf, r.wire), c) = From(s, j)
<1> DEFINE s == Cat(Cat(rx, w), c)
           r == medium_readable(rx, w)
           n == Smaller(RxBuf - Len(rx), Len(w))
           u == Upto(w, n)
           buf == Cat(rx, u)
           p == parse(buf)
<1>1. Len(rx) \in Nat /\ Len(w) \in Nat /\ Len(c) \in Nat
  BY LenProperties, Zenon
<1>2. n \in 0 .. Len(w) /\ n \in Nat /\ Len(rx) + n <= MaxSize
  <2>1. RxBuf - Len(rx) \in Nat
    BY <1>1, BufferSizes
  <2>2. n \in 0 .. Len(w) /\ n <= RxBuf - Len(rx)
    BY <1>1, <2>1, SmallerIs, Zenon
  <2> HIDE DEF n
  <2> QED
    BY <1>1, <2>2, BufferSizes
<1>3. ~(Len(rx) >= RxBuf)
  BY <1>1, BufferSizes
<1>4. r = [rxbuf |-> p.rest, wire |-> From(w, n + 1), got |-> p.got]
  BY <1>3, Zenon DEF medium_readable, Cat
<1> HIDE DEF n
<1>5. u \in Seq(Byte) /\ Len(u) = n /\ \A i \in 1 .. n : u[i] = w[i]
  BY <1>2, UptoIs, Zenon
<1> HIDE DEF u
<1>6. /\ buf \in Seq(Byte) /\ Len(buf) = Len(rx) + n
      /\ \A i \in 1 .. Len(rx) + n : buf[i] = IF i <= Len(rx) THEN rx[i] ELSE u[i - Len(rx)]
  <2>1. /\ buf \in Seq(Byte) /\ Len(buf) = Len(rx) + Len(u)
        /\ \A i \in 1 .. Len(rx) + Len(u) : buf[i] = IF i <= Len(rx) THEN rx[i] ELSE u[i - Len(rx)]
    BY <1>5, CatIs, Zenon
  <2> QED
    BY <1>5, <2>1, Zenon
<1> DEFINE a == Cat(rx, w)
<1>7. /\ a \in Seq(Byte) /\ Len(a) = Len(rx) + Len(w)
      /\ \A i \in 1 .. Len(rx) + Len(w) : a[i] = IF i <= Len(rx) THEN rx[i] ELSE w[i - Len(rx)]
  BY CatIs, Zenon
<1> HIDE DEF a
<1>8. /\ s \in Seq(Byte) /\ Len(s) = Len(a) + Len(c)
      /\ \A i \in 1 .. Len(a) + Len(c) : s[i] = IF i <= Len(a) THEN a[i] ELSE c[i - Len(a)]
  <2>1. s = Cat(a, c)
    BY Zenon DEF a
  <2>2. /\ Cat(a, c) \in Seq(Byte) /\ Len(Cat(a, c)) = Len(a) + Len(c)
        /\ \A i \in 1 .. Len(a) + Len(c) : Cat(a, c)[i] = IF i <= Len(a) THEN a[i] ELSE c[i - Len(a)]
    <3>1. a \in Seq(Byte)
      BY <1>7, Zenon
    <3> HIDE DEF s
    <3> QED
      BY <3>1, CatIs, Zenon
  <2> HIDE DEF s
  <2> QED
    BY <2>1, <2>2, Zenon
<1> HIDE DEF s, buf
<1>9. Begins(buf, s)
  <2>1. Len(buf) <= Len(s) /\ Len(buf) <= Len(a)
    BY <1>1, <1>2, <1>6, <1>7, <1>8
  <2>2. ASSUME NEW i \in 1 .. Len(buf) PROVE buf[i] = s[i]
    <3>1. i \in 1 .. Len(rx) + n /\ i \in 1 .. Len(rx) + Len(w) /\ i \in 1 .. Len(a) + Len(c) /\ i <= Len(a)
      BY <1>1, <1>2, <1>6, <1>7, <2>1
    <3>2. s[i] = a[i]
      BY <1>8, <3>1, Zenon
    <3>3. ~(i <= Len(rx)) => i - Len(rx) \in 1 .. n
      BY <1>1, <1>2, <3>1
    <3> QED
      BY <1>5, <1>6, <1>7, <3>1, <3>2, <3>3, Zenon
  <2> QED
    BY <2>1, <2>2, Zenon DEF Begins
<1>10. Framed(s)
  BY Zenon DEF s
<1>11. Framed(buf)
  BY <1>6, <1>8, <1>9, <1>10, EndIsCut, Zenon
<1>12. PICK j : Parsed(buf, 1, p, j)
  BY <1>6, <1>11, ParseReturns, Zenon
<1> HIDE DEF p
<1>13. /\ j \in 1 .. Len(buf) + 1 /\ p.rest = From(buf, j) /\ (p.got = <<>> <=> j = 1)
       /\ j \in 1 .. Len(buf) => Place(buf, j) = 1 /\ j + Size(buf, j) - 1 > Len(buf)
       /\ j # 1 => j - 1 \in 1 .. Len(buf) /\ Last(p.got) = At(buf, j - 1) /\ Ends(buf, j - 1)
  BY <1>12, Zenon DEF Parsed
<1>14. Len(p.rest) < RxBuf /\ Whole(p.rest) = {} /\ p.rest \in Seq(Byte)
  BY <1>6, <1>11, <1>13, RestIsPart, FromIs, Zenon
<1>15. From(w, n + 1) \in Seq(Byte) /\ Len(From(w, n + 1)) <= Len(w)
  <2>1. n + 1 \in 1 .. Len(w) + 1
    BY <1>1, <1>2
  <2>2. From(w, n + 1) \in Seq(Byte) /\ Len(From(w, n + 1)) = Len(w) - (n + 1) + 1
    BY <2>1, FromIs, Zenon
  <2> QED
    BY <1>1, <1>2, <2>2
<1>16. j \in 1 .. Len(s) + 1 /\ Cat(Cat(p.rest, From(w, n + 1)), c) = From(s, j)
  <2>1. j \in 1 .. Len(rx) + n + 1
    BY <1>6, <1>13, Zenon
  <2>2. /\ j \in 1 .. Len(Cat(Cat(rx, w), c)) + 1
        /\ Cat(Cat(From(Cat(rx, Upto(w, n)), j), From(w, n + 1)), c) = From(Cat(Cat(rx, w), c), j)
    BY <1>2, <2>1, TakeFront
  <2> QED
    BY <1>13, <2>2, Zenon DEF s, buf, u
<1>17. j # 1 => j - 1 \in 1 .. Len(s) /\ Last(p.got) = At(s, j - 1) /\ Ends(s, j - 1)
  <2> SUFFICES ASSUME j # 1 PROVE j - 1 \in 1 .. Len(s) /\ Last(p.got) = At(s, j - 1) /\ Ends(s, j - 1)
    BY Zenon
  <2>1. j - 1 \in 1 .. Len(buf)
    BY <1>13, Zenon
  <2>2. j - 1 \in 1 .. Len(s) /\ buf[j - 1] = s[j - 1]
    BY <1>6, <1>8, <2>1, <1>9, LenProperties DEF Begins
  <2>3. At(s, j - 1) = At(buf, j - 1) /\ (Ends(buf, j - 1) <=> Ends(s, j - 1))
    BY <2>2, Zenon DEF At, Ends, Place, Size
  <2> QED
    BY <1>13, <2>2, <2>3, Zenon
<1>18. Starts(s, j)
  <2> SUFFICES ASSUME j \in 1 .. Len(s) PROVE Place(s, j) = 1
    BY Zenon DEF Starts
  <2>1. CASE j = 1
    BY <1>8, <1>10, <2>1, FramedIs, Zenon
  <2>2. CASE j # 1
    <3>1. j - 1 \in 1 .. Len(s) /\ Ends(s, j - 1) /\ (j - 1) + 1 = j
      BY <1>8, <1>17, <2>2, LenProperties
    <3>2. /\ Place(s, j - 1) \in Nat /\ Size(s, j - 1) \in Nat /\ Place(s, j - 1) = Size(s, j - 1)
      BY <1>8, <3>1, AtIs, Zenon DEF Ends
    <3>3. ~(Place(s, j - 1) < Size(s, j - 1))
      BY <3>2
    <3>4. (j - 1) + 1 \in 1 .. Len(s)
      BY <3>1, Zenon
    <3>5. Place(s, (j - 1) + 1) = 1
      BY <1>8, <1>10, <3>1, <3>3, <3>4, NextByte, Zenon
    <3> QED
      BY <3>1, <3>5, Zenon
  <2> QED
    BY <2>1, <2>2, Zenon
<1>19. Taken(s, j, p.got)
  BY <1>13, <1>16, <1>17, <1>18, Zenon DEF Taken
<1>20. r.rxbuf = p.rest /\ r.wire = From(w, n + 1) /\ r.got = p.got
  BY <1>4
<1> HIDE DEF r
<1> QED
  BY <1>14, <1>15, <1>16, <1>19, <1>20, Zenon DEF r, s

IO == [wire : Seq(Byte), outbuf : Seq(Byte), want_write : BOOLEAN]

\* What is on its way from the hub.
Pipe(o) == Cat(o.wire, o.outbuf)

LEMMA PipeIs ==
  ASSUME NEW o \in IO
  PROVE  o.wire \in Seq(Byte) /\ o.outbuf \in Seq(Byte) /\ Pipe(o) \in Seq(Byte)
<1>1. o.wire \in Seq(Byte) /\ o.outbuf \in Seq(Byte)
  BY Zenon DEF IO
<1> QED
  BY <1>1, CatIs, Zenon DEF Pipe

\* A write of n of the bytes of d behind w: the bytes written and the rest.
Written(w, d, n, v, f) ==
  /\ v \in Seq(Byte) /\ f \in Seq(Byte) /\ Len(f) = Len(d) - n
  /\ Cat(w, v) \in Seq(Byte) /\ Len(Cat(w, v)) <= WireCap /\ Cat(Cat(w, v), f) = Cat(w, d)
  /\ (f = <<>> => v = d) /\ (n = 0 => v = <<>> /\ f = d)

LEMMA WriteIs ==
  ASSUME NEW w \in Seq(Byte), NEW d \in Seq(Byte), NEW n \in 0 .. Len(d), Len(w) + n <= WireCap
  PROVE  Written(w, d, n, Upto(d, n), From(d, n + 1))
<1> DEFINE u == Upto(d, n)
           f == From(d, n + 1)
<1>1. Len(d) \in Nat /\ Len(w) \in Nat /\ n + 1 \in 1 .. Len(d) + 1
  BY LenProperties
<1>2. u \in Seq(Byte) /\ Len(u) = n
  BY UptoIs, Zenon
<1>3. f \in Seq(Byte) /\ Len(f) = Len(d) - (n + 1) + 1
  BY <1>1, FromIs, Zenon
<1>4. Cat(u, f) = d
  BY SplitIs, Zenon
<1> HIDE DEF u, f
<1>5. Len(f) = Len(d) - n
  BY <1>1, <1>3
<1>6. Cat(w, u) \in Seq(Byte) /\ Len(Cat(w, u)) = Len(w) + n
  BY <1>2, CatIs, Zenon
<1>7. Cat(Cat(w, u), f) = Cat(w, d)
  <2>1. Cat(Cat(w, u), f) = Cat(w, Cat(u, f))
    BY <1>2, <1>3, CatAssociates
  <2> QED
    BY <1>4, <2>1, Zenon
<1>8. f = <<>> => u = d
  <2>1. Cat(u, <<>>) = u
    BY <1>2, CatEmpty, Zenon
  <2> QED
    BY <1>4, <2>1, Zenon
<1>9. ASSUME n = 0 PROVE u = <<>> /\ f = d
  <2>1. u = <<>>
    BY <1>2, <1>9, EmptySeq, Zenon
  <2>2. Cat(<<>>, f) = f
    BY <1>3, CatEmpty, Zenon
  <2> QED
    BY <1>4, <2>1, <2>2, Zenon
<1>10. Len(Cat(w, u)) <= WireCap
  BY <1>6, Zenon
<1> QED
  BY <1>2, <1>3, <1>5, <1>6, <1>7, <1>8, <1>9, <1>10, Zenon DEF Written, u, f

LEMMA AcceptedIs ==
  ASSUME NEW w \in Seq(Byte), Len(w) <= WireCap, NEW d \in Seq(Byte)
  PROVE  Accepted(w, d) \in 0 .. Len(d) /\ Len(w) + Accepted(w, d) <= WireCap
<1>1. Len(w) \in Nat /\ Len(d) \in Nat /\ WireCap - Len(w) \in Nat
  BY LenProperties, BufferSizes
<1> DEFINE n == Smaller(WireCap - Len(w), Len(d))
<1>2. n \in 0 .. Len(d) /\ n <= WireCap - Len(w)
  BY <1>1, SmallerIs, Zenon
<1> HIDE DEF n
<1>3. Len(w) + n <= WireCap
  BY <1>1, <1>2, BufferSizes
<1> QED
  BY <1>2, <1>3, Zenon DEF Accepted, n

LEMMA FlushIs ==
  ASSUME NEW o \in IO, Len(o.wire) <= WireCap
  PROVE  LET u == peer_flush(o)
         IN  u \in IO /\ Len(u.wire) <= WireCap /\ Pipe(u) = Pipe(o)
<1> DEFINE w == o.wire
           d == o.outbuf
           n == Accepted(w, d)
           u == peer_flush(o)
<1>1. w \in Seq(Byte) /\ d \in Seq(Byte) /\ Len(w) <= WireCap
  BY PipeIs, Zenon
<1>2. u = [wire |-> Cat(w, Upto(d, n)), outbuf |-> From(d, n + 1), want_write |-> From(d, n + 1) # <<>>]
  BY Zenon DEF peer_flush, Cat
<1> HIDE DEF w, d, u
<1>3. n \in 0 .. Len(d) /\ Len(w) + n <= WireCap
  BY <1>1, AcceptedIs, Zenon
<1> HIDE DEF n
<1>4. /\ From(d, n + 1) \in Seq(Byte) /\ Cat(w, Upto(d, n)) \in Seq(Byte)
      /\ Len(Cat(w, Upto(d, n))) <= WireCap /\ Cat(Cat(w, Upto(d, n)), From(d, n + 1)) = Cat(w, d)
  <2>1. Written(w, d, n, Upto(d, n), From(d, n + 1))
    BY <1>1, <1>3, WriteIs, Zenon
  <2> QED
    BY <2>1, Zenon DEF Written
<1>5. u.wire = Cat(w, Upto(d, n)) /\ u.outbuf = From(d, n + 1) /\ u \in IO
  BY <1>2, <1>4, Zenon DEF IO
<1>6. Pipe(u) = Pipe(o)
  BY <1>4, <1>5, Zenon DEF Pipe, w, d
<1> QED
  BY <1>4, <1>5, <1>6, Zenon DEF u

\* A frame is written and buffered whole, or dropped whole by a backlog without room for it.
LEMMA SendIs ==
  ASSUME NEW o \in IO, Len(o.wire) <= WireCap, NEW k \in Frame
  PROVE  LET u == peer_send(o, Bytes(k))
         IN  /\ u \in IO /\ Len(u.wire) <= WireCap
             /\ \/ Pipe(u) = Cat(Pipe(o), Bytes(k))
                \/ Pipe(u) = Pipe(o) /\ Len(o.outbuf) + SizeOf(k) > SendBuf
<1> DEFINE w == o.wire
           b == o.outbuf
           d == Bytes(k)
           n == IF b = <<>> THEN Accepted(w, d) ELSE 0
           v == Upto(d, n)
           f == From(d, n + 1)
           u == peer_send(o, d)
<1>1. w \in Seq(Byte) /\ b \in Seq(Byte) /\ Len(w) <= WireCap /\ Len(w) \in Nat /\ Len(b) \in Nat
  BY PipeIs, LenProperties, Zenon
<1>2. /\ d \in Seq(Byte) /\ Len(d) = SizeOf(k) /\ SizeOf(k) \in Nat /\ 1 <= SizeOf(k)
      /\ SizeOf(k) <= MaxSize
  BY BytesIs, Zenon
<1>3. f = <<>> \/ Len(b) + Len(f) > SendBuf => u = [o EXCEPT !.wire = Cat(w, v)]
  BY Zenon DEF peer_send, Cat
<1>4. ~(f = <<>> \/ Len(b) + Len(f) > SendBuf)
        => u = [wire |-> Cat(w, v), outbuf |-> Cat(b, f), want_write |-> TRUE]
  BY Zenon DEF peer_send, Cat
<1> HIDE DEF w, b, d, u
<1>5. n \in 0 .. Len(d) /\ Len(w) + n <= WireCap /\ (b # <<>> => n = 0)
  <2>1. CASE b = <<>>
    BY <1>1, <1>2, <2>1, AcceptedIs, Zenon
  <2>2. CASE b # <<>>
    BY <1>1, <1>2, <2>2, BufferSizes
  <2> QED
    BY <2>1, <2>2, Zenon
<1> HIDE DEF n
<1>6. /\ v \in Seq(Byte) /\ f \in Seq(Byte) /\ Len(f) = Len(d) - n
      /\ Cat(w, v) \in Seq(Byte) /\ Len(Cat(w, v)) <= WireCap /\ Cat(Cat(w, v), f) = Cat(w, d)
      /\ (f = <<>> => v = d) /\ (n = 0 => v = <<>> /\ f = d)
  <2>1. w \in Seq(Byte) /\ d \in Seq(Byte) /\ n \in 0 .. Len(d) /\ Len(w) + n <= WireCap
    BY <1>1, <1>2, <1>5, Zenon
  <2>2. Written(w, d, n, v, f)
    BY <2>1, WriteIs, Zenon
  <2> HIDE DEF v, f
  <2> QED
    BY <2>2, Zenon DEF Written
<1> HIDE DEF v, f
<1>7. /\ Cat(w, <<>>) = w /\ Cat(b, <<>>) = b /\ Cat(<<>>, f) = f
      /\ Cat(Cat(w, v), <<>>) = Cat(w, v)
  BY <1>1, <1>6, CatEmpty, Zenon
<1>8. CASE f = <<>>
  <2>1. u = [o EXCEPT !.wire = Cat(w, v)] /\ v = d
    BY <1>3, <1>6, <1>8, Zenon
  <2>2. u.wire = Cat(w, d) /\ u.outbuf = b /\ u \in IO
    BY <1>6, <2>1, Zenon DEF IO, b
  <2>3. b = <<>>
    <3>1. Len(f) = 0
      BY <1>8, EmptySeq, Zenon
    <3>2. n # 0
      BY <1>2, <1>5, <1>6, <3>1
    <3> QED
      BY <1>5, <3>2, Zenon
  <2>4. Pipe(u) = Cat(Pipe(o), d)
    BY <1>7, <2>1, <2>2, <2>3, Zenon DEF Pipe, w, b
  <2> QED
    BY <1>6, <2>1, <2>2, <2>4, Zenon DEF u, d
<1>9. CASE f # <<>> /\ Len(b) + Len(f) > SendBuf
  <2>1. b # <<>>
    <3>1. Len(f) <= SendBuf /\ Len(f) \in Nat
      BY <1>2, <1>5, <1>6, BufferSizes
    <3>2. ASSUME b = <<>> PROVE FALSE
      <4>1. Len(b) = 0
        BY <3>2, EmptySeq, Zenon
      <4> QED
        BY <1>9, <3>1, <4>1, BufferSizes
    <3> QED
      BY <3>2, Zenon
  <2>2. v = <<>> /\ f = d
    BY <1>5, <1>6, <2>1, Zenon
  <2>3. u = [o EXCEPT !.wire = w]
    BY <1>3, <1>7, <1>9, <2>2, Zenon
  <2>4. u.wire = w /\ u.outbuf = b /\ u \in IO
    BY <1>1, <2>3, Zenon DEF IO, b
  <2>5. Pipe(u) = Pipe(o) /\ Len(b) + SizeOf(k) > SendBuf
    BY <1>2, <1>9, <2>2, <2>4, Zenon DEF Pipe, w, b
  <2> QED
    BY <1>1, <2>4, <2>5, Zenon DEF u, d, b
<1>10. CASE f # <<>> /\ ~(Len(b) + Len(f) > SendBuf)
  <2>1. u = [wire |-> Cat(w, v), outbuf |-> Cat(b, f), want_write |-> TRUE]
    BY <1>4, <1>10, Zenon
  <2>2. Cat(b, f) \in Seq(Byte)
    BY <1>1, <1>6, CatIs, Zenon
  <2>3. u.wire = Cat(w, v) /\ u.outbuf = Cat(b, f) /\ u \in IO
    BY <1>6, <2>1, <2>2, Zenon DEF IO
  <2>4. Pipe(u) = Cat(Pipe(o), d)
    <3>1. CASE b = <<>>
      <4>1. Cat(b, f) = f /\ Cat(w, b) = w
        BY <1>7, <3>1, Zenon
      <4> QED
        BY <1>6, <2>3, <4>1, Zenon DEF Pipe, w, b
    <3>2. CASE b # <<>>
      <4>1. Cat(w, v) = w /\ f = d
        BY <1>5, <1>6, <1>7, <3>2, Zenon
      <4>2. Cat(Cat(w, b), d) = Cat(w, Cat(b, d))
        BY <1>1, <1>2, CatAssociates
      <4> QED
        BY <2>3, <4>1, <4>2, Zenon DEF Pipe, w, b
    <3> QED
      BY <3>1, <3>2, Zenon
  <2> QED
    BY <1>6, <2>3, <2>4, Zenon DEF u, d
<1> QED
  BY <1>8, <1>9, <1>10, Zenon

-----------------------------------------------------------------------------
(* The complete frames of a stream, as it is read, cut and full *)

\* The frames read are before those left, and the last one read is the last handed on.
LEMMA TakenSplits ==
  ASSUME NEW s \in Seq(Byte), Framed(s), NEW j, NEW g, Taken(s, j, g)
  PROVE  LET V == Whole(From(s, j))
             R == Whole(s) \ V
         IN  /\ V \subseteq Whole(s) /\ \A x \in R, y \in V : x < y
             /\ IF g = <<>> THEN R = {} ELSE Last(g) \in R /\ \A x \in R : x <= Last(g)
<1> DEFINE t == From(s, j)
           V == Whole(t)
           R == Whole(s) \ V
<1>1. /\ j \in 1 .. Len(s) + 1 /\ Len(s) \in Nat /\ (g = <<>> <=> j = 1)
      /\ j # 1 => j - 1 \in 1 .. Len(s) /\ Last(g) = At(s, j - 1) /\ Ends(s, j - 1)
  BY LenProperties, Zenon DEF Taken
<1>2. t \in Seq(Byte) /\ Len(t) = Len(s) - j + 1 /\ \A i \in 1 .. Len(s) - j + 1 : t[i] = s[j + i - 1]
  BY <1>1, FromIs, Zenon
<1> HIDE DEF t
<1>3. ASSUME NEW y \in V PROVE \E i \in 1 .. Len(s) : i >= j /\ Ends(s, i) /\ y = At(s, i)
  <2>1. PICK m \in 1 .. Len(t) : Ends(t, m) /\ y = At(t, m)
    BY <1>2, WholeFrom, Zenon
  <2>2. t[m] = s[j + m - 1] /\ j + m - 1 \in 1 .. Len(s) /\ j + m - 1 >= j
    BY <1>1, <1>2, <2>1
  <2>3. Ends(s, j + m - 1) /\ y = At(s, j + m - 1)
    BY <2>1, <2>2, Zenon DEF Ends, At, Place, Size
  <2> QED
    BY <2>2, <2>3, Zenon
<1>4. ASSUME NEW i \in 1 .. Len(s), i >= j, Ends(s, i) PROVE At(s, i) \in V
  <2> DEFINE m == i - j + 1
  <2>1. m \in 1 .. Len(s) - j + 1 /\ m \in 1 .. Len(t) /\ j + m - 1 = i
    BY <1>1, <1>2, <1>4
  <2>2. t[m] = s[i]
    BY <1>2, <2>1, Zenon
  <2> HIDE DEF m
  <2>3. Ends(t, m) /\ At(t, m) = At(s, i)
    BY <1>4, <2>2, Zenon DEF Ends, At, Place, Size
  <2> QED
    BY <1>2, <2>1, <2>3, WholeHas, Zenon
<1>5. ASSUME NEW x \in R PROVE \E i \in 1 .. Len(s) : i < j /\ Ends(s, i) /\ x = At(s, i)
  <2>1. PICK i \in 1 .. Len(s) : Ends(s, i) /\ x = At(s, i)
    BY WholeFrom, Zenon
  <2>2. ~(i >= j)
    BY <1>4, <2>1, Zenon
  <2>3. i < j
    BY <1>1, <2>2
  <2> QED
    BY <2>1, <2>3, Zenon
<1>6. V \subseteq Whole(s)
  BY <1>3, WholeHas, Zenon
<1>7. ASSUME NEW x \in R, NEW y \in V PROVE x < y
  <2>1. PICK i \in 1 .. Len(s) : i < j /\ x = At(s, i)
    BY <1>5, Zenon
  <2>2. PICK m \in 1 .. Len(s) : m >= j /\ y = At(s, m)
    BY <1>3, Zenon
  <2>3. i <= m /\ x # y
    BY <1>1, <2>1, <2>2
  <2>4. x <= y /\ x \in Nat /\ y \in Nat
    BY <2>1, <2>2, <2>3, Monotone, AtIs, Zenon
  <2> QED
    BY <2>3, <2>4
<1>8. CASE g = <<>>
  <2>1. j = 1
    BY <1>1, <1>8, Zenon
  <2>2. R = {}
    BY <1>1, <1>5, <2>1
  <2> QED
    BY <1>6, <1>7, <1>8, <2>2, Zenon DEF t
<1>9. CASE g # <<>>
  <2> DEFINE l == j - 1
  <2>1. l \in 1 .. Len(s) /\ Last(g) = At(s, l) /\ Ends(s, l)
    BY <1>1, <1>9, Zenon
  <2>2. At(s, l) \in Whole(s)
    BY <2>1, WholeHas, Zenon
  <2>3. At(s, l) \notin V
    <3> SUFFICES ASSUME At(s, l) \in V PROVE FALSE
      BY Zenon
    <3>1. PICK i \in 1 .. Len(s) : i >= j /\ Ends(s, i) /\ At(s, l) = At(s, i)
      BY <1>3, Zenon
    <3>2. s[l] = s[i]
      BY <2>1, <3>1, AtIs, Zenon DEF Ends
    <3>3. l = i
      BY <2>1, <3>2, Monotone, Zenon
    <3> QED
      BY <1>1, <3>1, <3>3
  <2>4. ASSUME NEW x \in R PROVE x <= At(s, l)
    <3>1. PICK i \in 1 .. Len(s) : i < j /\ x = At(s, i)
      BY <1>5, Zenon
    <3>2. i <= l
      BY <1>1, <3>1
    <3> QED
      BY <2>1, <3>1, <3>2, Monotone, Zenon
  <2> HIDE DEF l
  <2> QED
    BY <1>6, <1>7, <1>9, <2>1, <2>2, <2>3, <2>4, Zenon DEF t
<1> QED
  BY <1>8, <1>9, Zenon

\* The frames lost with the end of a stream are behind those left.
LEMMA CutSplits ==
  ASSUME NEW s \in Seq(Byte), Framed(s), NEW t \in Seq(Byte), Begins(t, s)
  PROVE  Whole(t) \subseteq Whole(s) /\ \A x \in Whole(t), y \in Whole(s) \ Whole(t) : x < y
<1>1. Len(s) \in Nat /\ Len(t) \in Nat /\ Len(t) <= Len(s) /\ \A i \in 1 .. Len(t) : t[i] = s[i]
  BY LenProperties, Zenon DEF Begins
<1>2. \A i \in 1 .. Len(t) : i \in 1 .. Len(s)
  BY <1>1
<1>3. \A i \in 1 .. Len(t) : At(t, i) = At(s, i) /\ (Ends(t, i) <=> Ends(s, i))
  BY <1>1, Zenon DEF Ends, At, Place, Size
<1>4. Whole(t) \subseteq Whole(s)
  <2> SUFFICES ASSUME NEW x \in Whole(t) PROVE x \in Whole(s)
    BY Zenon
  <2>1. PICK i \in 1 .. Len(t) : Ends(t, i) /\ x = At(t, i)
    BY WholeFrom, Zenon
  <2> QED
    BY <1>2, <1>3, <2>1, WholeHas, Zenon
<1>5. ASSUME NEW x \in Whole(t), NEW y \in Whole(s) \ Whole(t) PROVE x < y
  <2>1. PICK i \in 1 .. Len(t) : Ends(t, i) /\ x = At(t, i)
    BY WholeFrom, Zenon
  <2>2. PICK m \in 1 .. Len(s) : Ends(s, m) /\ y = At(s, m)
    BY WholeFrom, Zenon
  <2>3. m \notin 1 .. Len(t)
    BY <1>3, <2>2, WholeHas, Zenon
  <2>4. i \in 1 .. Len(s) /\ i <= m
    BY <1>1, <1>2, <2>3
  <2>5. x <= y /\ x # y /\ x \in Nat /\ y \in Nat
    BY <1>3, <2>1, <2>2, <2>4, Monotone, AtIs, Zenon
  <2> QED
    BY <2>5
<1> QED
  BY <1>4, <1>5, Zenon

LEMMA FirstN ==
  ASSUME NEW n \in Nat
  PROVE  IsFiniteSet(1 .. n) /\ Cardinality(1 .. n) = n
<1>1. IsFiniteSet(1 .. n)
  BY FS_Interval
<1>2. Cardinality(1 .. n) = IF 1 > n THEN 0 ELSE n - 1 + 1
  BY FS_Interval
<1> QED
  BY <1>1, <1>2

\* A backlog without room for another frame holds bytes of as many frames as fit it.
LEMMA FullBacklog ==
  ASSUME NEW a \in Seq(Byte), NEW b \in Seq(Byte), NEW k \in Frame,
         LET s == Cat(a, b) IN Framed(s) /\ (Len(s) # 0 => Ends(s, Len(s))),
         Len(b) + SizeOf(k) > SendBuf
  PROVE  Cardinality(Whole(Cat(a, b))) >= (SendBuf - MaxSize) \div MaxSize + 1
<1> DEFINE s == Cat(a, b)
           W == Whole(s)
           c == Cardinality(W)
           D == SendBuf - MaxSize
           f == [i \in 1 .. Len(b) |-> b[i]]
<1>1. Len(a) \in Nat /\ Len(b) \in Nat /\ SizeOf(k) \in Nat /\ SizeOf(k) <= MaxSize
  BY LenProperties, BytesIs, Zenon
<1>2. /\ s \in Seq(Byte) /\ Len(s) = Len(a) + Len(b) /\ Framed(s) /\ (Len(s) # 0 => Ends(s, Len(s)))
      /\ \A i \in 1 .. Len(a) + Len(b) : s[i] = IF i <= Len(a) THEN a[i] ELSE b[i - Len(a)]
  <2>1. /\ s \in Seq(Byte) /\ Len(s) = Len(a) + Len(b)
        /\ \A i \in 1 .. Len(a) + Len(b) : s[i] = IF i <= Len(a) THEN a[i] ELSE b[i - Len(a)]
    BY CatIs, Zenon
  <2>2. Framed(s) /\ (Len(s) # 0 => Ends(s, Len(s)))
    BY Zenon
  <2> QED
    BY <2>1, <2>2, Zenon
<1> HIDE DEF s
<1>3. ASSUME NEW i \in 1 .. Len(b) PROVE b[i] = s[Len(a) + i] /\ Len(a) + i \in 1 .. Len(s)
  <2>1. Len(a) + i \in 1 .. Len(a) + Len(b) /\ ~(Len(a) + i <= Len(a)) /\ (Len(a) + i) - Len(a) = i
    BY <1>1
  <2> QED
    BY <1>2, <2>1, Zenon
<1>4. ASSUME NEW i \in 1 .. Len(b) PROVE b[i] \in W \X (1 .. MaxSize)
  <2> DEFINE m == Len(a) + i
  <2>1. m \in 1 .. Len(s) /\ b[i] = s[m]
    BY <1>3, Zenon
  <2> HIDE DEF m
  <2>2. At(s, m) \in W
    BY <1>2, <2>1, AllAreWhole, Zenon
  <2>3. /\ Place(s, m) \in Nat /\ Size(s, m) \in Nat /\ 1 <= Place(s, m) /\ Place(s, m) <= Size(s, m)
        /\ Size(s, m) <= MaxSize /\ s[m] = <<At(s, m), Place(s, m)>>
    BY <1>2, <2>1, AtIs, Zenon
  <2>4. Place(s, m) \in 1 .. MaxSize
    BY <2>3, BufferSizes
  <2> QED
    BY <2>1, <2>2, <2>3, <2>4
<1>5. f \in Injection(1 .. Len(b), W \X (1 .. MaxSize))
  <2>1. f \in [1 .. Len(b) -> W \X (1 .. MaxSize)]
    BY <1>4, Zenon
  <2>2. ASSUME NEW i \in 1 .. Len(b), NEW j \in 1 .. Len(b), f[i] = f[j] PROVE i = j
    <3>1. s[Len(a) + i] = s[Len(a) + j]
      BY <1>3, <2>2, Zenon
    <3>2. Len(a) + i = Len(a) + j
      BY <1>2, <1>3, <3>1, Monotone, Zenon
    <3> QED
      BY <1>1, <3>2
  <2> QED
    BY <2>1, <2>2, Zenon DEF Injection, IsInjective
<1> HIDE DEF f
<1>6. IsFiniteSet(W)
  <2>1. W \subseteq Frame
    <3> SUFFICES ASSUME NEW x \in W PROVE x \in Frame
      BY Zenon
    <3>1. PICK i \in 1 .. Len(s) : x = At(s, i)
      BY <1>2, WholeFrom, Zenon
    <3> QED
      BY <1>2, <3>1, AtIs, Zenon
  <2>2. IsFiniteSet(Frame)
    BY FS_Interval, TransportAssumption DEF Frame
  <2> QED
    BY <2>1, <2>2, FS_Subset, Zenon
<1> HIDE DEF W
<1>7. IsFiniteSet(1 .. MaxSize) /\ Cardinality(1 .. MaxSize) = MaxSize /\ Cardinality(1 .. Len(b)) = Len(b)
  BY <1>1, FirstN, BufferSizes, Zenon
<1>8. c \in Nat
  BY <1>6, FS_CardinalityType, Zenon
<1>9. IsFiniteSet(W \X (1 .. MaxSize)) /\ Cardinality(W \X (1 .. MaxSize)) = c * Cardinality(1 .. MaxSize)
  BY <1>6, <1>7, FS_Product, Zenon
<1>10. Len(b) <= c * MaxSize
  <2>1. Cardinality(1 .. Len(b)) <= Cardinality(W \X (1 .. MaxSize))
    BY <1>5, <1>9, FS_Injection, Zenon
  <2> QED
    BY <1>7, <1>9, <2>1, Zenon
<1> HIDE DEF c
<1>11. PICK e \in Int, p \in Int, r \in Int : e = D \div MaxSize /\ p = MaxSize * e /\ r = c * MaxSize /\ p <= D
  BY <1>8, BufferSizes
<1>12. r > D
  BY <1>1, <1>10, <1>11, BufferSizes
<1>13. ~(e >= c)
  <2> SUFFICES ASSUME e - c >= 0 PROVE FALSE
    BY <1>8
  <2>1. MaxSize * (e - c) = p - MaxSize * c /\ MaxSize * c = r
    BY <1>8, <1>11, Distribute, BufferSizes
  <2>2. MaxSize * (e - c) >= 0
    BY <1>8, <1>11, BufferSizes
  <2> QED
    BY <1>11, <1>12, <2>1, <2>2, BufferSizes
<1>14. c >= e + 1
  BY <1>8, <1>13
<1> QED
  BY <1>11, <1>14, Zenon DEF c, W, s
=============================================================================
