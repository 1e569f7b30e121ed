------------------------- MODULE VbtPollLoop_proofs --------------------------
(***************************************************************************)
(* Proofs about the hub's main loop, for any number of connections and     *)
(* slots: the tables agree with the descriptors, and a stale row never     *)
(* costs a healthy connection anything.                                    *)
(***************************************************************************)
EXTENDS VbtPollLoop, FiniteSetTheorems, WellFoundedInduction, TLAPS

-----------------------------------------------------------------------------
(* Least elements, induction and recursion over the naturals *)

\* A non-empty set of naturals has a least element.
LEMMA LeastElement ==
  ASSUME NEW S \in SUBSET Nat, S # {}
  PROVE  \E m \in S : \A n \in S : m <= n
<1>1. IsWellFoundedOn(OpToRel(<, Nat), Nat)
  BY NatLessThanWellFounded, Zenon
<1>2. PICK m \in S : \A n \in S : <<n, m>> \notin OpToRel(<, Nat)
  BY <1>1, WFMin, Zenon
<1>3. \A n \in S : ~(n < m)
  BY <1>2, Zenon DEF OpToRel
<1>4. QED
  BY <1>3

\* Induction: a set with 0 that is closed under the steps up to N has all of 0 .. N.
LEMMA SetInduction ==
  ASSUME NEW N \in Nat, NEW S, 0 \in S,
         \A k \in 1 .. N : k - 1 \in S => k \in S
  PROVE  \A k \in 0 .. N : k \in S
<1> DEFINE Bad == {k \in 0 .. N : k \notin S}
<1>1. SUFFICES ASSUME Bad # {} PROVE FALSE
  BY Zenon
<1>2. Bad \in SUBSET Nat
  OBVIOUS
<1>3. PICK m \in Bad : \A n \in Bad : m <= n
  BY <1>1, <1>2, LeastElement, Zenon
<1>4. m \in 1 .. N /\ m - 1 \in 0 .. N /\ m - 1 \notin Bad
  BY <1>3
<1>5. m - 1 \in S
  BY <1>4, Zenon
<1>6. QED
  BY <1>3, <1>4, <1>5, Zenon

\* f is what a loop over 1 .. N computes: it starts with a, and round k takes step[k].
IsRecursion(f, N, A, a, step) ==
  f \in [0 .. N -> A] /\ f[0] = a /\ \A k \in 1 .. N : f[k] = step[k][f[k - 1]]

\* Recursion: a start and a step for every k determine a function on 0 .. N.
LEMMA RecursionExists ==
  ASSUME NEW N \in Nat, NEW A, NEW a \in A, NEW step \in [1 .. N -> [A -> A]]
  PROVE  \E f : IsRecursion(f, N, A, a, step)
<1> DEFINE Is(f, n) == f[0] = a /\ \A k \in 1 .. n : f[k] = step[k][f[k - 1]]
           S == {n \in 0 .. N : \E f \in [0 .. n -> A] : Is(f, n)}
<1>1. 0 \in S
  <2> DEFINE f == [k \in 0 .. 0 |-> a]
  <2>1. f \in [0 .. 0 -> A] /\ Is(f, 0)
    OBVIOUS
  <2> HIDE DEF f
  <2>2. QED
    BY <2>1
<1>2. ASSUME NEW k \in 1 .. N, k - 1 \in S PROVE k \in S
  <2>1. PICK f \in [0 .. (k - 1) -> A] : Is(f, k - 1)
    BY <1>2, Zenon
  <2> DEFINE g == [j \in 0 .. k |-> IF j < k THEN f[j] ELSE step[k][f[k - 1]]]
  <2>2. step[k][f[k - 1]] \in A
    OBVIOUS
  <2>3. g \in [0 .. k -> A]
    BY <2>2
  <2>4. g[0] = a
    BY <2>1
  <2>5. ASSUME NEW j \in 1 .. k PROVE g[j] = step[j][g[j - 1]]
    <3>1. CASE j = k
      BY <3>1
    <3>2. CASE j # k
      BY <3>2, <2>1
    <3>3. QED
      BY <3>1, <3>2, Zenon
  <2> HIDE DEF g
  <2>6. Is(g, k)
    BY <2>4, <2>5, Zenon
  <2>7. QED
    BY <2>3, <2>6
<1> HIDE DEF S
<1>3. \A k \in 0 .. N : k \in S
  <2>1. \A k \in 1 .. N : k - 1 \in S => k \in S
    BY <1>2, Zenon
  <2>2. QED
    BY <1>1, <2>1, SetInduction, Zenon
<1>4. QED
  BY <1>3 DEF S, IsRecursion

-----------------------------------------------------------------------------
(* The invariant *)

HubState ==
  [fd : [Conns -> Nat \cup {None}], want : [Conns -> BOOLEAN],
   peers : Seq(Conns \cup {None}), ctl : [1 .. MaxCtl -> Conns \cup {None}],
   quit : SUBSET Conns, up : Conns \cup {None}, ended : SUBSET Conns,
   msgs : [Conns -> Nat]]

\* Every open slot of a table is of another connection.
Distinct(table) ==
  \A j, k \in DOMAIN table : table[j] = table[k] /\ table[j] # None => j = k

\* The tables of h and its descriptors tell the same story.
Agrees(h) ==
  /\ \A c \in Conns : h.fd[c] # None <=> c \in Range(h.peers) \cup Range(h.ctl)
  /\ \A c, d \in Conns : c # d /\ h.fd[c] # None => h.fd[d] # h.fd[c]
  /\ Distinct(h.peers) /\ Distinct(h.ctl)
  /\ \A j \in DOMAIN h.peers, k \in DOMAIN h.ctl : h.peers[j] = h.ctl[k] => h.ctl[k] = None
  /\ h.quit \subseteq Range(h.ctl) /\ h.up \in Range(h.peers) \cup {None}

Row == [fd : Nat, in : BOOLEAN, out : BOOLEAN, hup : BOOLEAN]

\* A row with a hang-up is of a connection whose other end is closed, or of nobody.
RowsAreSound ==
  \A k \in DOMAIN rows :
    rows[k].hup => \A c \in Conns : fd[c] = rows[k].fd => client[c] = "gone"

\* The walks stay inside the tables.
WalkInBounds ==
  /\ rows # <<>> => i \in 1 .. Len(peers)
  /\ rows = <<>> /\ ctl_rows # <<>> => i \in 1 .. MaxCtl
  /\ rows = <<>> /\ ctl_rows = <<>> => i = 1

PollInv ==
  /\ kind \in [Conns -> {"unix", "tcp", "trunk", "ctl"}]
  /\ client \in [Conns -> {"idle", "open", "gone"}]
  /\ left \in [Conns -> Nat] /\ room \in [Conns -> BOOLEAN]
  /\ queue \in SUBSET Conns /\ rows \in Seq(Row) /\ ctl_rows \in Seq(Row)
  /\ Hub \in HubState /\ Agrees(Hub)
  /\ \A c \in queue : fd[c] = None
  /\ \A c \in Conns : client[c] = "idle" => fd[c] = None /\ c \notin queue
  /\ HealthyAreKept /\ RowsAreSound /\ WalkInBounds

-----------------------------------------------------------------------------
(* The tables *)

\* poll's table has one row per open slot, in order and without repetition.
LEMMA OpenSlots ==
  ASSUME NEW table \in Seq(Conns \cup {None})
  PROVE  /\ Open(table) \in Seq(Conns)
         /\ Range(Open(table)) = Range(table) \ {None}
         /\ Distinct(table) => IsInjective(Open(table))
<1> DEFINE N == Len(table)
           Def(f) == [k \in 0 .. N |-> IF k = 0 THEN <<>>
                        ELSE IF table[k] = None THEN f[k - 1] ELSE Append(f[k - 1], table[k])]
           open == CHOOSE f : f = Def(f)
           step == [k \in 1 .. N |-> [q \in Seq(Conns) |->
                        IF table[k] = None THEN q ELSE Append(q, table[k])]]
<1>1. N \in Nat /\ \A k \in 1 .. N : table[k] \in Conns \cup {None}
  OBVIOUS
<1>2. step \in [1 .. N -> [Seq(Conns) -> Seq(Conns)]]
  <2>1. ASSUME NEW k \in 1 .. N, NEW q \in Seq(Conns)
        PROVE  (IF table[k] = None THEN q ELSE Append(q, table[k])) \in Seq(Conns)
    BY <1>1, ConnsAssumption
  <2>2. QED
    BY <2>1, Zenon
<1>3. \E f : IsRecursion(f, N, Seq(Conns), <<>>, step)
  <2>1. <<>> \in Seq(Conns)
    OBVIOUS
  <2> HIDE DEF step, N
  <2>2. QED
    BY <1>1, <1>2, <2>1, RecursionExists, Zenon
<1>4. \E f : f = Def(f)
  <2>1. PICK f : IsRecursion(f, N, Seq(Conns), <<>>, step)
    BY <1>3, Zenon
  <2>2. /\ f \in [0 .. N -> Seq(Conns)] /\ f[0] = <<>>
        /\ \A k \in 1 .. N : f[k] = step[k][f[k - 1]]
    BY <2>1, Zenon DEF IsRecursion
  <2>3. ASSUME NEW k \in 1 .. N
        PROVE  f[k] = IF table[k] = None THEN f[k - 1] ELSE Append(f[k - 1], table[k])
    <3>1. f[k - 1] \in Seq(Conns)
      BY <1>1, <2>2
    <3>2. f[k] = step[k][f[k - 1]]
      BY <2>2, Zenon
    <3>3. QED
      BY <3>1, <3>2, Zenon
  <2> HIDE DEF step
  <2>4. ASSUME NEW k \in 0 .. N
        PROVE  f[k] = IF k = 0 THEN <<>>
                      ELSE IF table[k] = None THEN f[k - 1] ELSE Append(f[k - 1], table[k])
    <3>1. CASE k = 0
      BY <2>2, <3>1, Zenon
    <3>2. CASE k # 0
      BY <1>1, <2>3, <3>2
    <3>3. QED
      BY <3>1, <3>2, Zenon
  <2>5. f = Def(f)
    BY <2>2, <2>4, Zenon
  <2>6. QED
    BY <2>5, Zenon
<1>5. open = Def(open)
  BY <1>4, Zenon
<1>6. Open(table) = open[N]
  BY DEF Open
<1> HIDE DEF open, step
<1>7. open[0] = <<>>
  BY <1>1, <1>5
<1>8. ASSUME NEW k \in 1 .. N
      PROVE  open[k] = IF table[k] = None THEN open[k - 1] ELSE Append(open[k - 1], table[k])
  <2>1. k \in 0 .. N /\ k # 0
    BY <1>1
  <2>2. open[k] = Def(open)[k]
    BY <1>5, Zenon
  <2>3. QED
    BY <2>1, <2>2, Zenon
<1> DEFINE Good(k) == /\ open[k] \in Seq(Conns)
                      /\ \A c : c \in Range(open[k]) <=> c # None /\ \E j \in 1 .. k : table[j] = c
                      /\ Distinct(table) => IsInjective(open[k])
           S == {k \in 0 .. N : Good(k)}
<1>9. 0 \in S
  <2>1. 0 \in 0 .. N /\ 1 .. 0 = {} /\ DOMAIN <<>> = {}
    BY <1>1
  <2>2. <<>> \in Seq(Conns) /\ Range(<<>>) = {} /\ IsInjective(<<>>)
    BY <2>1 DEF IsInjective, Range
  <2>3. QED
    BY <2>1, <2>2, <1>7, Zenon
<1>10. ASSUME NEW k \in 1 .. N, k - 1 \in S PROVE k \in S
  <2>1. CASE table[k] = None
    BY <2>1, <1>8, <1>10
  <2>2. CASE table[k] # None
    <3>1. open[k] = Append(open[k - 1], table[k]) /\ open[k - 1] \in Seq(Conns) /\ table[k] \in Conns
      BY <2>2, <1>1, <1>8, <1>10, Zenon
    <3>2. open[k] \in Seq(Conns)
      BY <3>1
    <3>3. \A c : c \in Range(open[k]) <=> c \in Range(open[k - 1]) \/ c = table[k]
      <4> DEFINE q == open[k - 1]
                 t == table[k]
      <4>1. /\ q \in Seq(Conns) /\ t \in Conns /\ open[k] = Append(q, t)
            /\ DOMAIN q = 1 .. Len(q) /\ DOMAIN Append(q, t) = 1 .. Len(q) + 1 /\ Len(q) \in Nat
            /\ \A j \in 1 .. Len(q) : Append(q, t)[j] = q[j]
            /\ Append(q, t)[Len(q) + 1] = t
        BY <3>1
      <4> HIDE DEF q, t
      <4>2. \A c : c \in Range(Append(q, t)) <=> c \in Range(q) \/ c = t
        BY <4>1, SMTT(30) DEF Range
      <4>3. QED
        BY <4>1, <4>2, Zenon DEF q, t
    <3>4. \A c : c \in Range(open[k]) <=> c # None /\ \E j \in 1 .. k : table[j] = c
      BY <3>3, <2>2, <1>1, <1>10
    <3>5. ASSUME Distinct(table) PROVE IsInjective(open[k])
      <4>1. table[k] \notin Range(open[k - 1])
        BY <3>5, <2>2, <1>1, <1>10 DEF Distinct
      <4>2. IsInjective(open[k - 1])
        BY <3>5, <1>10, Zenon
      <4>3. QED
        BY <3>1, <4>1, <4>2 DEF IsInjective, Range
    <3>6. QED
      BY <3>2, <3>4, <3>5
  <2>3. QED
    BY <2>1, <2>2, Zenon
<1>11. \A k \in 0 .. N : k \in S
  <2>1. \A k \in 1 .. N : k - 1 \in S => k \in S
    BY <1>10, Zenon
  <2> HIDE DEF S
  <2>2. QED
    BY <1>1, <1>9, <2>1, SetInduction, Zenon
<1>12. QED
  <2>1. Good(N)
    <3>1. N \in 0 .. N
      BY <1>1
    <3>2. N \in S
      BY <1>11, <3>1, Zenon
    <3> HIDE DEF Good, N
    <3>3. QED
      BY <3>2, Zenon
  <2> DEFINE o == open[N]
  <2>2. Open(table) = o
    BY <1>6, Zenon
  <2>3. \A c : c \in Range(table) <=> \E j \in 1 .. N : table[j] = c
    BY DEF Range
  <2>4. o \in Seq(Conns) /\ (Distinct(table) => IsInjective(o))
        /\ \A c : c \in Range(o) <=> c # None /\ \E j \in 1 .. N : table[j] = c
    BY <2>1, Zenon
  <2> HIDE DEF o, Good, N
  <2>5. Range(o) = Range(table) \ {None}
    BY <2>3, <2>4, Zenon
  <2>6. QED
    BY <2>2, <2>4, <2>5, Zenon

\* There is a descriptor left for a connection that has none.
LEMMA FreshFd ==
  ASSUME NEW h \in HubState, NEW c \in Conns, h.fd[c] = None
  PROVE  LowestFd(h) \in Nat /\ \A d \in Conns : h.fd[d] # LowestFd(h)
<1> DEFINE N == Cardinality(Conns)
           S == {n \in 1 .. N : \A d \in Conns : h.fd[d] # n}
<1>1. N \in Nat
  BY ConnsAssumption, FS_CardinalityType, Zenon
<1>2. S # {}
  <2>1. SUFFICES ASSUME \A n \in 1 .. N : \E d \in Conns : h.fd[d] = n PROVE FALSE
    BY Zenon
  <2> DEFINE g == [n \in 1 .. N |-> CHOOSE d \in Conns : h.fd[d] = n]
  <2>2. \A n \in 1 .. N : g[n] \in Conns /\ h.fd[g[n]] = n
    BY <2>1, Zenon
  <2>3. \A n \in 1 .. N : g[n] \in Conns \ {c}
    BY <2>2, <1>1, ConnsAssumption
  <2>4. g \in Injection(1 .. N, Conns \ {c})
    <3>1. g \in [1 .. N -> Conns \ {c}]
      BY <2>3, Zenon
    <3> HIDE DEF g
    <3>2. QED
      BY <2>2, <3>1, Zenon DEF Injection, IsInjective
  <2> HIDE DEF g
  <2>5. IsFiniteSet(Conns \ {c}) /\ Cardinality(Conns \ {c}) = N - 1
    BY ConnsAssumption, FS_RemoveElement, Zenon
  <2>6. Cardinality(1 .. N) <= Cardinality(Conns \ {c})
    BY <2>4, <2>5, FS_Injection, Zenon
  <2>7. Cardinality(1 .. N) = N
    BY <1>1, FS_Interval
  <2>8. QED
    BY <1>1, <2>5, <2>6, <2>7
<1>3. S \in SUBSET Nat
  BY <1>1
<1>4. \E m \in S : \A n \in S : m <= n
  BY <1>2, <1>3, LeastElement, Zenon
<1>5. Min(S) \in S
  BY <1>4, Zenon DEF Min
<1>6. LowestFd(h) = Min(S)
  BY Zenon DEF LowestFd
<1>7. QED
  BY <1>3, <1>5, <1>6, Zenon

-----------------------------------------------------------------------------
(* A connection takes a slot *)

\* g is h with slots taken by connections of C, or h without a change.
Took(h, g, C) ==
  /\ g \in HubState /\ Agrees(g) /\ g.ended = h.ended
  /\ \A d \in Conns \ C : g.fd[d] = h.fd[d]
  /\ Len(h.peers) <= Len(g.peers)

LEMMA TookNothing ==
  ASSUME NEW h \in HubState, Agrees(h), NEW C
  PROVE  Took(h, h, C)
BY DEF Took, HubState

\* The lowest free slot of a table is free.
LEMMA FreeSlot ==
  ASSUME NEW table \in Seq(Conns \cup {None}), Free(table) # {}
  PROVE  Min(Free(table)) \in DOMAIN table /\ table[Min(Free(table))] = None
<1>1. Free(table) \in SUBSET Nat
  BY DEF Free
<1>2. \E m \in Free(table) : \A n \in Free(table) : m <= n
  BY <1>1, LeastElement, Zenon
<1>3. Min(Free(table)) \in Free(table)
  BY <1>2, Zenon DEF Min
<1>4. QED
  BY <1>3, Zenon DEF Free

\* A table in which a connection was written to a free slot.
LEMMA SlotTaken ==
  ASSUME NEW table \in Seq(Conns \cup {None}), Distinct(table),
         NEW c \in Conns, c \notin Range(table),
         NEW k \in DOMAIN table, table[k] = None
  PROVE  LET t == [table EXCEPT ![k] = c]
         IN  /\ t \in Seq(Conns \cup {None}) /\ Len(t) = Len(table)
             /\ DOMAIN t = DOMAIN table
             /\ Distinct(t)
             /\ \A d \in Conns : d \in Range(t) <=> d \in Range(table) \/ d = c
<1> DEFINE t == [table EXCEPT ![k] = c]
<1>1. /\ t \in Seq(Conns \cup {None}) /\ Len(t) = Len(table) /\ DOMAIN t = DOMAIN table
      /\ \A j \in DOMAIN table : t[j] = IF j = k THEN c ELSE table[j]
  OBVIOUS
<1> HIDE DEF t
<1>2. Distinct(t)
  BY <1>1, Zenon DEF Distinct, Range
<1>3. \A d \in Conns : d \in Range(t) <=> d \in Range(table) \/ d = c
  BY <1>1, ConnsAssumption, Zenon DEF Range
<1>4. QED
  BY <1>1, <1>2, <1>3, Zenon DEF t

\* A table in which a connection got a new last slot.
LEMMA SlotAdded ==
  ASSUME NEW table \in Seq(Conns \cup {None}), Distinct(table),
         NEW c \in Conns, c \notin Range(table)
  PROVE  LET t == Append(table, c)
         IN  /\ t \in Seq(Conns \cup {None}) /\ Len(t) = Len(table) + 1
             /\ Distinct(t)
             /\ \A d \in Conns : d \in Range(t) <=> d \in Range(table) \/ d = c
<1> DEFINE t == Append(table, c)
<1>1. /\ t \in Seq(Conns \cup {None}) /\ Len(t) = Len(table) + 1 /\ Len(table) \in Nat
      /\ DOMAIN t = 1 .. Len(table) + 1 /\ DOMAIN table = 1 .. Len(table)
      /\ \A j \in DOMAIN table : t[j] = table[j]
      /\ t[Len(table) + 1] = c
  OBVIOUS
<1> HIDE DEF t
<1>2. Distinct(t)
  BY <1>1 DEF Distinct, Range
<1>3. \A d \in Conns : d \in Range(t) <=> d \in Range(table) \/ d = c
  BY <1>1 DEF Range
<1>4. QED
  BY <1>1, <1>2, <1>3, Zenon DEF t

\* peer_alloc: a connection without a descriptor gets one, and a slot, or neither.
LEMMA PeerAllocTakes ==
  ASSUME NEW h \in HubState, Agrees(h), NEW c \in Conns, h.fd[c] = None
  PROVE  Took(h, peer_alloc(h, c), {c}) /\ peer_alloc(h, c).up = h.up
<1> DEFINE n == LowestFd(h)
           t == IF Free(h.peers) = {} THEN Append(h.peers, c)
                ELSE [h.peers EXCEPT ![Min(Free(h.peers))] = c]
           g == [h EXCEPT !.fd[c] = n, !.peers = t]
<1>1. CASE Free(h.peers) = {} /\ Len(h.peers) >= MaxPeers
  BY <1>1, TookNothing, Zenon DEF peer_alloc
<1>2. CASE ~(Free(h.peers) = {} /\ Len(h.peers) >= MaxPeers)
  <2>1. peer_alloc(h, c) = g
    BY <1>2, Zenon DEF peer_alloc
  <2>2. n \in Nat /\ \A d \in Conns : h.fd[d] # n
    BY FreshFd, Zenon
  <2>3. c \notin Range(h.peers) /\ c \notin Range(h.ctl)
    BY Zenon DEF Agrees
  <2>4. h.peers \in Seq(Conns \cup {None}) /\ Distinct(h.peers)
    BY Zenon DEF Agrees, HubState
  <2>5. /\ t \in Seq(Conns \cup {None}) /\ Len(h.peers) <= Len(t) /\ Distinct(t)
        /\ \A d \in Conns : d \in Range(t) <=> d \in Range(h.peers) \/ d = c
    <3>1. CASE Free(h.peers) = {}
      BY <2>3, <2>4, <3>1, SlotAdded
    <3>2. CASE Free(h.peers) # {}
      BY <2>3, <2>4, <3>2, SlotTaken, FreeSlot
    <3>3. QED
      BY <3>1, <3>2, Zenon
  <2> HIDE DEF t, n
  <2>6. /\ g.peers = t /\ g.ctl = h.ctl /\ g.quit = h.quit /\ g.up = h.up /\ g.ended = h.ended
        /\ g.fd = [h.fd EXCEPT ![c] = n] /\ g \in HubState
    BY <2>2, <2>5, Zenon DEF HubState
  <2> HIDE DEF g
  <2>7. \A d \in Conns : g.fd[d] = IF d = c THEN n ELSE h.fd[d]
    BY <2>6, Zenon DEF HubState
  <2>8. n # None
    BY <2>2, ConnsAssumption, Zenon
  <2>9. \A d \in Conns : g.fd[d] # None <=> d \in Range(g.peers) \cup Range(g.ctl)
    BY <2>5, <2>6, <2>7, <2>8, Zenon DEF Agrees
  <2>10. \A d, e \in Conns : d # e /\ g.fd[d] # None => g.fd[e] # g.fd[d]
    BY <2>2, <2>7 DEF Agrees
  <2>11. \A j \in DOMAIN t, k \in DOMAIN h.ctl : t[j] = h.ctl[k] => h.ctl[k] = None
    <3>1. SUFFICES ASSUME NEW j \in DOMAIN t, NEW k \in DOMAIN h.ctl, t[j] = h.ctl[k], h.ctl[k] # None
                   PROVE  FALSE
      OBVIOUS
    <3>2. h.ctl[k] \in Conns /\ h.ctl[k] \in Range(h.ctl)
      BY <3>1, Zenon DEF HubState, Range
    <3>3. t[j] \in Range(t) /\ t[j] # c
      BY <3>1, <3>2, <2>3, Zenon DEF Range
    <3>4. t[j] \in Range(h.peers)
      BY <3>1, <3>2, <3>3, <2>5, Zenon
    <3>5. QED
      BY <3>1, <3>4, Zenon DEF Agrees, Range
  <2>12. g.up \in Range(t) \cup {None}
    BY <2>5, <2>6, Zenon DEF Agrees, HubState
  <2>13. Agrees(g)
    BY <2>5, <2>6, <2>9, <2>10, <2>11, <2>12, SMTT(30) DEF Agrees
  <2>14. QED
    BY <2>1, <2>5, <2>6, <2>7, <2>13, Zenon DEF Took
<1>3. QED
  BY <1>1, <1>2, Zenon

\* The table of control clients is a sequence of fixed length.
LEMMA CtlIsSeq ==
  ASSUME NEW h \in HubState
  PROVE  /\ h.ctl \in Seq(Conns \cup {None}) /\ DOMAIN h.ctl = 1 .. MaxCtl
         /\ h.ctl \in [1 .. MaxCtl -> Conns \cup {None}]
<1>1. h.ctl \in [1 .. MaxCtl -> Conns \cup {None}] /\ MaxCtl \in Nat
  BY ConnsAssumption, Zenon DEF HubState
<1>2. QED
  BY <1>1

\* The control listener's handler takes a slot of its own table.
LEMMA AcceptCtlTakes ==
  ASSUME NEW h \in HubState, Agrees(h), NEW c \in Conns, h.fd[c] = None
  PROVE  Took(h, accept_ctl(h, c), {c})
<1> DEFINE n == LowestFd(h)
           k == Min(Free(h.ctl))
           t == [h.ctl EXCEPT ![k] = c]
           g == [h EXCEPT !.fd[c] = n, !.ctl[k] = c]
<1>1. CASE Free(h.ctl) = {}
  BY <1>1, TookNothing, Zenon DEF accept_ctl
<1>2. CASE Free(h.ctl) # {}
  <2>1. accept_ctl(h, c) = g
    BY <1>2, Zenon DEF accept_ctl
  <2>2. n \in Nat /\ \A d \in Conns : h.fd[d] # n
    BY FreshFd, Zenon
  <2>3. c \notin Range(h.peers) /\ c \notin Range(h.ctl)
    BY Zenon DEF Agrees
  <2>4. h.ctl \in Seq(Conns \cup {None}) /\ Distinct(h.ctl)
    BY CtlIsSeq, Zenon DEF Agrees
  <2>5. k \in DOMAIN h.ctl /\ h.ctl[k] = None
    BY <1>2, <2>4, FreeSlot, Zenon
  <2>6. /\ Distinct(t) /\ DOMAIN t = DOMAIN h.ctl
        /\ \A d \in Conns : d \in Range(t) <=> d \in Range(h.ctl) \/ d = c
    BY <2>3, <2>4, <2>5, SlotTaken
  <2>7. t \in [1 .. MaxCtl -> Conns \cup {None}] /\ \A j \in DOMAIN t : t[j] = IF j = k THEN c ELSE h.ctl[j]
    BY <2>5, CtlIsSeq, Zenon
  <2> HIDE DEF n, k
  <2>8. /\ g.peers = h.peers /\ g.ctl = t /\ g.quit = h.quit /\ g.up = h.up /\ g.ended = h.ended
        /\ g.fd = [h.fd EXCEPT ![c] = n] /\ g \in HubState
    BY <2>2, <2>7, Zenon DEF HubState
  <2> HIDE DEF g, t
  <2>9. \A d \in Conns : g.fd[d] = IF d = c THEN n ELSE h.fd[d]
    BY <2>8, Zenon DEF HubState
  <2>10. n # None
    BY <2>2, ConnsAssumption, Zenon
  <2>11. \A d \in Conns : g.fd[d] # None <=> d \in Range(g.peers) \cup Range(g.ctl)
    BY <2>6, <2>8, <2>9, <2>10, Zenon DEF Agrees
  <2>12. \A d, e \in Conns : d # e /\ g.fd[d] # None => g.fd[e] # g.fd[d]
    BY <2>2, <2>9 DEF Agrees
  <2>13. \A j \in DOMAIN h.peers, l \in DOMAIN t : h.peers[j] = t[l] => t[l] = None
    BY <2>3, <2>6, <2>7 DEF Agrees, Range
  <2>14. h.quit \subseteq Range(t)
    BY <2>6, Zenon DEF Agrees, HubState
  <2>15. Agrees(g)
    BY <2>6, <2>8, <2>11, <2>12, <2>13, <2>14 DEF Agrees
  <2>16. Len(h.peers) <= Len(g.peers)
    BY <2>8 DEF HubState
  <2>17. QED
    BY <2>1, <2>8, <2>9, <2>15, <2>16, Zenon DEF Took
<1>3. QED
  BY <1>1, <1>2, Zenon

\* One listener's step of the loop.
LEMMA AcceptTakes ==
  ASSUME NEW h \in HubState, Agrees(h), NEW c, c = None \/ (c \in Conns /\ h.fd[c] = None)
  PROVE  Took(h, accept(h, c), {c})
<1>1. CASE c = None
  BY <1>1, TookNothing, Zenon DEF accept
<1>2. CASE c # None
  BY <1>2, AcceptCtlTakes, PeerAllocTakes, Zenon DEF accept
<1>3. QED
  BY <1>1, <1>2

\* Dialling the trunk: upstream_state names the slot the trunk got.
LEMMA ConnectTakes ==
  ASSUME NEW h \in HubState, Agrees(h), NEW c, c = None \/ (c \in Conns /\ h.fd[c] = None)
  PROVE  Took(h, upstream_connect(h, c), {c})
<1> DEFINE p == peer_alloc(h, c)
           g == [p EXCEPT !.up = c]
<1>1. CASE c = None \/ p = h
  BY <1>1, TookNothing, Zenon DEF upstream_connect
<1>2. CASE c # None /\ p # h
  <2>1. upstream_connect(h, c) = g
    BY <1>2, Zenon DEF upstream_connect
  <2>2. Took(h, p, {c})
    BY <1>2, PeerAllocTakes, Zenon
  <2>3. c \in Range(p.peers)
    <3>1. ~(Free(h.peers) = {} /\ Len(h.peers) >= MaxPeers)
      BY <1>2, Zenon DEF peer_alloc
    <3>2. p.peers = IF Free(h.peers) = {} THEN Append(h.peers, c)
                    ELSE [h.peers EXCEPT ![Min(Free(h.peers))] = c]
      BY <3>1, Zenon DEF peer_alloc, HubState
    <3>3. h.peers \in Seq(Conns \cup {None}) /\ Distinct(h.peers) /\ c \notin Range(h.peers)
      BY <1>2, Zenon DEF Agrees, HubState
    <3>4. CASE Free(h.peers) = {}
      BY <1>2, <3>2, <3>3, <3>4, SlotAdded, Zenon
    <3>5. CASE Free(h.peers) # {}
      BY <1>2, <3>2, <3>3, <3>5, SlotTaken, FreeSlot, Zenon
    <3>6. QED
      BY <3>4, <3>5, Zenon
  <2> HIDE DEF p
  <2>4. p \in HubState /\ Agrees(p)
    BY <2>2, Zenon DEF Took
  <2>5. /\ g.peers = p.peers /\ g.ctl = p.ctl /\ g.quit = p.quit /\ g.up = c
        /\ g.ended = p.ended /\ g.fd = p.fd /\ g \in HubState
    BY <1>2, <2>4, Zenon DEF HubState
  <2> HIDE DEF g
  <2>6. Agrees(g)
    BY <2>3, <2>4, <2>5 DEF Agrees
  <2>7. QED
    BY <2>1, <2>2, <2>5, <2>6, Zenon DEF Took
<1>3. QED
  BY <1>1, <1>2, Zenon

-----------------------------------------------------------------------------
(* A connection is served or closed *)

\* g is h with connections closed; those the hub gave up had a closed other end.
Lost(h, g) ==
  /\ g \in HubState /\ Agrees(g)
  /\ Len(g.peers) = Len(h.peers)
  /\ \A d \in Conns : g.fd[d] \in {h.fd[d], None}
  /\ \A d \in g.ended : d \in h.ended \/ client[d] = "gone"

LEMMA LostNothing ==
  ASSUME NEW h \in HubState, Agrees(h)
  PROVE  Lost(h, h)
BY Zenon DEF Lost, HubState

LEMMA LostTransitive ==
  ASSUME NEW h, NEW f, NEW g, Lost(h, f), Lost(f, g)
  PROVE  Lost(h, g)
BY Zenon DEF Lost

\* A step that closes nothing keeps the tables in agreement.
LEMMA SameTables ==
  ASSUME NEW h \in HubState, Agrees(h), NEW g \in HubState,
         g.fd = h.fd, g.peers = h.peers, g.ctl = h.ctl, g.up = h.up, g.ended = h.ended,
         g.quit \subseteq Range(g.ctl)
  PROVE  Lost(h, g)
<1>1. Agrees(g)
  BY DEF Agrees
<1>2. QED
  BY <1>1, Zenon DEF Lost, HubState

\* peer_close of any set of peers.
LEMMA PeersCloseLoses ==
  ASSUME NEW h \in HubState, Agrees(h), NEW C \in SUBSET Conns, C \cap Range(h.ctl) = {},
         \A c \in C : client[c] = "gone"
  PROVE  Lost(h, peers_close(h, C)) /\ peers_close(h, C).ctl = h.ctl
<1> DEFINE t == [k \in DOMAIN h.peers |-> IF h.peers[k] \in C THEN None ELSE h.peers[k]]
           e == [c \in Conns |-> IF c \in C THEN None ELSE h.fd[c]]
           w == [c \in Conns |-> c \notin C /\ h.want[c]]
           u == IF h.up \in C THEN None ELSE h.up
           g == [h EXCEPT !.fd = e, !.want = w, !.peers = t, !.up = u, !.ended = @ \cup C]
<1>1. peers_close(h, C) = g
  BY DEF peers_close
<1>2. /\ t \in Seq(Conns \cup {None}) /\ Len(t) = Len(h.peers) /\ DOMAIN t = DOMAIN h.peers
      /\ \A k \in DOMAIN t : t[k] = IF h.peers[k] \in C THEN None ELSE h.peers[k]
  <2> DEFINE n == Len(h.peers)
  <2>1. n \in Nat /\ DOMAIN h.peers = 1 .. n /\ \A k \in 1 .. n : h.peers[k] \in Conns \cup {None}
    BY DEF HubState
  <2> HIDE DEF n
  <2>2. t \in [1 .. n -> Conns \cup {None}]
    BY <2>1, Zenon
  <2>3. t \in Seq(Conns \cup {None}) /\ Len(t) = n
    BY <2>1, <2>2
  <2>4. QED
    BY <2>1, <2>3, Zenon DEF n
<1>3. e \in [Conns -> Nat \cup {None}] /\ w \in [Conns -> BOOLEAN] /\ u \in Conns \cup {None}
  BY Zenon DEF HubState
<1>4. \A c \in Conns : e[c] = IF c \in C THEN None ELSE h.fd[c]
  BY Zenon
<1> HIDE DEF t, e, w
<1>5. /\ g.fd = e /\ g.peers = t /\ g.ctl = h.ctl /\ g.quit = h.quit /\ g.up = u
      /\ g.ended = h.ended \cup C /\ g \in HubState
  BY <1>2, <1>3, Zenon DEF HubState
<1> HIDE DEF g
<1>6. \A c \in Conns : c \in Range(t) <=> c \in Range(h.peers) /\ c \notin C
  BY <1>2, ConnsAssumption DEF Range
<1>7. \A c \in Conns : g.fd[c] # None <=> c \in Range(t) \cup Range(h.ctl)
  BY <1>4, <1>5, <1>6 DEF Agrees
<1>8. \A c, d \in Conns : c # d /\ g.fd[c] # None => g.fd[d] # g.fd[c]
  BY <1>4, <1>5 DEF Agrees
<1>9. Distinct(t)
  BY <1>2 DEF Agrees, Distinct
<1>10. \A j \in DOMAIN t, k \in DOMAIN h.ctl : t[j] = h.ctl[k] => h.ctl[k] = None
  BY <1>2, Zenon DEF Agrees
<1>11. u \in Range(t) \cup {None}
  BY <1>6, Zenon DEF Agrees, HubState
<1>12. Agrees(g)
  BY <1>5, <1>7, <1>8, <1>9, <1>10, <1>11 DEF Agrees
<1>13. QED
  BY <1>1, <1>2, <1>4, <1>5, <1>12, Zenon DEF Lost

\* peer_flush closes only a peer whose other end is closed.
LEMMA FlushLoses ==
  ASSUME PollInv, NEW h \in HubState, Agrees(h), NEW c \in Conns, c \notin Range(h.ctl)
  PROVE  Lost(h, peer_flush(h, c)) /\ peer_flush(h, c).ctl = h.ctl
<1>1. CASE ~h.want[c]
  BY <1>1, LostNothing, Zenon DEF peer_flush
<1>2. CASE h.want[c] /\ client[c] = "gone"
  <2>1. peer_flush(h, c) = peers_close(h, {c})
    BY <1>2, Zenon DEF peer_flush, peer_close
  <2>2. QED
    BY <1>2, <2>1, PeersCloseLoses
<1>3. CASE h.want[c] /\ client[c] # "gone"
  <2> DEFINE g == [h EXCEPT !.want[c] = ~room[c]]
  <2>1. peer_flush(h, c) = g
    BY <1>3, Zenon DEF peer_flush
  <2>2. g \in HubState
    BY Zenon DEF HubState, PollInv
  <2>3. /\ g.fd = h.fd /\ g.peers = h.peers /\ g.ctl = h.ctl /\ g.up = h.up
        /\ g.ended = h.ended /\ g.quit = h.quit
    BY Zenon DEF HubState
  <2> HIDE DEF g
  <2>4. QED
    BY <2>1, <2>2, <2>3, SameTables, Zenon DEF Agrees
<1>4. QED
  BY <1>1, <1>2, <1>3, Zenon

\* forward_frame closes only peers whose other end is closed.
LEMMA ForwardLoses ==
  ASSUME PollInv, NEW h \in HubState, Agrees(h), NEW D \in SUBSET Conns, D \cap Range(h.ctl) = {}
  PROVE  Lost(h, forward_frame(h, D))
<1> DEFINE w == [c \in Conns |-> h.want[c] \/ (c \in D /\ ~room[c])]
           g == [h EXCEPT !.want = w]
           C == {d \in D : client[d] = "gone" /\ ~h.want[d]}
<1>1. forward_frame(h, D) = peers_close(g, C)
  BY Zenon DEF forward_frame
<1>2. w \in [Conns -> BOOLEAN]
  BY Zenon DEF HubState, PollInv
<1> HIDE DEF w
<1>3. /\ g \in HubState /\ g.fd = h.fd /\ g.peers = h.peers /\ g.ctl = h.ctl /\ g.up = h.up
      /\ g.ended = h.ended /\ g.quit = h.quit
  BY <1>2, Zenon DEF HubState
<1> HIDE DEF g
<1>4. Lost(h, g)
  BY <1>3, SameTables, Zenon DEF Agrees
<1>5. C \in SUBSET Conns /\ C \cap Range(g.ctl) = {} /\ \A c \in C : client[c] = "gone"
  BY <1>3, Zenon
<1> HIDE DEF C
<1>6. Lost(g, peers_close(g, C))
  BY <1>3, <1>4, <1>5, PeersCloseLoses, Zenon DEF Lost
<1>7. QED
  BY <1>1, <1>4, <1>6, LostTransitive, Zenon

\* peer_readable: a message, the end of file, or nothing.
LEMMA ReadableLoses ==
  ASSUME PollInv, NEW h \in HubState, Agrees(h), NEW c \in Conns, c \notin Range(h.ctl),
         NEW D \in SUBSET Conns, D \cap Range(h.ctl) = {}
  PROVE  Lost(h, peer_readable(h, c, D))
<1>1. CASE h.msgs[c] > 0
  <2> DEFINE m == [h.msgs EXCEPT ![c] = @ - 1]
             g == [h EXCEPT !.msgs = m]
  <2>1. peer_readable(h, c, D) = forward_frame(g, D)
    BY <1>1, Zenon DEF peer_readable
  <2>2. m \in [Conns -> Nat]
    BY <1>1 DEF HubState
  <2> HIDE DEF m
  <2>3. /\ g \in HubState /\ g.fd = h.fd /\ g.peers = h.peers /\ g.ctl = h.ctl /\ g.up = h.up
        /\ g.ended = h.ended /\ g.quit = h.quit
    BY <2>2, Zenon DEF HubState
  <2> HIDE DEF g
  <2>4. Lost(h, g)
    BY <2>3, SameTables, Zenon DEF Agrees
  <2>5. Lost(g, forward_frame(g, D))
    BY <2>3, <2>4, ForwardLoses, Zenon DEF Lost
  <2>6. QED
    BY <2>1, <2>4, <2>5, LostTransitive, Zenon
<1>2. CASE ~(h.msgs[c] > 0) /\ client[c] = "gone"
  <2>1. peer_readable(h, c, D) = peers_close(h, {c})
    BY <1>2, Zenon DEF peer_readable, peer_close
  <2>2. QED
    BY <1>2, <2>1, PeersCloseLoses, Zenon
<1>3. CASE ~(h.msgs[c] > 0) /\ client[c] # "gone"
  BY <1>3, LostNothing, Zenon DEF peer_readable
<1>4. QED
  BY <1>1, <1>2, <1>3, Zenon

\* All that a row's events make the hub do to a peer.
LEMMA ServePeerLoses ==
  ASSUME PollInv, NEW h \in HubState, Agrees(h), NEW c \in Conns, c \notin Range(h.ctl),
         NEW D \in SUBSET Conns, D \cap Range(h.ctl) = {},
         NEW re, re.hup => client[c] = "gone"
  PROVE  Lost(h, ServePeer(h, c, re, D))
<1>1. CASE re.hup
  <2>1. ServePeer(h, c, re, D) = peers_close(h, {c})
    BY <1>1, Zenon DEF ServePeer, peer_close
  <2>2. QED
    BY <1>1, <2>1, PeersCloseLoses, Zenon
<1>2. CASE ~re.hup
  <2> DEFINE f == IF re.out THEN peer_flush(h, c) ELSE h
  <2>1. ServePeer(h, c, re, D) = IF f.fd[c] # None /\ re.in THEN peer_readable(f, c, D) ELSE f
    BY <1>2, Zenon DEF ServePeer
  <2>2. Lost(h, f) /\ f.ctl = h.ctl
    BY FlushLoses, LostNothing, Zenon
  <2> HIDE DEF f
  <2>3. Lost(f, peer_readable(f, c, D))
    BY <2>2, ReadableLoses DEF Lost
  <2>4. Lost(h, peer_readable(f, c, D))
    BY <2>2, <2>3, LostTransitive, Zenon
  <2>5. QED
    BY <2>1, <2>2, <2>4, Zenon
<1>3. QED
  BY <1>1, <1>2, Zenon

\* ctl_close frees the slot, the descriptor and the quit mark of a control client.
LEMMA CtlCloseLoses ==
  ASSUME NEW h \in HubState, Agrees(h), NEW k \in 1 .. MaxCtl, h.ctl[k] # None
  PROVE  Lost(h, ctl_close(h, k)) /\ ctl_close(h, k).ctl[k] = None
         /\ ctl_close(h, k).ended = h.ended
<1> DEFINE c == h.ctl[k]
           t == [h.ctl EXCEPT ![k] = None]
           g == [h EXCEPT !.fd[c] = None, !.want[c] = FALSE, !.quit = @ \ {c}, !.ctl[k] = None]
<1>1. ctl_close(h, k) = g
  BY Zenon DEF ctl_close
<1>2. c \in Conns /\ k \in DOMAIN h.ctl /\ h.ctl \in [1 .. MaxCtl -> Conns \cup {None}]
  BY CtlIsSeq, Zenon
<1>3. t \in [1 .. MaxCtl -> Conns \cup {None}] /\ \A j \in 1 .. MaxCtl : t[j] = IF j = k THEN None ELSE h.ctl[j]
  BY <1>2, Zenon
<1> HIDE DEF c
<1>4. /\ g.fd = [h.fd EXCEPT ![c] = None] /\ g.peers = h.peers /\ g.ctl = t /\ g.quit = h.quit \ {c}
      /\ g.up = h.up /\ g.ended = h.ended /\ g \in HubState
  BY <1>2, <1>3, Zenon DEF HubState
<1> HIDE DEF g, t
<1>5. \A d \in Conns : g.fd[d] = IF d = c THEN None ELSE h.fd[d]
  BY <1>2, <1>4, Zenon DEF HubState
<1>6. DOMAIN t = 1 .. MaxCtl /\ DOMAIN h.ctl = 1 .. MaxCtl
  BY <1>2, <1>3, Zenon
<1>7. \A d \in Conns : d \in Range(t) <=> d \in Range(h.ctl) /\ d # c
  BY <1>2, <1>3, <1>6, ConnsAssumption DEF Range, Agrees, Distinct, c
<1>8. c \notin Range(h.peers)
  BY <1>2, <1>6, ConnsAssumption DEF Agrees, Range, c
<1>9. \A d \in Conns : g.fd[d] # None <=> d \in Range(h.peers) \cup Range(t)
  BY <1>5, <1>7, <1>8, Zenon DEF Agrees
<1>10. \A d, e \in Conns : d # e /\ g.fd[d] # None => g.fd[e] # g.fd[d]
  BY <1>5, Zenon DEF Agrees
<1>11. Distinct(t)
  BY <1>3, <1>6, Zenon DEF Agrees, Distinct
<1>12. \A j \in DOMAIN h.peers, l \in DOMAIN t : h.peers[j] = t[l] => t[l] = None
  BY <1>3, <1>6 DEF Agrees
<1>13. g.quit \subseteq Range(t)
  BY <1>4, <1>7, Zenon DEF Agrees, HubState
<1>14. Agrees(g)
  BY <1>4, <1>9, <1>10, <1>11, <1>12, <1>13 DEF Agrees
<1>15. Lost(h, g)
  BY <1>4, <1>5, <1>14, Zenon DEF Lost, HubState
<1>16. QED
  BY <1>1, <1>3, <1>4, <1>15, Zenon

\* ctl_readable: a command, the end of file, or nothing.
LEMMA CtlReadableLoses ==
  ASSUME NEW h \in HubState, Agrees(h), NEW k \in 1 .. MaxCtl, h.ctl[k] # None, NEW bye \in BOOLEAN
  PROVE  LET r == ctl_readable(h, k, bye)
         IN  Lost(h, r) /\ (r.ctl[k] = None \/ r.ctl[k] = h.ctl[k])
<1> DEFINE c == h.ctl[k]
           r == ctl_readable(h, k, bye)
<1>1. c \in Conns /\ c \in Range(h.ctl)
  BY CtlIsSeq, Zenon DEF Range
<1> HIDE DEF c
<1>2. CASE h.msgs[c] > 0
  <2> DEFINE m == [h.msgs EXCEPT ![c] = @ - 1]
             w == [h.want EXCEPT ![c] = TRUE]
             q == IF bye THEN h.quit \cup {c} ELSE h.quit
             g == [h EXCEPT !.msgs = m, !.want = w, !.quit = q]
  <2>1. r = g
    BY <1>2, Zenon DEF ctl_readable, c
  <2>2. m \in [Conns -> Nat] /\ w \in [Conns -> BOOLEAN] /\ q \in SUBSET Conns
    BY <1>1, <1>2 DEF HubState
  <2>3. q \subseteq Range(h.ctl)
    BY <1>1, Zenon DEF Agrees
  <2> HIDE DEF m, w, q
  <2>4. /\ g \in HubState /\ g.fd = h.fd /\ g.peers = h.peers /\ g.ctl = h.ctl /\ g.up = h.up
        /\ g.ended = h.ended /\ g.quit = q
    BY <2>2, Zenon DEF HubState
  <2> HIDE DEF g, r
  <2>5. QED
    BY <2>1, <2>3, <2>4, SameTables, Zenon DEF r
<1>3. CASE ~(h.msgs[c] > 0) /\ client[c] = "gone"
  <2> DEFINE f == ctl_close(h, k)
             g == [f EXCEPT !.ended = @ \cup {c}]
  <2>1. r = g
    BY <1>3, Zenon DEF ctl_readable, c
  <2>2. Lost(h, f) /\ f.ctl[k] = None /\ f.ended = h.ended
    BY CtlCloseLoses, Zenon
  <2> HIDE DEF f
  <2>3. f \in HubState /\ Agrees(f)
    BY <2>2, Zenon DEF Lost
  <2>4. /\ g \in HubState /\ g.fd = f.fd /\ g.peers = f.peers /\ g.ctl = f.ctl /\ g.up = f.up
        /\ g.ended = f.ended \cup {c} /\ g.quit = f.quit
    BY <1>1, <2>3, Zenon DEF HubState
  <2> HIDE DEF g, r
  <2>5. Agrees(g)
    BY <2>3, <2>4 DEF Agrees
  <2>6. Lost(h, g)
    BY <1>3, <2>2, <2>4, <2>5, Zenon DEF Lost
  <2>7. QED
    BY <2>1, <2>2, <2>4, <2>6, Zenon DEF r
<1>4. CASE ~(h.msgs[c] > 0) /\ client[c] # "gone"
  <2>1. r = h
    BY <1>4, Zenon DEF ctl_readable, c
  <2>2. QED
    BY <2>1, LostNothing, Zenon
<1>5. QED
  BY <1>2, <1>3, <1>4, Zenon

\* All that the loop does to the control client of a slot.
LEMMA ServeCtlLoses ==
  ASSUME PollInv, NEW h \in HubState, Agrees(h), NEW k \in 1 .. MaxCtl, h.ctl[k] # None,
         NEW bye \in BOOLEAN, NEW re
  PROVE  Lost(h, ServeCtl(h, k, re, bye))
<1> DEFINE c == h.ctl[k]
           r == IF re.in THEN ctl_readable(h, k, bye) ELSE h
           w == [r.want EXCEPT ![c] = @ /\ ~(room[c] /\ client[c] = "open")]
           f == [r EXCEPT !.want = w]
<1>1. ServeCtl(h, k, re, bye) = IF r.ctl[k] = None THEN r
                                ELSE IF c \in f.quit /\ ~f.want[c] THEN ctl_close(f, k) ELSE f
  BY Zenon DEF ServeCtl, ctl_flush
<1>2. c \in Conns
  BY CtlIsSeq, Zenon
<1>3. Lost(h, r) /\ (r.ctl[k] = None \/ r.ctl[k] = c)
  BY CtlReadableLoses, LostNothing, Zenon
<1> HIDE DEF c, r
<1>4. r \in HubState /\ Agrees(r)
  BY <1>3, Zenon DEF Lost
<1>5. w \in [Conns -> BOOLEAN]
  BY <1>2, <1>4, Zenon DEF HubState, PollInv
<1> HIDE DEF w
<1>6. /\ f \in HubState /\ f.fd = r.fd /\ f.peers = r.peers /\ f.ctl = r.ctl /\ f.up = r.up
      /\ f.ended = r.ended /\ f.quit = r.quit
  BY <1>4, <1>5, Zenon DEF HubState
<1> HIDE DEF f
<1>7. Lost(r, f) /\ Agrees(f)
  BY <1>4, <1>6, SameTables, Zenon DEF Agrees, Lost
<1>8. Lost(h, f)
  BY <1>3, <1>7, LostTransitive, Zenon
<1>9. ASSUME r.ctl[k] # None PROVE Lost(h, ctl_close(f, k))
  <2>1. f.ctl[k] # None
    BY <1>6, <1>9, Zenon
  <2>2. Lost(f, ctl_close(f, k))
    BY <1>6, <1>7, <2>1, CtlCloseLoses, Zenon
  <2>3. QED
    BY <1>8, <2>2, LostTransitive, Zenon
<1>10. QED
  BY <1>1, <1>3, <1>8, <1>9, Zenon

-----------------------------------------------------------------------------
(* The steps *)

\* The hub's variables are the fields of the record its handlers work on.
LEMMA HubIs ==
  /\ Hub.fd = fd /\ Hub.want = want /\ Hub.peers = peers /\ Hub.ctl = ctl /\ Hub.quit = quit
  /\ Hub.up = up /\ Hub.ended = ended /\ Hub.msgs = msgs
BY Zenon DEF Hub

LEMMA HubBecame ==
  ASSUME NEW h \in HubState, HubBecomes(h)
  PROVE  Hub' = h
BY Zenon DEF Hub, HubBecomes, HubState

\* What an open connection of the tables has.
LEMMA OpenHasFd ==
  ASSUME PollInv, NEW c \in Conns, c \in Range(peers) \cup Range(ctl)
  PROVE  fd[c] \in Nat /\ fd[c] # None
<1>1. fd \in [Conns -> Nat \cup {None}]
  BY HubIs, Zenon DEF PollInv, HubState
<1>2. fd[c] # None
  BY HubIs, Zenon DEF PollInv, Agrees
<1>3. QED
  BY <1>1, <1>2, Zenon

\* poll's rows describe open connections as they are.
LEMMA RowsOfTable ==
  ASSUME PollInv, NEW table \in Seq(Conns \cup {None}), table \in {peers, ctl}
  PROVE  /\ Rows(table) \in Seq(Row)
         /\ Rows(table) # <<>> => Len(table) >= 1
         /\ \A k \in DOMAIN Rows(table) : \E c \in Conns :
              /\ fd[c] # None /\ fd[c] = Rows(table)[k].fd
              /\ Rows(table)[k].hup => client[c] = "gone"
<1> DEFINE o == Open(table)
           n == Len(o)
<1>1. o \in Seq(Conns) /\ Range(o) = Range(table) \ {None}
  BY OpenSlots, Zenon
<1>2. Rows(table) = [k \in DOMAIN o |-> Events(o[k])]
  BY Zenon DEF Rows
<1> HIDE DEF o
<1>3. n \in Nat /\ DOMAIN o = 1 .. n /\ \A k \in 1 .. n : o[k] \in Conns /\ o[k] \in Range(o)
  BY <1>1 DEF Range
<1> HIDE DEF n
<1>4. ASSUME NEW k \in 1 .. n
      PROVE  /\ fd[o[k]] \in Nat /\ fd[o[k]] # None
             /\ Events(o[k]) \in Row /\ Events(o[k]).fd = fd[o[k]]
             /\ Events(o[k]).hup => client[o[k]] = "gone"
  <2>1. fd[o[k]] \in Nat /\ fd[o[k]] # None
    BY <1>1, <1>3, OpenHasFd, Zenon
  <2>2. want \in [Conns -> BOOLEAN] /\ room \in [Conns -> BOOLEAN] /\ msgs \in [Conns -> Nat]
    BY HubIs, Zenon DEF PollInv, HubState
  <2>3. QED
    BY <2>1, <2>2, <1>3, Zenon DEF Events, Row
<1>5. Rows(table) \in [1 .. n -> Row] /\ \A k \in 1 .. n : Rows(table)[k] = Events(o[k])
  BY <1>2, <1>3, <1>4
<1>6. Rows(table) \in Seq(Row) /\ DOMAIN Rows(table) = 1 .. n /\ Len(Rows(table)) = n
  BY <1>3, <1>5
<1>7. ASSUME Rows(table) # <<>> PROVE Len(table) >= 1
  <2>1. n >= 1
    BY <1>3, <1>6, <1>7
  <2>2. o[1] \in Range(table)
    BY <2>1, <1>1, <1>3
  <2>3. QED
    BY <2>2 DEF Range
<1>8. QED
  BY <1>3, <1>4, <1>5, <1>6, <1>7

\* A step that at most closes connections, and uses up rows, keeps the invariant.
LEMMA LostKeeps ==
  ASSUME PollInv, Lost(Hub, Hub'), UNCHANGED <<kind, queue, left, room>>,
         client' \in [Conns -> {"idle", "open", "gone"}],
         \A c \in Conns : client[c] = "gone" => client'[c] = "gone",
         \A c \in Conns : client'[c] = "idle" => client[c] = "idle",
         rows' \in Seq(Row), \A k \in DOMAIN rows' : \E j \in DOMAIN rows : rows'[k] = rows[j],
         ctl_rows' \in Seq(Row), WalkInBounds'
  PROVE  PollInv'
<1>1. Hub' \in HubState /\ Agrees(Hub)'
  BY Zenon DEF Lost, Agrees
<1>2. Hub'.fd = fd' /\ Hub'.ended = ended'
  BY DEF Hub
<1>3. \A c \in Conns : fd'[c] \in {fd[c], None}
  BY <1>2, HubIs, Zenon DEF Lost
<1>4. HealthyAreKept'
  BY <1>1, <1>2, HubIs, Zenon DEF Lost, HealthyAreKept, PollInv, HubState
<1>5. RowsAreSound'
  <2>1. SUFFICES ASSUME NEW k \in DOMAIN rows', rows'[k].hup, NEW c \in Conns, fd'[c] = rows'[k].fd
                 PROVE  client'[c] = "gone"
    BY Zenon DEF RowsAreSound
  <2>2. PICK j \in DOMAIN rows : rows'[k] = rows[j]
    BY Zenon
  <2>3. rows[j].fd \in Nat
    <3>1. rows \in Seq(Row)
      BY Zenon DEF PollInv
    <3>2. rows[j] \in Row
      BY <3>1
    <3>3. QED
      BY <3>2, Zenon DEF Row
  <2>4. fd'[c] = fd[c]
    BY <1>3, <2>1, <2>2, <2>3, ConnsAssumption
  <2>5. QED
    BY <2>1, <2>2, <2>4 DEF PollInv, RowsAreSound
<1>6. \A c \in queue : fd'[c] = None
  BY <1>3, Zenon DEF PollInv
<1>7. \A c \in Conns : client'[c] = "idle" => fd'[c] = None /\ c \notin queue
  BY <1>3, Zenon DEF PollInv
<1>8. QED
  BY <1>1, <1>4, <1>5, <1>6, <1>7, Zenon DEF PollInv

\* The peers of a walk are no control clients.
LEMMA PeersAreNoClients ==
  ASSUME PollInv, NEW C \in SUBSET (Range(peers) \ {None})
  PROVE  C \in SUBSET Conns /\ C \cap Range(ctl) = {}
<1>1. peers \in Seq(Conns \cup {None})
  BY HubIs, Zenon DEF PollInv, HubState
<1>2. Range(peers) \subseteq Conns \cup {None}
  BY <1>1 DEF Range
<1>3. C \cap Range(ctl) = {}
  BY HubIs DEF PollInv, Agrees, Range
<1>4. QED
  BY <1>2, <1>3, Zenon

LEMMA WalkPeerStep ==
  ASSUME PollInv, WalkPeer
  PROVE  PollInv'
<1>1. rows # <<>> /\ rows \in Seq(Row) /\ i \in 1 .. Len(peers)
  BY DEF WalkPeer, PollInv, WalkInBounds
<1>2. peers \in Seq(Conns \cup {None}) /\ Hub \in HubState /\ Agrees(Hub)
  BY HubIs, Zenon DEF PollInv, HubState
<1>3. Lost(Hub, Hub')
  <2> DEFINE c == peers[i]
  <2>1. CASE c # None /\ RowIsOf(c)
    <3>1. PICK D \in IF msgs[c] > 0 THEN SUBSET (Range(Open(peers)) \ {c}) ELSE {{}} :
            HubBecomes(ServePeer(Hub, c, Head(rows), D))
      BY <2>1, Zenon DEF WalkPeer
    <3>2. c \in Range(peers) \ {None}
      BY <1>1, <1>2, <2>1 DEF Range
    <3>3. D \in SUBSET (Range(peers) \ {None})
      BY <1>2, <3>1, OpenSlots, Zenon
    <3>4. c \in Conns /\ c \notin Range(ctl) /\ D \in SUBSET Conns /\ D \cap Range(ctl) = {}
      <4>1. {c} \in SUBSET (Range(peers) \ {None})
        BY <3>2, Zenon
      <4>2. {c} \in SUBSET Conns /\ {c} \cap Range(ctl) = {}
        BY <4>1, PeersAreNoClients, Zenon
      <4>3. D \in SUBSET Conns /\ D \cap Range(ctl) = {}
        BY <3>3, PeersAreNoClients, Zenon
      <4>4. QED
        BY <4>2, <4>3, Zenon
    <3>5. Head(rows).hup => client[c] = "gone"
      <4>1. Head(rows) = rows[1] /\ 1 \in DOMAIN rows
        BY <1>1
      <4>2. fd[c] = rows[1].fd
        BY <2>1, <4>1, Zenon DEF RowIsOf
      <4>3. QED
        BY <4>1, <4>2, <3>4, Zenon DEF PollInv, RowsAreSound
    <3> DEFINE g == ServePeer(Hub, c, Head(rows), D)
    <3>6. Lost(Hub, g)
      BY <1>2, <3>4, <3>5, HubIs, ServePeerLoses, Zenon
    <3> HIDE DEF g
    <3>7. Hub' = g
      BY <3>1, <3>6, HubBecame, Zenon DEF Lost, g
    <3>8. QED
      BY <3>6, <3>7, Zenon
  <2>2. CASE ~(c # None /\ RowIsOf(c))
    <3>1. UNCHANGED hub
      BY <2>2, Zenon DEF WalkPeer
    <3>2. Hub' = Hub
      BY <3>1, Zenon DEF hub, Hub
    <3>3. QED
      BY <1>2, <3>2, LostNothing, Zenon
  <2>3. QED
    BY <2>1, <2>2, Zenon
<1>4. rows' \in {<<>>, rows, Tail(rows)}
  BY Zenon DEF WalkPeer, RowsLeft
<1>5. rows' \in Seq(Row) /\ \A k \in DOMAIN rows' : \E j \in DOMAIN rows : rows'[k] = rows[j]
  <2>1. CASE rows' = <<>>
    BY <2>1
  <2>2. CASE rows' = rows
    BY <1>1, <2>2, Zenon
  <2>3. CASE rows' = Tail(rows)
    <3>1. /\ Tail(rows) \in Seq(Row) /\ Len(rows) \in Nat /\ Len(rows) >= 1
          /\ DOMAIN Tail(rows) = 1 .. Len(rows) - 1 /\ DOMAIN rows = 1 .. Len(rows)
          /\ \A k \in 1 .. Len(rows) - 1 : Tail(rows)[k] = rows[k + 1]
      BY <1>1
    <3>2. \A k \in 1 .. Len(rows) - 1 : k + 1 \in 1 .. Len(rows)
      BY <3>1
    <3>3. QED
      BY <3>1, <3>2, <2>3, Zenon
  <2>4. QED
    BY <1>4, <2>1, <2>2, <2>3, Zenon
<1>6. Len(peers') = Len(peers)
  BY <1>3, HubIs, Zenon DEF Lost, Hub
<1>7. WalkInBounds'
  <2>1. ctl_rows' = ctl_rows /\ i' = IF rows' = <<>> THEN 1 ELSE i + 1
    BY Zenon DEF WalkPeer
  <2>2. rows' # <<>> => i # Len(peers)
    BY Zenon DEF WalkPeer
  <2>3. rows' # <<>> => i' \in 1 .. Len(peers)
    BY <1>1, <1>2, <2>1, <2>2
  <2>4. 1 \in 1 .. MaxCtl
    BY ConnsAssumption
  <2>5. QED
    BY <1>6, <2>1, <2>3, <2>4, Zenon DEF WalkInBounds
<1>8. UNCHANGED <<kind, queue, left, room, client, ctl_rows>>
  BY Zenon DEF WalkPeer, far
<1>9. client' \in [Conns -> {"idle", "open", "gone"}] /\ ctl_rows' \in Seq(Row)
  BY <1>8, Zenon DEF PollInv
<1>10. QED
  BY <1>3, <1>5, <1>7, <1>8, <1>9, LostKeeps, Zenon

LEMMA WalkCtlStep ==
  ASSUME PollInv, WalkCtl
  PROVE  PollInv'
<1>1. rows = <<>> /\ ctl_rows # <<>> /\ ctl_rows \in Seq(Row) /\ i \in 1 .. MaxCtl
  BY Zenon DEF WalkCtl, PollInv, WalkInBounds
<1>2. Hub \in HubState /\ Agrees(Hub) /\ client \in [Conns -> {"idle", "open", "gone"}]
  BY Zenon DEF PollInv
<1>3. /\ Lost(Hub, Hub')
      /\ client' = client \/ (ctl[i] \in Conns /\ fd[ctl[i]] # None
                              /\ client' = [client EXCEPT ![ctl[i]] = "gone"])
  <2>1. CASE ctl[i] = None
    <3>1. UNCHANGED <<hub, client>>
      BY <2>1, Zenon DEF WalkCtl
    <3>2. Hub' = Hub /\ client' = client
      BY <3>1, Zenon DEF hub, Hub
    <3>3. QED
      BY <1>2, <3>2, LostNothing, Zenon
  <2>2. CASE ctl[i] # None
    <3>1. PICK bye \in IF msgs[ctl[i]] > 0 THEN BOOLEAN ELSE {FALSE} :
            LET h == ServeCtl(Hub, i, Head(ctl_rows), bye)
            IN  /\ HubBecomes(h)
                /\ client' = IF h.ctl[i] = None /\ ctl[i] \notin h.ended
                             THEN [client EXCEPT ![ctl[i]] = "gone"] ELSE client
      BY <2>2, Zenon DEF WalkCtl
    <3> DEFINE g == ServeCtl(Hub, i, Head(ctl_rows), bye)
    <3>2. Lost(Hub, g)
      BY <1>1, <1>2, <2>2, HubIs, ServeCtlLoses, Zenon
    <3>3. HubBecomes(g) /\ client' \in {client, [client EXCEPT ![ctl[i]] = "gone"]}
      BY <3>1, Zenon
    <3> HIDE DEF g
    <3>4. Hub' = g
      BY <3>2, <3>3, HubBecame, Zenon DEF Lost
    <3>5. ctl[i] \in Conns /\ ctl[i] \in Range(ctl)
      BY <1>1, <1>2, <2>2, HubIs, CtlIsSeq, Zenon DEF Range
    <3>6. fd[ctl[i]] # None
      BY <3>5, OpenHasFd, Zenon
    <3>7. QED
      BY <3>2, <3>3, <3>4, <3>5, <3>6, Zenon
  <2>3. QED
    BY <2>1, <2>2, Zenon
<1>4. /\ client' \in [Conns -> {"idle", "open", "gone"}]
      /\ \A c \in Conns : client[c] = "gone" => client'[c] = "gone"
      /\ \A c \in Conns : client'[c] = "idle" => client[c] = "idle"
  BY <1>2, <1>3, Zenon
<1>5. UNCHANGED <<kind, queue, left, room, rows>>
  BY Zenon DEF WalkCtl
<1>6. rows' \in Seq(Row) /\ \A k \in DOMAIN rows' : \E j \in DOMAIN rows : rows'[k] = rows[j]
  BY <1>1, <1>5
<1>7. ctl_rows' \in Seq(Row)
  BY <1>1 DEF WalkCtl
<1>8. WalkInBounds'
  <2>1. i' = IF ctl_rows' = <<>> THEN 1 ELSE i + 1
    BY Zenon DEF WalkCtl
  <2>2. ctl_rows' # <<>> => i # MaxCtl
    BY Zenon DEF WalkCtl
  <2>3. ctl_rows' # <<>> => i' \in 1 .. MaxCtl
    BY <1>1, <2>1, <2>2, ConnsAssumption
  <2>4. QED
    BY <1>1, <1>5, <2>1, <2>3, Zenon DEF WalkInBounds
<1>9. QED
  BY <1>3, <1>4, <1>5, <1>6, <1>7, <1>8, LostKeeps, Zenon

\* A pass of the loop may give slots to four connections, one after the other.
LEMMA FourTake ==
  ASSUME PollInv,
         NEW t \in Dialled, NEW u \in Waiting("unix"), NEW b \in Waiting("tcp"), NEW k \in Waiting("ctl")
  PROVE  /\ Took(Hub, accept(accept(accept(upstream_connect(Hub, t), u), b), k), {t, u, b, k})
         /\ \A c \in {t, u, b, k} \ {None} : c \in Conns /\ fd[c] = None
         /\ t # None => client[t] = "idle"
         /\ \A c \in {u, b, k} \ {None} : c # t /\ c \in queue
<1> DEFINE h0 == Hub
           h1 == upstream_connect(h0, t)
           h2 == accept(h1, u)
           h3 == accept(h2, b)
           h4 == accept(h3, k)
<1>1. t = None \/ (t \in Conns /\ kind[t] = "trunk" /\ client[t] = "idle" /\ fd[t] = None)
  BY Zenon DEF Dialled, PollInv
<1>2. /\ u = None \/ (u \in queue /\ kind[u] = "unix")
      /\ b = None \/ (b \in queue /\ kind[b] = "tcp")
      /\ k = None \/ (k \in queue /\ kind[k] = "ctl")
  BY Zenon DEF Waiting
<1>3. \A c \in queue : c \in Conns /\ fd[c] = None /\ client[c] # "idle"
  BY Zenon DEF PollInv
<1>4. h0 \in HubState /\ Agrees(h0) /\ h0.fd = fd
  BY HubIs, Zenon DEF PollInv
<1> HIDE DEF h0
<1>5. Took(h0, h1, {t})
  BY <1>1, <1>4, ConnectTakes, Zenon
<1> HIDE DEF h1
<1>6. Took(h1, h2, {u})
  <2>1. u = None \/ (u \in Conns /\ h1.fd[u] = None)
    BY <1>1, <1>2, <1>3, <1>4, <1>5, Zenon DEF Took
  <2>2. h1 \in HubState /\ Agrees(h1)
    BY <1>5, Zenon DEF Took
  <2>3. QED
    BY <2>1, <2>2, AcceptTakes, Zenon
<1> HIDE DEF h2
<1>7. Took(h2, h3, {b})
  <2>1. b = None \/ (b \in Conns /\ h2.fd[b] = None)
    BY <1>1, <1>2, <1>3, <1>4, <1>5, <1>6, Zenon DEF Took
  <2>2. h2 \in HubState /\ Agrees(h2)
    BY <1>6, Zenon DEF Took
  <2>3. QED
    BY <2>1, <2>2, AcceptTakes, Zenon
<1> HIDE DEF h3
<1>8. Took(h3, h4, {k})
  <2>1. k = None \/ (k \in Conns /\ h3.fd[k] = None)
    BY <1>1, <1>2, <1>3, <1>4, <1>5, <1>6, <1>7, Zenon DEF Took
  <2>2. h3 \in HubState /\ Agrees(h3)
    BY <1>7, Zenon DEF Took
  <2>3. QED
    BY <2>1, <2>2, AcceptTakes, Zenon
<1> HIDE DEF h4
<1>9. Took(h0, h4, {t, u, b, k})
  <2>1. /\ Len(h0.peers) \in Nat /\ Len(h1.peers) \in Nat /\ Len(h2.peers) \in Nat
        /\ Len(h3.peers) \in Nat /\ Len(h4.peers) \in Nat
    <3>1. \A h \in HubState : Len(h.peers) \in Nat
      BY DEF HubState
    <3>2. h1 \in HubState /\ h2 \in HubState /\ h3 \in HubState /\ h4 \in HubState
      BY <1>5, <1>6, <1>7, <1>8, Zenon DEF Took
    <3>3. QED
      BY <1>4, <3>1, <3>2, Zenon
  <2>2. Len(h0.peers) <= Len(h4.peers)
    BY <2>1, <1>5, <1>6, <1>7, <1>8 DEF Took
  <2>3. \A d \in Conns \ {t, u, b, k} : h4.fd[d] = h0.fd[d]
    BY <1>5, <1>6, <1>7, <1>8, Zenon DEF Took
  <2>4. QED
    BY <2>2, <2>3, <1>5, <1>6, <1>7, <1>8, Zenon DEF Took
<1>10. QED
  BY <1>1, <1>2, <1>3, <1>9, Zenon DEF h0, h1, h2, h3, h4

LEMMA PollStep ==
  ASSUME PollInv, Poll
  PROVE  PollInv'
<1>1. PICK t \in Dialled, u \in Waiting("unix"), b \in Waiting("tcp"), k \in Waiting("ctl") :
        LET ready  == queue # {} \/ \E e \in Range(Rows(peers) \o Rows(ctl)) : e.in \/ e.out
            h      == accept(accept(accept(upstream_connect(Hub, t), u), b), k)
            news   == {t, u, b, k} \ {None}
        IN  /\ HubBecomes(h)
            /\ queue' = queue \ news
            /\ client' = [c \in Conns |-> IF c \notin news THEN client[c]
                                          ELSE IF h.fd[c] = None THEN "gone"
                                          ELSE IF c = t THEN "open" ELSE client[c]]
            /\ rows' = IF ready THEN Rows(peers) ELSE <<>>
            /\ ctl_rows' = IF ready THEN Rows(ctl) ELSE <<>>
  BY Zenon DEF Poll
<1> DEFINE h == accept(accept(accept(upstream_connect(Hub, t), u), b), k)
           news == {t, u, b, k} \ {None}
<1>2. Took(Hub, h, {t, u, b, k})
  BY FourTake, Zenon
<1>3. /\ \A c \in news : c \in Conns /\ fd[c] = None
      /\ t # None => client[t] = "idle"
      /\ \A c \in news : c = t \/ c \in queue
  BY FourTake, Zenon
<1>4. /\ HubBecomes(h) /\ queue' = queue \ news
      /\ client' = [c \in Conns |-> IF c \notin news THEN client[c]
                                    ELSE IF h.fd[c] = None THEN "gone"
                                    ELSE IF c = t THEN "open" ELSE client[c]]
      /\ rows' \in {Rows(peers), <<>>} /\ ctl_rows' \in {Rows(ctl), <<>>}
  BY <1>1, Zenon
<1>5. rows = <<>> /\ ctl_rows = <<>> /\ UNCHANGED <<kind, left, room, i>>
  BY Zenon DEF Poll
<1>6. None \notin Conns
  BY ConnsAssumption, Zenon
<1> HIDE DEF h
<1>7. Hub' = h /\ h \in HubState /\ Agrees(h)
  BY <1>2, <1>4, HubBecame, Zenon DEF Took
<1>8. /\ \A c \in Conns \ news : fd'[c] = fd[c]
      /\ ended' = ended /\ fd' = h.fd /\ Len(peers) <= Len(peers')
  <2>1. Hub'.fd = fd' /\ Hub'.ended = ended' /\ Hub'.peers = peers'
    BY Zenon DEF Hub
  <2>2. QED
    BY <1>2, <1>6, <1>7, <2>1, HubIs, Zenon DEF Took
<1> HIDE DEF news
<1>9. client \in [Conns -> {"idle", "open", "gone"}] /\ queue \in SUBSET Conns
  BY Zenon DEF PollInv
<1>10. client' \in [Conns -> {"idle", "open", "gone"}]
  BY <1>4, <1>9, Zenon
<1>11. \A c \in Conns : client'[c] = IF c \notin news THEN client[c]
                                     ELSE IF fd'[c] = None THEN "gone"
                                     ELSE IF c = t THEN "open" ELSE client[c]
  BY <1>4, <1>8, Zenon
<1>12. \A c \in Conns : client[c] = "gone" => client'[c] = "gone"
  BY <1>3, <1>6, <1>11, Zenon DEF news
<1>13. \A c \in queue' : fd'[c] = None
  BY <1>4, <1>8, <1>9, Zenon DEF PollInv
<1>14. \A c \in Conns : client'[c] = "idle" => fd'[c] = None /\ c \notin queue'
  BY <1>3, <1>4, <1>8, <1>11, Zenon DEF PollInv
<1>15. HealthyAreKept'
  <2>1. ended \in SUBSET Conns
    BY HubIs, Zenon DEF PollInv, HubState
  <2>2. QED
    BY <2>1, <1>8, <1>12, Zenon DEF HealthyAreKept, PollInv
<1>16. /\ peers \in Seq(Conns \cup {None}) /\ ctl \in Seq(Conns \cup {None})
       /\ Len(peers) \in Nat /\ Len(peers') \in Nat
  <2>1. Hub.peers = peers /\ Hub.ctl = ctl /\ Hub'.peers = peers'
    BY Zenon DEF Hub
  <2>2. \A g \in HubState : g.peers \in Seq(Conns \cup {None}) /\ Len(g.peers) \in Nat
    BY DEF HubState
  <2>3. Hub \in HubState
    BY Zenon DEF PollInv
  <2>4. QED
    BY <1>7, <2>1, <2>2, <2>3, CtlIsSeq, Zenon
<1>17. rows' \in Seq(Row) /\ ctl_rows' \in Seq(Row)
  <2>1. Rows(peers) \in Seq(Row)
    BY <1>16, RowsOfTable, Zenon
  <2>2. Rows(ctl) \in Seq(Row)
    BY <1>16, RowsOfTable, Zenon
  <2>3. <<>> \in Seq(Row)
    OBVIOUS
  <2>4. rows' \in {Rows(peers), <<>>} /\ ctl_rows' \in {Rows(ctl), <<>>}
    BY <1>4, Zenon
  <2>5. QED
    BY <2>1, <2>2, <2>3, <2>4, Zenon
<1>18. RowsAreSound'
  <2>1. SUFFICES ASSUME NEW j \in DOMAIN rows', rows'[j].hup, NEW c \in Conns, fd'[c] = rows'[j].fd
                 PROVE  client'[c] = "gone"
    BY Zenon DEF RowsAreSound
  <2>2. rows' = Rows(peers)
    BY <1>4, <2>1
  <2>3. PICK d \in Conns : fd[d] # None /\ fd[d] = rows'[j].fd /\ client[d] = "gone"
    BY <1>16, <2>1, <2>2, RowsOfTable, Zenon
  <2>4. d \notin news
    BY <1>3, <2>3, Zenon
  <2>5. fd'[d] = fd[d]
    BY <1>8, <2>4, Zenon
  <2>6. c = d
    BY <2>1, <2>3, <2>5, <1>7, <1>8, Zenon DEF Agrees
  <2>7. QED
    BY <2>3, <2>6, <1>12, Zenon
<1>19. WalkInBounds'
  <2>1. i = 1 /\ i' = 1
    BY <1>5, Zenon DEF PollInv, WalkInBounds
  <2>2. rows' # <<>> => Len(peers) >= 1
    BY <1>4, <1>16, RowsOfTable, Zenon
  <2>3. rows' # <<>> => 1 \in 1 .. Len(peers')
    BY <2>2, <1>8, <1>16
  <2>4. 1 \in 1 .. MaxCtl
    BY ConnsAssumption
  <2>5. QED
    BY <2>1, <2>3, <2>4, Zenon DEF WalkInBounds
<1>20. queue' \in SUBSET Conns /\ kind' = kind /\ left' = left /\ room' = room
  BY <1>4, <1>5, <1>9, Zenon
<1>21. Agrees(Hub)'
  BY <1>7, Zenon DEF Agrees
<1>22. QED
  BY <1>7, <1>10, <1>13, <1>14, <1>15, <1>17, <1>18, <1>19, <1>20, <1>21, Zenon DEF PollInv

\* What the other ends do between two steps of the loop.
LEMMA ClientStep ==
  ASSUME PollInv, NEW c \in Conns, Connect(c) \/ Send(c) \/ Resume(c) \/ Close(c)
  PROVE  PollInv'
<1>1. /\ Hub \in HubState /\ Agrees(Hub) /\ client \in [Conns -> {"idle", "open", "gone"}]
      /\ room \in [Conns -> BOOLEAN] /\ left \in [Conns -> Nat]
  BY Zenon DEF PollInv
<1>2. /\ fd' = fd /\ want' = want /\ peers' = peers /\ ctl' = ctl /\ quit' = quit /\ up' = up
      /\ ended' = ended /\ UNCHANGED <<kind, rows, ctl_rows, i>>
      /\ msgs' \in {msgs, [msgs EXCEPT ![c] = @ + 1]}
  BY Zenon DEF Connect, Send, Resume, Close, hub, walk
<1>3. msgs' \in [Conns -> Nat]
  <2>1. msgs \in [Conns -> Nat]
    BY <1>1, HubIs, Zenon DEF HubState
  <2>2. QED
    BY <1>2, <2>1
<1>4. Hub' \in HubState
  <2>1. Hub' = [Hub EXCEPT !.msgs = msgs']
    BY <1>2 DEF Hub
  <2>2. QED
    BY <1>1, <1>3, <2>1, Zenon DEF HubState
<1>5. Agrees(Hub)'
  <2>1. /\ Hub'.fd = Hub.fd /\ Hub'.peers = Hub.peers /\ Hub'.ctl = Hub.ctl
        /\ Hub'.quit = Hub.quit /\ Hub'.up = Hub.up
    BY <1>2, Zenon DEF Hub
  <2>2. QED
    BY <1>1, <2>1 DEF Agrees
<1>6. /\ client' \in [Conns -> {"idle", "open", "gone"}]
      /\ \A d \in Conns : client[d] = "gone" => client'[d] = "gone"
      /\ \A d \in Conns : client'[d] = "idle" => client[d] = "idle"
  BY <1>1, Zenon DEF Connect, Send, Resume, Close
<1>7. left' \in [Conns -> Nat] /\ room' \in [Conns -> BOOLEAN]
  <2>1. left' = left \/ (left[c] > 0 /\ left' = [left EXCEPT ![c] = @ - 1])
    BY Zenon DEF Connect, Send, Resume, Close
  <2>2. left' \in [Conns -> Nat]
    BY <1>1, <2>1
  <2>3. room' = room \/ room' = [room EXCEPT ![c] = TRUE]
    BY Zenon DEF Connect, Send, Resume, Close
  <2>4. QED
    BY <1>1, <2>2, <2>3, Zenon
<1>8. \/ queue' = queue
      \/ queue' = queue \cup {c} /\ client[c] = "idle" /\ client'[c] = "open"
  BY <1>1, Zenon DEF Connect, Send, Resume, Close
<1>9. HealthyAreKept'
  <2>1. ended \in SUBSET Conns
    BY <1>1, HubIs, Zenon DEF HubState
  <2>2. QED
    BY <2>1, <1>2, <1>6, Zenon DEF HealthyAreKept, PollInv
<1>10. RowsAreSound' /\ WalkInBounds'
  BY <1>2, <1>6, Zenon DEF RowsAreSound, WalkInBounds, PollInv
<1>11. queue' \in SUBSET Conns /\ \A d \in queue' : fd'[d] = None
  BY <1>2, <1>8, Zenon DEF PollInv
<1>12. \A d \in Conns : client'[d] = "idle" => fd'[d] = None /\ d \notin queue'
  BY <1>2, <1>6, <1>8, Zenon DEF PollInv
<1>13. kind' \in [Conns -> {"unix", "tcp", "trunk", "ctl"}] /\ rows' \in Seq(Row) /\ ctl_rows' \in Seq(Row)
  BY <1>2, Zenon DEF PollInv
<1>14. QED
  BY <1>4, <1>5, <1>6, <1>7, <1>9, <1>10, <1>11, <1>12, <1>13, Zenon DEF PollInv

LEMMA InitPollInv == Init => PollInv
<1>1. SUFFICES ASSUME Init PROVE PollInv
  BY Zenon
<1>2. MaxCtl \in Nat /\ MaxMsgs \in Nat /\ None \notin Conns
  BY ConnsAssumption, Zenon
<1>3. /\ Hub.fd = [c \in Conns |-> None] /\ Hub.peers = <<>> /\ Hub.ctl = [k \in 1 .. MaxCtl |-> None]
      /\ Hub.quit = {} /\ Hub.up = None /\ Hub.ended = {}
  BY <1>1, Zenon DEF Init, Hub
<1>4. Hub \in HubState
  <2>1. /\ fd \in [Conns -> Nat \cup {None}] /\ want \in [Conns -> BOOLEAN] /\ msgs \in [Conns -> Nat]
        /\ ctl \in [1 .. MaxCtl -> Conns \cup {None}] /\ quit \in SUBSET Conns
        /\ up \in Conns \cup {None} /\ ended \in SUBSET Conns
    BY <1>1, Zenon DEF Init
  <2>2. peers \in Seq(Conns \cup {None})
    BY <1>1 DEF Init
  <2> QED
    BY <2>1, <2>2, Zenon DEF Hub, HubState
<1>5. Agrees(Hub)
  BY <1>2, <1>3, SMTT(30) DEF Agrees, Distinct, Range
<1>6. HealthyAreKept /\ RowsAreSound /\ WalkInBounds
  BY <1>1 DEF Init, HealthyAreKept, RowsAreSound, WalkInBounds
<1>7. kind \in [Conns -> {"unix", "tcp", "trunk", "ctl"}]
  BY <1>1, ConnsAssumption, Zenon DEF Init
<1>8. QED
  BY <1>1, <1>2, <1>4, <1>5, <1>6, <1>7 DEF Init, PollInv

LEMMA NextPollInv == PollInv /\ [Next]_vars => PollInv'
<1>1. SUFFICES ASSUME PollInv, [Next]_vars PROVE PollInv'
  OBVIOUS
<1>2. CASE UNCHANGED vars
  BY <1>1, <1>2, Zenon DEF vars, far, hub, walk, PollInv, Hub, HealthyAreKept, RowsAreSound, WalkInBounds
<1>3. CASE Next
  BY <1>1, <1>3, PollStep, WalkPeerStep, WalkCtlStep, ClientStep, Zenon DEF Next, Loop
<1>4. QED
  BY <1>1, <1>2, <1>3, Zenon

-----------------------------------------------------------------------------
(* The theorems *)

\* The invariant of the main loop: types, tables and descriptors in agreement, sound
\* rows, walks inside the tables.
THEOREM PollInvariant == Spec => []PollInv
BY InitPollInv, NextPollInv, PTL DEF Spec

LEMMA InvAgrees == PollInv => TablesAgree
<1>1. SUFFICES ASSUME PollInv PROVE TablesAgree
  BY Zenon
<1>2. Hub \in HubState /\ Agrees(Hub)
  BY <1>1, Zenon DEF PollInv
<1>3. peers \in Seq(Conns \cup {None}) /\ ctl \in Seq(Conns \cup {None})
  BY <1>2, HubIs, CtlIsSeq, Zenon DEF HubState
<1>4. IsInjective(Open(peers)) /\ IsInjective(Open(ctl))
  BY <1>2, <1>3, HubIs, OpenSlots, Zenon DEF Agrees
<1>5. \A c \in Conns :
        /\ Used(c) <=> c \in Range(peers) \cup Range(ctl)
        /\ \A d \in Conns \ {c} : Used(c) => fd[d] # fd[c]
  BY <1>2, HubIs, Zenon DEF Agrees, Used
<1>6. quit \subseteq Range(ctl) /\ up \in Range(peers) \cup {None}
  BY <1>2, HubIs, Zenon DEF Agrees
<1>7. QED
  BY <1>4, <1>5, <1>6, Zenon DEF TablesAgree

\* For any number of connections and slots, through accepts, closes and stale rows, a
\* connection has a descriptor of its own exactly while it has one slot.
THEOREM TablesAlwaysAgree == Spec => []TablesAgree
BY PollInvariant, InvAgrees, PTL

\* The hub gives up no connection whose other end is open: a row that is stale when the
\* walk comes to it is never applied to a connection that did not hang up.
THEOREM HealthyConnectionsAreKept == Spec => []HealthyAreKept
<1>1. PollInv => HealthyAreKept
  BY Zenon DEF PollInv
<1>2. QED
  BY <1>1, PollInvariant, PTL
=============================================================================
