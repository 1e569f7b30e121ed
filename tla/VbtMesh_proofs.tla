--------------------------- MODULE VbtMesh_proofs ----------------------------
(***************************************************************************)
(* Proofs about hubs joined by trunks, for graphs of any size.             *)
(*                                                                         *)
(* Sections 1 to 5: what a step does to channels, ears and tables, that    *)
(* everything refers to frames that have been sent, that in a tree a frame *)
(* leads away from its source, and which hubs are within reach of one      *)
(* another.                                                                *)
(*                                                                         *)
(* Sections 6 to 9, trees of hubs: a frame only ever moves away from its   *)
(* source (FramesLeadAway), so order and privacy follow from how the cuts  *)
(* of the tree lie.                                                        *)
(*                                                                         *)
(* Sections 10 to 13, how far a frame goes: in any graph of hubs it        *)
(* travels along every walk that does not turn back until its TTL ends, so *)
(* while nothing breaks exactly the nodes within its range hear it; in a   *)
(* tree the same holds of data for the other end of its connection.        *)
(***************************************************************************)
EXTENDS VbtMesh, WellFoundedInduction, TLAPS

-----------------------------------------------------------------------------
(* 1. Types and references *)

Frame == [type : {"adv", "connect", "data"}, src : Nodes, to : Nodes \cup {None}, aa : Nat,
          settled : BOOLEAN]
\* A copy of a frame on a trunk: its number and its TTL.
Copy == Nat \X Nat
Entry == [aa : Nat, a : Nodes \cup {None}, b : Nodes \cup {None}]

MeshTypes ==
  /\ DOMAIN net \subseteq Trunks /\ \A t \in DOMAIN net : net[t][1] \in Hubs /\ net[t][2] \in Hubs
  /\ up \subseteq DOMAIN net /\ attached \subseteq Nodes
  /\ chan \in [Trunks \X Hubs -> Seq(Copy)]
  /\ conns \in [Hubs -> SUBSET Entry]
  /\ log \in Seq(Frame) /\ heard \in [Nodes -> Seq(Nat)] /\ faults \in Nat

\* Who connected, and which connection data belongs to.
LogIsSound ==
  \A k \in DOMAIN log :
    /\ log[k].type = "connect" => log[k].to \in Nodes /\ log[k].to # log[k].src
    /\ log[k].type = "data" => /\ log[k].aa \in DOMAIN log /\ log[log[k].aa].type = "connect"
                               /\ log[k].src \in {log[log[k].aa].src, log[log[k].aa].to}
    /\ log[k].settled => log[k].type = "data"

LEMMA Constants ==
  /\ Home \in [Nodes -> Hubs] /\ FreshTTL \in Nat /\ MaxConns \in Nat /\ None \notin Nodes
  /\ \A t \in Trunks : t # None
BY MeshAssumption, Zenon

\* What is on a trunk is on a trunk that is up, towards one of its ends.
ChannelsAreSound ==
  \A t \in Trunks, h \in Hubs : \A i \in DOMAIN chan[<<t, h>>] :
    /\ t \in up /\ h \in Ends(t)
    /\ chan[<<t, h>>][i][1] \in DOMAIN log /\ chan[<<t, h>>][i][2] \in 0 .. FreshTTL

HeardIsSound == \A n \in Nodes : \A i \in DOMAIN heard[n] : heard[n][i] \in DOMAIN log

\* A route names the ends of its connection or nobody.
RoutesAreSound ==
  \A h \in Hubs : \A c \in conns[h] :
    /\ c.aa \in DOMAIN log /\ log[c.aa].type = "connect"
    /\ c.a \in {log[c.aa].src, None} /\ c.b \in {log[c.aa].to, None}

MeshInv == MeshTypes /\ LogIsSound /\ ChannelsAreSound /\ HeardIsSound /\ RoutesAreSound

-----------------------------------------------------------------------------
(* 2. What a step does to the channels, the ears and the tables *)

\* The frames sent so far stay what they are.
LogKept ==
  \A k \in DOMAIN log : /\ k \in DOMAIN log' /\ log'[k].type = log[k].type /\ log'[k].src = log[k].src
                        /\ log'[k].to = log[k].to /\ log'[k].aa = log[k].aa

\* Where hub h passes a frame from a trunk or a node on to.
OutOf(h, from) == {c \in Trunks \X Hubs : c[1] \in Onward(h, from) /\ c[2] = Far(c[1], h)}

\* Appending to, and taking from, a sequence.
LEMMA AppendAt ==
  ASSUME NEW S, NEW s \in Seq(S), NEW e \in S
  PROVE  /\ Append(s, e) \in Seq(S) /\ DOMAIN Append(s, e) = 1 .. Len(s) + 1 /\ Len(s) \in Nat
         /\ DOMAIN s = 1 .. Len(s) /\ Append(s, e)[Len(s) + 1] = e
         /\ \A i \in DOMAIN s : i \in DOMAIN Append(s, e) /\ Append(s, e)[i] = s[i]
         /\ \A i \in DOMAIN Append(s, e) :
              \/ i \in DOMAIN s /\ Append(s, e)[i] = s[i]
              \/ i = Len(s) + 1 /\ Append(s, e)[i] = e /\ \A j \in DOMAIN Append(s, e) : j <= i
OBVIOUS

LEMMA TailAt ==
  ASSUME NEW S, NEW s \in Seq(S), s # <<>>
  PROVE  /\ Tail(s) \in Seq(S) /\ 1 \in DOMAIN s /\ Head(s) = s[1] /\ DOMAIN s \subseteq Nat
         /\ \A i \in DOMAIN Tail(s) : i + 1 \in DOMAIN s /\ Tail(s)[i] = s[i + 1]
         /\ \A i \in DOMAIN s : i = 1 \/ (i - 1 \in DOMAIN Tail(s) /\ Tail(s)[i - 1] = s[i])
<1>1. /\ Len(s) \in Nat /\ Len(s) >= 1 /\ DOMAIN s = 1 .. Len(s) /\ DOMAIN Tail(s) = 1 .. Len(s) - 1
      /\ \A i \in 1 .. Len(s) - 1 : Tail(s)[i] = s[i + 1]
      /\ Tail(s) \in Seq(S) /\ Head(s) = s[1]
  OBVIOUS
<1>2. \A i \in 1 .. Len(s) : i = 1 \/ (i - 1 \in 1 .. Len(s) - 1 /\ (i - 1) + 1 = i)
  BY <1>1
<1>3. QED
  BY <1>1, <1>2

\* r is s with e at its end; r is s without its first element.
Longer(r, s, e) ==
  \A i \in DOMAIN r : \/ i \in DOMAIN s /\ r[i] = s[i]
                      \/ i \notin DOMAIN s /\ r[i] = e /\ \A j \in DOMAIN r : j <= i
Shorter(r, s) == \A i \in DOMAIN r : i + 1 \in DOMAIN s /\ r[i] = s[i + 1]

\* Facts about numbers, apart from any state.
LEMMA NotBefore ==
  ASSUME NEW i \in Nat, NEW j \in Nat, i < j
  PROVE  ~(j <= i)
OBVIOUS

LEMMA Successors ==
  /\ \A i \in Nat : i > 0 => i + 1 > 1
  /\ \A i, j \in Nat : i < j => i + 1 < j + 1
  /\ \A i \in Nat : i = 0 \/ i > 0
  /\ \A n \in Nat : \A i \in 0 .. n : i = 0 \/ i > 0
OBVIOUS

LEMMA NoIndex == DOMAIN <<>> = {}
OBVIOUS

\* Trunk i of a walk of l trunks, l at most m.
LEMMA OneFurther ==
  ASSUME NEW m \in Nat, NEW l \in 1 .. m, NEW i \in 1 .. l
  PROVE  /\ m - i + 1 > 0 /\ i \in Nat /\ l \in Nat
         /\ i # l => /\ i + 1 \in 1 .. l /\ i + 1 > 1 /\ i + 1 # 1 /\ (i + 1) - 1 = i
                    /\ m - (i + 1) + 1 = (m - i + 1) - 1
OBVIOUS

LEMMA SeqIndex ==
  ASSUME NEW S, NEW s \in Seq(S)
  PROVE  \A i \in DOMAIN s : i \in Nat /\ i > 0
OBVIOUS

LEMMA AppendIsLonger ==
  ASSUME NEW S, NEW s \in Seq(S), NEW e \in S
  PROVE  Longer(Append(s, e), s, e)
BY AppendAt DEF Longer

LEMMA TailIsShorter ==
  ASSUME NEW S, NEW s \in Seq(S), s # <<>>
  PROVE  Shorter(Tail(s), s)
BY TailAt, Zenon DEF Shorter

\* The channels, the ears and the tables after forward_frame has let a frame in.
Forwards(h, src, from, k, ttl, rest) ==
  /\ chan' \in [Trunks \X Hubs -> Seq(Copy)] /\ heard' \in [Nodes -> Seq(Nat)]
  /\ \A t \in Trunks, g \in Hubs :
       chan'[<<t, g>>] = IF <<t, g>> \in OutOf(h, from)
                     THEN Append(rest[<<t, g>>], <<k, NextTTL(from, ttl)>>) ELSE rest[<<t, g>>]
  /\ \A n \in Nodes : heard'[n] = IF n \in Hears(h, src, k) THEN Append(heard[n], k) ELSE heard[n]
  /\ conns' = IF log'[k].type = "connect"
              THEN [conns EXCEPT ![h] = observe_connect_ind(h, src, k)] ELSE conns

LEMMA Forwarded ==
  ASSUME MeshTypes, NEW h \in Hubs, NEW src, NEW from, NEW k \in Nat, NEW ttl,
         NextTTL(from, ttl) \in Nat, NEW rest \in [Trunks \X Hubs -> Seq(Copy)],
         Admitted(from, ttl), forward_frame(h, src, from, k, ttl, rest)
  PROVE  Forwards(h, src, from, k, ttl, rest)
<1> DEFINE new == <<k, NextTTL(from, ttl)>>
<1>1. /\ chan' = [c \in DOMAIN rest |->
                    IF c[1] \in Onward(h, from) /\ c[2] = Far(c[1], h) THEN Append(rest[c], new) ELSE rest[c]]
      /\ conns' = IF log'[k].type = "connect"
                  THEN [conns EXCEPT ![h] = observe_connect_ind(h, src, k)] ELSE conns
      /\ heard' = [n \in Nodes |-> IF n \in Hears(h, src, k) THEN Append(heard[n], k) ELSE heard[n]]
  BY Zenon DEF forward_frame
<1>2. new \in Copy
  BY Zenon DEF Copy
<1> HIDE DEF new
<1>3. \A c \in Trunks \X Hubs : Append(rest[c], new) \in Seq(Copy) /\ rest[c] \in Seq(Copy)
  BY <1>2
<1>4. chan' \in [Trunks \X Hubs -> Seq(Copy)]
  BY <1>1, <1>3, Zenon
<1>5. \A t \in Trunks, g \in Hubs :
        chan'[<<t, g>>] = IF <<t, g>> \in OutOf(h, from) THEN Append(rest[<<t, g>>], new) ELSE rest[<<t, g>>]
  BY <1>1, Zenon DEF OutOf
<1>6. heard' \in [Nodes -> Seq(Nat)]
  <2>1. \A n \in Nodes : heard[n] \in Seq(Nat) /\ Append(heard[n], k) \in Seq(Nat)
    BY DEF MeshTypes
  <2>2. QED
    BY <1>1, <2>1, Zenon
<1>7. \A n \in Nodes : heard'[n] = IF n \in Hears(h, src, k) THEN Append(heard[n], k) ELSE heard[n]
  BY <1>1, Zenon
<1>8. QED
  BY <1>1, <1>4, <1>5, <1>6, <1>7, Zenon DEF new, Forwards

\* A node's frame gets the next number and leaves its hub on every trunk.
Sent(n, type, to, aa, k) ==
  /\ k \in Nat /\ DOMAIN log' = DOMAIN log \cup {k} /\ \A j \in DOMAIN log : j \in Nat /\ j < k
  /\ log' \in Seq(Frame) /\ \A j \in DOMAIN log : log'[j] = log[j]
  /\ log'[k].type = type /\ log'[k].src = n /\ log'[k].to = to /\ log'[k].aa = aa
  /\ log'[k].settled => /\ type = "data" /\ Quiet /\ up = DOMAIN net
                        /\ \A m \in {log[aa].src, log[aa].to} :
                             m \in attached /\ Entries(Home[m], aa) # {}
  /\ forward_frame(Home[n], n, None, k, 0, chan)
  /\ n \in attached /\ UNCHANGED <<net, up, attached, faults>>

LEMMA SendsDoes ==
  ASSUME MeshInv, NEW n \in Nodes, NEW type \in {"adv", "connect", "data"},
         NEW to \in Nodes \cup {None}, NEW aa \in Nat, Sends(n, type, to, aa)
  PROVE  Sent(n, type, to, aa, Len(log) + 1)
<1> DEFINE k == Len(log) + 1
           st == /\ type = "data" /\ Quiet /\ up = DOMAIN net
                 /\ \A m \in {log[aa].src, log[aa].to} : m \in attached /\ Entries(Home[m], aa) # {}
           f == [type |-> type, src |-> n, to |-> to, aa |-> aa, settled |-> st]
<1>1. /\ log' = Append(log, f) /\ forward_frame(Home[n], n, None, Len(log'), 0, chan)
      /\ n \in attached /\ UNCHANGED <<net, up, attached, faults>>
  BY Zenon DEF Sends
<1>2. log \in Seq(Frame)
  BY Zenon DEF MeshInv, MeshTypes
<1>3. /\ f.type = type /\ f.src = n /\ f.to = to /\ f.aa = aa
      /\ f.settled => st
  BY Zenon
<1>4. f \in Frame
  <2>1. st \in BOOLEAN
    BY Zenon
  <2> HIDE DEF st
  <2>2. QED
    BY <2>1, Zenon DEF Frame
<1> HIDE DEF f
<1>5. /\ log' \in Seq(Frame) /\ Len(log') = k /\ k \in Nat /\ DOMAIN log' = DOMAIN log \cup {k}
      /\ log'[k] = f
      /\ \A j \in DOMAIN log : j \in Nat /\ j < k /\ log'[j] = log[j]
  BY <1>1, <1>2, <1>4
<1>6. QED
  BY <1>1, <1>3, <1>5, Zenon DEF Sent

\* What a hub reads is the first frame of a trunk that is up.
LEMMA ReadsDoes ==
  ASSUME MeshInv, NEW t \in Trunks, NEW h \in Hubs, HubReads(t, h)
  PROVE  LET f == chan[<<t, h>>][1]
         IN  /\ t \in up /\ t \in DOMAIN net /\ h \in Ends(t) /\ 1 \in DOMAIN chan[<<t, h>>]
             /\ f[1] \in DOMAIN log /\ f[1] \in Nat /\ f[2] \in 0 .. FreshTTL
             /\ [chan EXCEPT ![<<t, h>>] = Tail(@)] \in [Trunks \X Hubs -> Seq(Copy)]
             /\ \A s \in Trunks, g \in Hubs :
                  [chan EXCEPT ![<<t, h>>] = Tail(@)][<<s, g>>]
                    = IF <<s, g>> = <<t, h>> THEN Tail(chan[<<s, g>>]) ELSE chan[<<s, g>>]
             /\ forward_frame(h, None, t, f[1], f[2], [chan EXCEPT ![<<t, h>>] = Tail(@)])
             /\ UNCHANGED <<net, up, attached, log, faults>>
<1>1. chan \in [Trunks \X Hubs -> Seq(Copy)] /\ log \in Seq(Frame) /\ up \subseteq DOMAIN net
  BY Zenon DEF MeshInv, MeshTypes
<1>2. t \in up /\ chan[<<t, h>>] # <<>> /\ UNCHANGED <<net, up, attached, log, faults>>
      /\ forward_frame(h, None, t, Head(chan[<<t, h>>])[1], Head(chan[<<t, h>>])[2], [chan EXCEPT ![<<t, h>>] = Tail(@)])
  BY Zenon DEF HubReads
<1>3. <<t, h>> \in Trunks \X Hubs /\ chan[<<t, h>>] \in Seq(Copy)
  BY <1>1, Zenon
<1>4. Head(chan[<<t, h>>]) = chan[<<t, h>>][1] /\ 1 \in DOMAIN chan[<<t, h>>] /\ Tail(chan[<<t, h>>]) \in Seq(Copy)
  BY <1>2, <1>3, TailAt, Zenon
<1>5. h \in Ends(t) /\ chan[<<t, h>>][1][1] \in DOMAIN log /\ chan[<<t, h>>][1][2] \in 0 .. FreshTTL
  BY <1>4, Zenon DEF MeshInv, ChannelsAreSound
<1>6. chan[<<t, h>>][1][1] \in Nat
  <2>1. DOMAIN log \subseteq Nat
    BY <1>1
  <2>2. QED
    BY <1>5, <2>1, Zenon
<1>7. [chan EXCEPT ![<<t, h>>] = Tail(@)] \in [Trunks \X Hubs -> Seq(Copy)]
  BY <1>1, <1>3, <1>4, Zenon
<1>8. \A s \in Trunks, g \in Hubs :
        [chan EXCEPT ![<<t, h>>] = Tail(@)][<<s, g>>]
          = IF <<s, g>> = <<t, h>> THEN Tail(chan[<<s, g>>]) ELSE chan[<<s, g>>]
  BY <1>1, Zenon
<1>9. QED
  BY <1>1, <1>2, <1>4, <1>5, <1>6, <1>7, <1>8, Zenon

NodesAt(h) == {n \in Nodes : Home[n] = h}

\* Only nodes of the hub hear what it forwards.
LEMMA HearsAtHub ==
  ASSUME MeshTypes, NEW h, NEW src, NEW k
  PROVE  Hears(h, src, k) \subseteq NodesAt(h) \cap attached
BY Zenon DEF Hears, Locals, NodesAt, MeshTypes

\* The two ends of a trunk.
LEMMA EndsAre ==
  ASSUME MeshTypes, NEW t \in DOMAIN net, NEW h \in Ends(t)
  PROVE  /\ h \in Hubs /\ Far(t, h) \in Hubs /\ t \in Trunks /\ Far(t, h) \in Ends(t)
         /\ \/ net[t][1] = h /\ net[t][2] = Far(t, h)
            \/ net[t][2] = h /\ net[t][1] = Far(t, h)
BY Zenon DEF MeshTypes, Ends, Far

LEMMA OutIs ==
  ASSUME MeshTypes, NEW h, NEW from, NEW t \in Trunks, NEW g \in Hubs, <<t, g>> \in OutOf(h, from)
  PROVE  t \in DOMAIN net /\ t \in up /\ t # from /\ h \in Ends(t) /\ g = Far(t, h) /\ g \in Ends(t)
<1>1. t \in DOMAIN net /\ t \in up /\ t # from /\ h \in Ends(t) /\ g = Far(t, h)
  BY Zenon DEF OutOf, Onward, MeshTypes
<1>2. QED
  BY <1>1, EndsAre, Zenon

-----------------------------------------------------------------------------
(* 3. Types and references are kept *)

\* What forward_frame appends refers to a frame that has been sent.
LEMMA ForwardKeeps ==
  ASSUME MeshInv, NEW h \in Hubs, NEW src \in Nodes \cup {None}, NEW from, NEW k \in DOMAIN log', NEW ttl,
         NextTTL(from, ttl) \in 0 .. FreshTTL, NEW rest \in [Trunks \X Hubs -> Seq(Copy)],
         \A t \in Trunks, g \in Hubs : \A i \in DOMAIN rest[<<t, g>>] :
           /\ t \in up /\ g \in Ends(t)
           /\ rest[<<t, g>>][i][1] \in DOMAIN log /\ rest[<<t, g>>][i][2] \in 0 .. FreshTTL,
         Forwards(h, src, from, k, ttl, rest), src \in {log'[k].src, None},
         log' \in Seq(Frame), LogIsSound', LogKept, UNCHANGED <<net, up, attached, faults>>
  PROVE  MeshInv'
<1> DEFINE new == <<k, NextTTL(from, ttl)>>
<1>1. MeshTypes
  BY Zenon DEF MeshInv
<1>2. k \in Nat /\ DOMAIN log \subseteq DOMAIN log' /\ FreshTTL \in Nat
  <2>1. k \in Nat
    BY SeqIndex, Zenon
  <2>2. QED
    BY <2>1, Constants, Zenon DEF LogKept
<1>3. /\ chan' \in [Trunks \X Hubs -> Seq(Copy)] /\ heard' \in [Nodes -> Seq(Nat)]
      /\ \A t \in Trunks, g \in Hubs :
           chan'[<<t, g>>] = IF <<t, g>> \in OutOf(h, from) THEN Append(rest[<<t, g>>], new) ELSE rest[<<t, g>>]
      /\ \A n \in Nodes : heard'[n] = IF n \in Hears(h, src, k) THEN Append(heard[n], k) ELSE heard[n]
  BY Zenon DEF Forwards
<1>4. \A t \in DOMAIN net : Ends(t)' = Ends(t)
  BY Zenon DEF Ends
<1>5. new \in Copy /\ new[1] = k /\ new[2] = NextTTL(from, ttl)
  BY <1>2 DEF Copy
<1> HIDE DEF new
<1>6. ChannelsAreSound'
  <2>1. SUFFICES ASSUME NEW t \in Trunks, NEW g \in Hubs, NEW i \in DOMAIN chan'[<<t, g>>]
                 PROVE  /\ t \in up /\ g \in Ends(t)
                        /\ chan'[<<t, g>>][i][1] \in DOMAIN log' /\ chan'[<<t, g>>][i][2] \in 0 .. FreshTTL
    BY <1>1, <1>4, Zenon DEF ChannelsAreSound, MeshTypes
  <2>2. rest[<<t, g>>] \in Seq(Copy)
    BY Zenon
  <2>3. CASE i \in DOMAIN rest[<<t, g>>] /\ chan'[<<t, g>>][i] = rest[<<t, g>>][i]
    BY <1>2, <2>3, Zenon
  <2>4. CASE ~(i \in DOMAIN rest[<<t, g>>] /\ chan'[<<t, g>>][i] = rest[<<t, g>>][i])
    <3>1. <<t, g>> \in OutOf(h, from) /\ chan'[<<t, g>>] = Append(rest[<<t, g>>], new)
      BY <1>3, <2>4, Zenon
    <3>2. Longer(chan'[<<t, g>>], rest[<<t, g>>], new)
      BY <1>5, <2>2, <3>1, AppendIsLonger, Zenon
    <3>3. chan'[<<t, g>>][i] = new
      BY <2>4, <3>2, Zenon DEF Longer
    <3>4. t \in up /\ g \in Ends(t)
      BY <1>1, <3>1, OutIs, Zenon
    <3>5. QED
      BY <1>5, <3>3, <3>4, Zenon
  <2>5. QED
    BY <2>3, <2>4, Zenon
<1>7. HeardIsSound'
  <2>1. SUFFICES ASSUME NEW n \in Nodes, NEW i \in DOMAIN heard'[n]
                 PROVE  heard'[n][i] \in DOMAIN log'
    BY Zenon DEF HeardIsSound
  <2>2. heard[n] \in Seq(Nat)
    BY <1>1, Zenon DEF MeshTypes
  <2>3. CASE i \in DOMAIN heard[n] /\ heard'[n][i] = heard[n][i]
    BY <1>2, <2>3, Zenon DEF MeshInv, HeardIsSound
  <2>4. CASE ~(i \in DOMAIN heard[n] /\ heard'[n][i] = heard[n][i])
    <3>1. heard'[n] = Append(heard[n], k)
      BY <1>3, <2>4, Zenon
    <3>2. Longer(heard'[n], heard[n], k)
      BY <1>2, <2>2, <3>1, AppendIsLonger, Zenon
    <3>3. QED
      BY <2>4, <3>2, Zenon DEF Longer
  <2>5. QED
    BY <2>3, <2>4, Zenon
<1>8. conns' \in [Hubs -> SUBSET Entry] /\ RoutesAreSound'
  <2>1. conns \in [Hubs -> SUBSET Entry]
    BY <1>1, Zenon DEF MeshTypes
  <2>2. \A g \in Hubs : \A c \in conns[g] :
          /\ c.aa \in DOMAIN log' /\ log'[c.aa].type = "connect"
          /\ c.a \in {log'[c.aa].src, None} /\ c.b \in {log'[c.aa].to, None}
    BY Zenon DEF MeshInv, RoutesAreSound, LogKept
  <2>3. CASE log'[k].type # "connect"
    <3>1. conns' = conns
      BY <2>3, Zenon DEF Forwards
    <3>2. QED
      BY <2>1, <2>2, <3>1, Zenon DEF RoutesAreSound
  <2>4. CASE log'[k].type = "connect"
    <3> DEFINE b == IF Home[log'[k].to] = h THEN log'[k].to ELSE None
               e == [aa |-> k, a |-> src, b |-> b]
    <3>1. log'[k].to \in Nodes
      BY <2>4, Zenon DEF LogIsSound
    <3>2. b \in {log'[k].to, None} /\ b \in Nodes \cup {None}
      BY <3>1, Zenon
    <3>3. observe_connect_ind(h, src, k) \subseteq conns[h] \cup {e}
      BY Zenon DEF observe_connect_ind
    <3> HIDE DEF b
    <3>4. e \in Entry /\ e.aa = k /\ e.a = src /\ e.b = b
      BY <1>2, <3>2, Zenon DEF Entry
    <3> HIDE DEF e
    <3>5. conns' = [conns EXCEPT ![h] = observe_connect_ind(h, src, k)]
      BY <2>4, Zenon DEF Forwards
    <3>6. \A g \in Hubs : conns'[g] \subseteq conns[g] \cup {e}
      BY <2>1, <3>3, <3>5, Zenon
    <3>7. conns' \in [Hubs -> SUBSET Entry]
      BY <2>1, <3>3, <3>4, <3>5, Zenon
    <3>8. /\ e.aa \in DOMAIN log' /\ log'[e.aa].type = "connect"
          /\ e.a \in {log'[e.aa].src, None} /\ e.b \in {log'[e.aa].to, None}
      BY <2>4, <3>2, <3>4, Zenon
    <3>9. QED
      BY <2>2, <3>6, <3>7, <3>8, Zenon DEF RoutesAreSound
  <2>5. QED
    BY <2>3, <2>4, Zenon
<1>9. MeshTypes'
  BY <1>1, <1>3, <1>8, Zenon DEF MeshTypes
<1>10. QED
  BY <1>6, <1>7, <1>8, <1>9, Zenon DEF MeshInv

\* What a node sends, and on which connection.
SendStep(n, type, to, aa) ==
  /\ Sends(n, type, to, aa)
  /\ type = "connect" => to \in Nodes /\ to # n
  /\ type = "data" => aa \in DOMAIN log /\ log[aa].type = "connect" /\ n \in {log[aa].src, log[aa].to}

LEMMA SendKeeps ==
  ASSUME MeshInv, NEW n \in Nodes, NEW type \in {"adv", "connect", "data"},
         NEW to \in Nodes \cup {None}, NEW aa \in Nat, SendStep(n, type, to, aa)
  PROVE  /\ MeshInv' /\ LogKept /\ net' = net
         /\ Forwards(Home[n], n, None, Len(log) + 1, 0, chan)
<1> DEFINE k == Len(log) + 1
<1>1. /\ k \in Nat /\ DOMAIN log' = DOMAIN log \cup {k} /\ \A j \in DOMAIN log : j \in Nat /\ j < k
      /\ log' \in Seq(Frame) /\ \A j \in DOMAIN log : log'[j] = log[j]
      /\ log'[k].type = type /\ log'[k].src = n /\ log'[k].to = to /\ log'[k].aa = aa
      /\ log'[k].settled => type = "data"
      /\ forward_frame(Home[n], n, None, k, 0, chan)
      /\ UNCHANGED <<net, up, attached, faults>>
  <2>1. Sent(n, type, to, aa, Len(log) + 1)
    BY SendsDoes, Zenon DEF SendStep
  <2>2. QED
    BY <2>1, Zenon DEF Sent
<1> HIDE DEF k
<1>2. LogKept
  BY <1>1, Zenon DEF LogKept
<1>3. /\ type = "connect" => to \in Nodes /\ to # n
      /\ type = "data" => aa \in DOMAIN log /\ log[aa].type = "connect" /\ n \in {log[aa].src, log[aa].to}
  BY Zenon DEF SendStep
<1>4. LogIsSound'
  <2>1. SUFFICES ASSUME NEW j \in DOMAIN log'
                 PROVE  /\ log'[j].type = "connect" => log'[j].to \in Nodes /\ log'[j].to # log'[j].src
                        /\ log'[j].type = "data" => /\ log'[j].aa \in DOMAIN log'
                                                    /\ log'[log'[j].aa].type = "connect"
                                                    /\ log'[j].src \in {log'[log'[j].aa].src, log'[log'[j].aa].to}
                        /\ log'[j].settled => log'[j].type = "data"
    BY Zenon DEF LogIsSound
  <2>2. CASE j = k
    BY <1>1, <1>3, <2>2, Zenon
  <2>3. CASE j # k
    <3>1. j \in DOMAIN log /\ log'[j] = log[j]
      BY <1>1, <2>1, <2>3, Zenon
    <3>2. /\ log[j].type = "connect" => log[j].to \in Nodes /\ log[j].to # log[j].src
          /\ log[j].type = "data" => /\ log[j].aa \in DOMAIN log /\ log[log[j].aa].type = "connect"
                                     /\ log[j].src \in {log[log[j].aa].src, log[log[j].aa].to}
          /\ log[j].settled => log[j].type = "data"
      BY <3>1, Zenon DEF MeshInv, LogIsSound
    <3>3. QED
      BY <1>1, <3>1, <3>2, Zenon
  <2>4. QED
    BY <2>2, <2>3, Zenon
<1>5. /\ MeshTypes /\ chan \in [Trunks \X Hubs -> Seq(Copy)] /\ ChannelsAreSound /\ Home[n] \in Hubs
      /\ NextTTL(None, 0) = FreshTTL /\ FreshTTL \in Nat /\ Admitted(None, 0)
  BY Constants, Zenon DEF MeshInv, MeshTypes, NextTTL, Admitted
<1>6. Forwards(Home[n], n, None, k, 0, chan)
  BY <1>1, <1>5, Forwarded, Zenon
<1>7. MeshInv'
  <2>1. NextTTL(None, 0) \in 0 .. FreshTTL /\ k \in DOMAIN log' /\ n \in {log'[k].src, None}
    BY <1>1, <1>5
  <2>2. \A t \in Trunks, g \in Hubs : \A i \in DOMAIN chan[<<t, g>>] :
           /\ t \in up /\ g \in Ends(t)
           /\ chan[<<t, g>>][i][1] \in DOMAIN log /\ chan[<<t, g>>][i][2] \in 0 .. FreshTTL
    BY <1>5, Zenon DEF ChannelsAreSound
  <2>3. UNCHANGED <<net, up, attached, faults>> /\ log' \in Seq(Frame)
    BY <1>1, Zenon
  <2>4. QED
    BY <1>2, <1>4, <1>5, <1>6, <2>1, <2>2, <2>3, ForwardKeeps, Zenon
<1>8. QED
  BY <1>1, <1>2, <1>6, <1>7, Zenon DEF k

\* The channels without the frame that hub h reads from trunk t.
Rest(t, h) == [chan EXCEPT ![<<t, h>>] = Tail(@)]

LEMMA ReadRest ==
  ASSUME MeshInv, NEW t \in Trunks, NEW h \in Hubs, HubReads(t, h)
  PROVE  /\ Rest(t, h) \in [Trunks \X Hubs -> Seq(Copy)]
         /\ \A c \in Trunks \X Hubs : IF c = <<t, h>> THEN Shorter(Rest(t, h)[c], chan[c]) ELSE Rest(t, h)[c] = chan[c]
         /\ \A s \in Trunks, g \in Hubs : \A i \in DOMAIN Rest(t, h)[<<s, g>>] :
              /\ s \in up /\ g \in Ends(s)
              /\ Rest(t, h)[<<s, g>>][i][1] \in DOMAIN log /\ Rest(t, h)[<<s, g>>][i][2] \in 0 .. FreshTTL
<1>1. chan \in [Trunks \X Hubs -> Seq(Copy)] /\ <<t, h>> \in Trunks \X Hubs /\ chan[<<t, h>>] # <<>>
  BY Zenon DEF MeshInv, MeshTypes, HubReads
<1>2. chan[<<t, h>>] \in Seq(Copy)
  BY <1>1, Zenon
<1>3. Shorter(Tail(chan[<<t, h>>]), chan[<<t, h>>]) /\ Tail(chan[<<t, h>>]) \in Seq(Copy)
  BY <1>1, <1>2, TailIsShorter, TailAt, Zenon
<1>4. Rest(t, h) \in [Trunks \X Hubs -> Seq(Copy)]
  BY <1>1, <1>3, Zenon DEF Rest
<1>5. \A c \in Trunks \X Hubs : IF c = <<t, h>> THEN Shorter(Rest(t, h)[c], chan[c]) ELSE Rest(t, h)[c] = chan[c]
  BY <1>1, <1>3, Zenon DEF Rest
<1>6. ASSUME NEW s \in Trunks, NEW g \in Hubs, NEW i \in DOMAIN Rest(t, h)[<<s, g>>]
      PROVE  \E j \in DOMAIN chan[<<s, g>>] : Rest(t, h)[<<s, g>>][i] = chan[<<s, g>>][j]
  BY <1>5, Zenon DEF Shorter
<1>7. ASSUME NEW s \in Trunks, NEW g \in Hubs, NEW i \in DOMAIN Rest(t, h)[<<s, g>>]
      PROVE  /\ s \in up /\ g \in Ends(s)
             /\ Rest(t, h)[<<s, g>>][i][1] \in DOMAIN log /\ Rest(t, h)[<<s, g>>][i][2] \in 0 .. FreshTTL
  BY <1>6 DEF MeshInv, ChannelsAreSound
<1>8. QED
  BY <1>4, <1>5, <1>7, Zenon

LEMMA ReadKeeps ==
  ASSUME MeshInv, NEW t \in Trunks, NEW h \in Hubs, HubReads(t, h)
  PROVE  LET k == chan[<<t, h>>][1][1]
             ttl == chan[<<t, h>>][1][2]
         IN  /\ MeshInv' /\ LogKept /\ net' = net
             /\ ttl \in 0 .. FreshTTL
             /\ ttl = 0 => chan' = Rest(t, h) /\ UNCHANGED <<conns, heard>>
             /\ ttl > 0 => Forwards(h, None, t, k, ttl, Rest(t, h)) /\ NextTTL(t, ttl) = ttl - 1
<1> DEFINE k == chan[<<t, h>>][1][1]
           ttl == chan[<<t, h>>][1][2]
<1>1. /\ k \in DOMAIN log /\ k \in Nat /\ ttl \in 0 .. FreshTTL
      /\ forward_frame(h, None, t, k, ttl, Rest(t, h)) /\ UNCHANGED <<net, up, attached, log, faults>>
  BY ReadsDoes, Zenon DEF Rest
<1>2. /\ Rest(t, h) \in [Trunks \X Hubs -> Seq(Copy)]
      /\ \A s \in Trunks, g \in Hubs : \A i \in DOMAIN Rest(t, h)[<<s, g>>] :
           /\ s \in up /\ g \in Ends(s)
           /\ Rest(t, h)[<<s, g>>][i][1] \in DOMAIN log /\ Rest(t, h)[<<s, g>>][i][2] \in 0 .. FreshTTL
  BY ReadRest, Zenon
<1>3. t # None /\ FreshTTL \in Nat /\ MeshTypes
  BY Constants, Zenon DEF MeshInv
<1> HIDE DEF k, ttl
<1>4. LogKept /\ LogIsSound' /\ log' \in Seq(Frame)
  BY <1>1, Zenon DEF LogKept, MeshInv, LogIsSound, MeshTypes
<1>5. CASE ttl = 0
  <2>1. chan' = Rest(t, h) /\ UNCHANGED <<conns, heard>>
    BY <1>1, <1>3, <1>5 DEF forward_frame, Admitted
  <2>2. MeshTypes' /\ HeardIsSound' /\ RoutesAreSound'
    BY <1>1, <1>2, <2>1, Zenon DEF MeshInv, MeshTypes, HeardIsSound, RoutesAreSound
  <2>3. ChannelsAreSound'
    BY <1>1, <1>2, <2>1, Zenon DEF ChannelsAreSound, Ends
  <2>4. QED
    BY <1>1, <1>4, <1>5, <2>1, <2>2, <2>3 DEF MeshInv, k, ttl
<1>6. CASE ttl # 0
  <2>1. ttl \in Nat /\ ttl > 0 /\ ttl <= FreshTTL
    BY <1>1, <1>3, <1>6
  <2>2. NextTTL(t, ttl) = ttl - 1 /\ NextTTL(t, ttl) \in 0 .. FreshTTL /\ NextTTL(t, ttl) \in Nat /\ Admitted(t, ttl)
    BY <1>3, <2>1 DEF NextTTL, Admitted
  <2>3. Forwards(h, None, t, k, ttl, Rest(t, h))
    BY <1>1, <1>2, <1>3, <2>2, Forwarded, Zenon
  <2>4. UNCHANGED <<net, up, attached, faults>> /\ k \in DOMAIN log' /\ None \in {log'[k].src, None} /\ None \in Nodes \cup {None}
    BY <1>1, Zenon
  <2>5. MeshInv'
    BY <1>2, <1>4, <2>2, <2>3, <2>4, ForwardKeeps, Zenon
  <2>6. QED
    BY <1>1, <1>4, <1>6, <2>1, <2>2, <2>3, <2>5, Zenon DEF k, ttl
<1>7. QED
  BY <1>5, <1>6, Zenon

\* Steps that mend: a node or a trunk comes back.
Mends ==
  /\ UNCHANGED <<net, chan, conns, log, heard, faults>>
  /\ up \subseteq up' /\ up' \subseteq DOMAIN net /\ attached \subseteq attached' /\ attached' \subseteq Nodes

\* Steps that break: what is on a trunk is lost, a hub forgets the routes of a node.
Breaks ==
  /\ UNCHANGED <<net, heard>> /\ faults' = faults + 1 /\ log' = Unsettle(log)
  /\ \A c \in Trunks \X Hubs : chan'[c] = chan[c] \/ chan'[c] = <<>>
  /\ \A t \in up \ up', h \in Hubs : chan'[<<t, h>>] = <<>>
  /\ \A h \in Hubs : conns'[h] \subseteq conns[h]
  /\ up' \subseteq up /\ attached' \subseteq attached
  /\ chan' \in [Trunks \X Hubs -> Seq(Copy)] /\ conns' \in [Hubs -> SUBSET Entry]

LEMMA NextIs ==
  ASSUME MeshInv, [Next]_vars
  PROVE  \/ \E n \in Nodes, type \in {"adv", "connect", "data"}, to \in Nodes \cup {None}, aa \in Nat :
              SendStep(n, type, to, aa)
         \/ \E t \in Trunks, h \in Hubs : HubReads(t, h)
         \/ Mends \/ Breaks
<1>1. /\ chan \in [Trunks \X Hubs -> Seq(Copy)] /\ conns \in [Hubs -> SUBSET Entry] /\ log \in Seq(Frame)
      /\ up \subseteq DOMAIN net /\ attached \subseteq Nodes /\ DOMAIN net \subseteq Trunks
  BY Zenon DEF MeshInv, MeshTypes
<1>2. Home \in [Nodes -> Hubs]
  BY Constants, Zenon
<1>3. DOMAIN log \subseteq Nat
  BY <1>1
<1>4. ASSUME NEW n \in Nodes, Advertise(n) PROVE SendStep(n, "adv", None, 0)
  BY <1>4, Zenon DEF Advertise, SendStep
<1>5. ASSUME NEW n \in Nodes, NEW m \in Nodes \ {n}, Connect(n, m) PROVE SendStep(n, "connect", m, 0)
  BY <1>5, Zenon DEF Connect, SendStep
<1>6. ASSUME NEW n \in Nodes, NEW aa \in DOMAIN log, Data(n, aa) PROVE SendStep(n, "data", None, aa)
  BY <1>6, Zenon DEF Data, SendStep
<1>7. ASSUME NEW n \in Nodes, Leave(n) PROVE Breaks
  BY <1>1, <1>2, <1>7, Zenon DEF Leave, Breaks, Fault, conns_drop_node
<1>8. ASSUME NEW n \in Nodes, Rejoin(n) PROVE Mends
  BY <1>1, <1>8, Zenon DEF Rejoin, Mends
<1>9. ASSUME NEW t \in Trunks, TrunkBreaks(t) PROVE Breaks
  <2>1. /\ t \in up /\ faults' = faults + 1 /\ up' = up \ {t} /\ log' = Unsettle(log)
        /\ UNCHANGED <<net, attached, conns, heard>>
        /\ chan' = [c \in Trunks \X Hubs |-> IF c[1] = t THEN <<>> ELSE chan[c]]
    BY <1>1, <1>9, Zenon DEF TrunkBreaks, Fault
  <2>2. <<>> \in Seq(Copy)
    OBVIOUS
  <2>3. chan' \in [Trunks \X Hubs -> Seq(Copy)]
    BY <1>1, <2>1, <2>2, Zenon
  <2>4. /\ \A c \in Trunks \X Hubs : chan'[c] = chan[c] \/ chan'[c] = <<>>
        /\ \A s \in up \ up', h \in Hubs : chan'[<<s, h>>] = <<>>
    BY <1>1, <2>1, Zenon
  <2>5. QED
    BY <1>1, <2>1, <2>3, <2>4, Zenon DEF Breaks
<1>10. ASSUME NEW t \in Trunks, TrunkRedials(t) PROVE Mends
  BY <1>1, <1>10, Zenon DEF TrunkRedials, Mends
<1>11. ASSUME UNCHANGED vars PROVE Mends
  BY <1>1, <1>11, Zenon DEF vars, Mends
<1>12. QED
  BY <1>3, <1>4, <1>5, <1>6, <1>7, <1>8, <1>9, <1>10, <1>11, Zenon DEF Next, Reads

LEMMA UnsettleIs ==
  ASSUME log \in Seq(Frame), log' = Unsettle(log)
  PROVE  /\ log' \in Seq(Frame) /\ DOMAIN log' = DOMAIN log
         /\ \A k \in DOMAIN log : /\ log'[k].type = log[k].type /\ log'[k].src = log[k].src
                                  /\ log'[k].to = log[k].to /\ log'[k].aa = log[k].aa /\ ~log'[k].settled
<1>1. Len(log) \in Nat /\ log \in [1 .. Len(log) -> Frame]
  OBVIOUS
<1>2. log' = [k \in 1 .. Len(log) |-> [log[k] EXCEPT !.settled = FALSE]]
  BY <1>1, Zenon DEF Unsettle
<1>3. ASSUME NEW f \in Frame
      PROVE  /\ [f EXCEPT !.settled = FALSE] \in Frame
             /\ [f EXCEPT !.settled = FALSE].type = f.type /\ [f EXCEPT !.settled = FALSE].src = f.src
             /\ [f EXCEPT !.settled = FALSE].to = f.to /\ [f EXCEPT !.settled = FALSE].aa = f.aa
             /\ ~[f EXCEPT !.settled = FALSE].settled
  BY Zenon DEF Frame
<1> DEFINE g == [f \in Frame |-> [f EXCEPT !.settled = FALSE]]
<1>4. \A f \in Frame : /\ g[f] \in Frame /\ g[f].type = f.type /\ g[f].src = f.src
                       /\ g[f].to = f.to /\ g[f].aa = f.aa /\ ~g[f].settled
  BY <1>3, Zenon
<1>5. log' = [k \in 1 .. Len(log) |-> g[log[k]]]
  BY <1>1, <1>2, Zenon
<1> HIDE DEF g
<1>6. log' \in [1 .. Len(log) -> Frame]
  BY <1>1, <1>4, <1>5, Zenon
<1>7. log' \in Seq(Frame)
  BY <1>1, <1>6
<1>8. QED
  BY <1>1, <1>4, <1>5, <1>7

LEMMA QuietKeeps ==
  ASSUME MeshInv, Mends \/ Breaks
  PROVE  MeshInv' /\ LogKept /\ net' = net
<1>1. CASE Mends
  <2>1. LogKept
    BY <1>1, Zenon DEF Mends, LogKept
  <2>2. ChannelsAreSound'
    BY <1>1, Zenon DEF MeshInv, ChannelsAreSound, Mends, Ends
  <2>3. MeshTypes' /\ LogIsSound' /\ HeardIsSound' /\ RoutesAreSound'
    BY <1>1 DEF MeshInv, Mends, MeshTypes, LogIsSound, HeardIsSound, RoutesAreSound
  <2>4. QED
    BY <1>1, <2>1, <2>2, <2>3, Zenon DEF MeshInv, Mends
<1>2. CASE Breaks
  <2>1. /\ log' \in Seq(Frame) /\ DOMAIN log' = DOMAIN log
        /\ \A k \in DOMAIN log : /\ log'[k].type = log[k].type /\ log'[k].src = log[k].src
                                 /\ log'[k].to = log[k].to /\ log'[k].aa = log[k].aa /\ ~log'[k].settled
    BY <1>2, UnsettleIs, Zenon DEF Breaks, MeshInv, MeshTypes
  <2>2. LogKept
    BY <2>1, Zenon DEF LogKept
  <2>3. \A c \in Trunks \X Hubs : \A i \in DOMAIN chan'[c] : chan'[c] = chan[c]
    BY <1>2 DEF Breaks
  <2>4. MeshTypes'
    BY <1>2, <2>1 DEF MeshInv, MeshTypes, Breaks
  <2>5. ChannelsAreSound'
    <3>1. SUFFICES ASSUME NEW t \in Trunks, NEW h \in Hubs, NEW i \in DOMAIN chan'[<<t, h>>]
                   PROVE  /\ t \in up' /\ h \in Ends(t)'
                          /\ chan'[<<t, h>>][i][1] \in DOMAIN log' /\ chan'[<<t, h>>][i][2] \in 0 .. FreshTTL
      BY Zenon DEF ChannelsAreSound
    <3>2. /\ t \in up /\ h \in Ends(t)
          /\ chan'[<<t, h>>][i][1] \in DOMAIN log /\ chan'[<<t, h>>][i][2] \in 0 .. FreshTTL
      BY <2>3, Zenon DEF MeshInv, ChannelsAreSound
    <3>3. t \in up'
      <4>1. SUFFICES ASSUME t \notin up' PROVE FALSE
        BY Zenon
      <4>2. chan'[<<t, h>>] = <<>>
        BY <1>2, <3>2, <4>1, Zenon DEF Breaks
      <4>3. QED
        BY <4>2
    <3>4. QED
      BY <1>2, <2>1, <3>2, <3>3, Zenon DEF Ends, Breaks
  <2>6. LogIsSound'
    BY <2>1 DEF MeshInv, LogIsSound
  <2>7. HeardIsSound'
    BY <1>2, <2>1, Zenon DEF MeshInv, HeardIsSound, Breaks
  <2>8. RoutesAreSound'
    BY <1>2, <2>1 DEF MeshInv, RoutesAreSound, Breaks
  <2>9. QED
    BY <1>2, <2>2, <2>4, <2>5, <2>6, <2>7, <2>8, Zenon DEF MeshInv, Breaks
<1>3. QED
  BY <1>1, <1>2, Zenon

LEMMA MeshInit == Init => MeshInv
<1> SUFFICES ASSUME Init PROVE MeshInv
  BY Zenon
<1>1. /\ net \in Topologies /\ up = DOMAIN net /\ attached = Nodes /\ chan = [c \in Trunks \X Hubs |-> <<>>]
      /\ conns = [h \in Hubs |-> {}] /\ log = <<>> /\ heard = [n \in Nodes |-> <<>>] /\ faults = 0
  BY Zenon DEF Init
<1>2. DOMAIN net \subseteq Trunks /\ \A t \in DOMAIN net : net[t][1] \in Hubs /\ net[t][2] \in Hubs
  <2>1. PICK T \in SUBSET Trunks : net \in [T -> Hubs \X Hubs]
    BY <1>1, MeshAssumption
  <2>2. QED
    BY <2>1, Zenon
<1>3. \A t \in Trunks, h \in Hubs : DOMAIN chan[<<t, h>>] = {}
  BY <1>1
<1>4. \A n \in Nodes : DOMAIN heard[n] = {}
  BY <1>1
<1>5. DOMAIN log = {}
  BY <1>1
<1>6. MeshTypes
  BY <1>1, <1>2 DEF MeshTypes
<1>7. QED
  BY <1>1, <1>3, <1>4, <1>5, <1>6 DEF MeshInv, LogIsSound, ChannelsAreSound, HeardIsSound, RoutesAreSound

\* Whatever breaks, what is on a trunk, in a table or heard refers to a frame that was
\* sent, and what is on a trunk is on a trunk that is up.
THEOREM MeshInvariant == Spec => []MeshInv
<1>1. Init => MeshInv
  BY MeshInit, Zenon
<1>2. MeshInv /\ [Next]_vars => MeshInv'
  BY NextIs, SendKeeps, ReadKeeps, QuietKeeps, Zenon
<1>3. QED
  BY <1>1, <1>2, PTL DEF Spec

-----------------------------------------------------------------------------
(* 4. Direction in a tree *)

Src(k) == log[k].src

\* A frame on a trunk leads away from its source.
Directed ==
  \A t \in Trunks, h \in Hubs : \A i \in DOMAIN chan[<<t, h>>] :
    \A S \in SUBSET Hubs : IsCut(S, t) /\ h \in S => Home[Src(chan[<<t, h>>][i][1])] \notin S

\* A trunk crosses its own cut and no other.
LEMMA CutAtTrunk ==
  ASSUME MeshTypes, NEW t \in DOMAIN net, NEW S, IsCut(S, t)
  PROVE  /\ \A h \in Ends(t) : h \in S <=> Far(t, h) \notin S
         /\ \A s \in DOMAIN net \ {t} : \A h, g \in Ends(s) : h \in S <=> g \in S
<1>1. \A s \in DOMAIN net : s = t <=> (net[s][1] \in S <=> net[s][2] \notin S)
  BY Zenon DEF IsCut
<1>2. ASSUME NEW h \in Ends(t) PROVE h \in S <=> Far(t, h) \notin S
  BY <1>1, EndsAre
<1>3. ASSUME NEW s \in DOMAIN net \ {t}, NEW h \in Ends(s), NEW g \in Ends(s)
      PROVE  h \in S <=> g \in S
  BY <1>1, Zenon DEF Ends
<1>4. QED
  BY <1>2, <1>3, Zenon

\* A set that only trunk t crosses is a cut.
LEMMA MakeCut ==
  ASSUME MeshTypes, NEW t \in DOMAIN net, NEW S,
         net[t][1] \in S <=> net[t][2] \notin S,
         \A s \in DOMAIN net \ {t} : net[s][1] \in S <=> net[s][2] \in S
  PROVE  IsCut(S, t)
BY Zenon DEF IsCut

\* In a tree every end of a trunk is on one side of a cut.
LEMMA CutExists ==
  ASSUME MeshTypes, IsTree, NEW t \in DOMAIN net, NEW h \in Ends(t)
  PROVE  \E S \in SUBSET Hubs : IsCut(S, t) /\ h \in S
<1>1. PICK S \in SUBSET Hubs : IsCut(S, t)
  BY Zenon DEF IsTree
<1>2. CASE h \in S
  BY <1>1, <1>2, Zenon
<1>3. CASE h \notin S
  <2>1. \A s \in DOMAIN net : net[s][1] \in Hubs /\ net[s][2] \in Hubs
    BY Zenon DEF MeshTypes
  <2>2. IsCut(Hubs \ S, t)
    BY <1>1, <2>1, Zenon DEF IsCut
  <2>3. h \in Hubs \ S
    BY <1>3, EndsAre, Zenon
  <2>4. QED
    BY <2>2, <2>3, Zenon
<1>4. QED
  BY <1>2, <1>3, Zenon

\* A frame that came to h over t and leaves over s: the cuts of both trunks, joined and
\* met, are cuts again.
LEMMA CutsJoin ==
  ASSUME MeshTypes, NEW t \in DOMAIN net, NEW s \in DOMAIN net \ {t}, NEW h \in Ends(t), h \in Ends(s),
         NEW S, IsCut(S, t), h \in S, NEW C, IsCut(C, s), Far(s, h) \in C
  PROVE  IsCut(S \cup C, t) /\ IsCut(S \cap C, s) /\ Far(s, h) \in S
<1>1. h \notin C /\ Far(t, h) \notin S
  BY CutAtTrunk, Zenon
<1>2. Far(t, h) \in Ends(t) /\ Far(s, h) \in Ends(s)
  BY EndsAre, Zenon
<1>3. Far(s, h) \in S /\ Far(t, h) \notin C
  BY <1>1, <1>2, CutAtTrunk, Zenon
<1>4. \A r \in DOMAIN net \ {t, s} : (net[r][1] \in S <=> net[r][2] \in S) /\ (net[r][1] \in C <=> net[r][2] \in C)
  BY Zenon DEF IsCut
<1>5. \/ net[t][1] = h /\ net[t][2] = Far(t, h)
      \/ net[t][2] = h /\ net[t][1] = Far(t, h)
  BY EndsAre, Zenon
<1>6. \/ net[s][1] = h /\ net[s][2] = Far(s, h)
      \/ net[s][2] = h /\ net[s][1] = Far(s, h)
  BY EndsAre, Zenon
<1>7. IsCut(S \cup C, t)
  <2>1. net[t][1] \in S \cup C <=> net[t][2] \notin S \cup C
    BY <1>1, <1>3, <1>5, Zenon
  <2>2. net[s][1] \in S \cup C <=> net[s][2] \in S \cup C
    BY <1>1, <1>3, <1>6, Zenon
  <2>3. QED
    BY <2>1, <2>2, <1>4, MakeCut, Zenon
<1>8. IsCut(S \cap C, s)
  <2>1. net[s][1] \in S \cap C <=> net[s][2] \notin S \cap C
    BY <1>1, <1>3, <1>6, Zenon
  <2>2. net[t][1] \in S \cap C <=> net[t][2] \in S \cap C
    BY <1>1, <1>3, <1>5, Zenon
  <2>3. QED
    BY <2>1, <2>2, <1>4, MakeCut, Zenon
<1>9. QED
  BY <1>3, <1>7, <1>8, Zenon

\* What is on a trunk after a step was on it before, or it is frame k that hub h passes on.
Carried(h, from, k, next) ==
  \A t \in Trunks, g \in Hubs : \A i \in DOMAIN chan'[<<t, g>>] :
    \/ \E j \in DOMAIN chan[<<t, g>>] : chan'[<<t, g>>][i] = chan[<<t, g>>][j]
    \/ <<t, g>> \in OutOf(h, from) /\ chan'[<<t, g>>][i] = <<k, next>>

LEMMA ForwardCarries ==
  ASSUME NEW h, NEW src, NEW from, NEW k \in Nat, NEW ttl, NEW next \in Nat, NextTTL(from, ttl) = next,
         NEW rest \in [Trunks \X Hubs -> Seq(Copy)],
         \A t \in Trunks, g \in Hubs : \A i \in DOMAIN rest[<<t, g>>] :
           \E j \in DOMAIN chan[<<t, g>>] : rest[<<t, g>>][i] = chan[<<t, g>>][j],
         Forwards(h, src, from, k, ttl, rest)
  PROVE  Carried(h, from, k, next)
<1>1. <<k, next>> \in Copy
  BY Zenon DEF Copy
<1>2. ASSUME NEW t \in Trunks, NEW g \in Hubs, NEW i \in DOMAIN chan'[<<t, g>>]
      PROVE  \/ \E j \in DOMAIN chan[<<t, g>>] : chan'[<<t, g>>][i] = chan[<<t, g>>][j]
             \/ <<t, g>> \in OutOf(h, from) /\ chan'[<<t, g>>][i] = <<k, next>>
  <2>1. chan'[<<t, g>>] = IF <<t, g>> \in OutOf(h, from) THEN Append(rest[<<t, g>>], <<k, next>>) ELSE rest[<<t, g>>]
    BY Zenon DEF Forwards
  <2>2. CASE <<t, g>> \in OutOf(h, from)
    <3>1. rest[<<t, g>>] \in Seq(Copy)
      BY Zenon
    <3>2. Longer(chan'[<<t, g>>], rest[<<t, g>>], <<k, next>>)
      BY <1>1, <2>1, <2>2, <3>1, AppendIsLonger
    <3>3. \/ i \in DOMAIN rest[<<t, g>>] /\ chan'[<<t, g>>][i] = rest[<<t, g>>][i]
          \/ chan'[<<t, g>>][i] = <<k, next>>
      BY <3>2, Zenon DEF Longer
    <3>4. QED
      BY <2>2, <3>3, Zenon
  <2>3. CASE <<t, g>> \notin OutOf(h, from)
    BY <2>1, <2>3
  <2>4. QED
    BY <2>2, <2>3, Zenon
<1>3. QED
  BY <1>2, Zenon DEF Carried

LEMMA SendCarries ==
  ASSUME MeshInv, NEW n \in Nodes, NEW type \in {"adv", "connect", "data"},
         NEW to \in Nodes \cup {None}, NEW aa \in Nat, SendStep(n, type, to, aa)
  PROVE  Carried(Home[n], None, Len(log) + 1, FreshTTL)
<1>1. Forwards(Home[n], n, None, Len(log) + 1, 0, chan)
  BY SendKeeps, Zenon
<1>2. chan \in [Trunks \X Hubs -> Seq(Copy)] /\ Len(log) + 1 \in Nat /\ FreshTTL \in Nat /\ NextTTL(None, 0) = FreshTTL
  BY Constants DEF MeshInv, MeshTypes, NextTTL
<1>3. QED
  BY <1>1, <1>2, ForwardCarries, Zenon

LEMMA ReadCarries ==
  ASSUME MeshInv, NEW t \in Trunks, NEW h \in Hubs, HubReads(t, h)
  PROVE  Carried(h, t, chan[<<t, h>>][1][1], chan[<<t, h>>][1][2] - 1)
<1> DEFINE k == chan[<<t, h>>][1][1]
           ttl == chan[<<t, h>>][1][2]
<1>1. k \in Nat /\ ttl \in 0 .. FreshTTL /\ FreshTTL \in Nat
  BY ReadsDoes, Constants, Zenon
<1>2. /\ ttl = 0 => chan' = Rest(t, h)
      /\ ttl > 0 => Forwards(h, None, t, k, ttl, Rest(t, h)) /\ NextTTL(t, ttl) = ttl - 1
  BY ReadKeeps, Zenon
<1> HIDE DEF k, ttl
<1>3. Rest(t, h) \in [Trunks \X Hubs -> Seq(Copy)]
  BY ReadRest, Zenon
<1>4. \A s \in Trunks, g \in Hubs : \A i \in DOMAIN Rest(t, h)[<<s, g>>] :
        \E j \in DOMAIN chan[<<s, g>>] : Rest(t, h)[<<s, g>>][i] = chan[<<s, g>>][j]
  <2>1. ASSUME NEW s \in Trunks, NEW g \in Hubs, NEW i \in DOMAIN Rest(t, h)[<<s, g>>]
        PROVE  \E j \in DOMAIN chan[<<s, g>>] : Rest(t, h)[<<s, g>>][i] = chan[<<s, g>>][j]
    BY ReadRest, Zenon DEF Shorter
  <2>2. QED
    BY <2>1, Zenon
<1>5. CASE ttl = 0
  <2>1. chan' = Rest(t, h)
    BY <1>2, <1>5, Zenon
  <2>2. Carried(h, t, k, ttl - 1)
    BY <1>4, <2>1, Zenon DEF Carried
  <2>3. QED
    BY <2>2, Zenon DEF k, ttl
<1>6. CASE ttl # 0
  <2>1. ttl > 0 /\ ttl - 1 \in Nat
    BY <1>1, <1>6
  <2>2. Carried(h, t, k, ttl - 1)
    BY <1>1, <1>2, <1>3, <1>4, <2>1, ForwardCarries, Zenon
  <2>3. QED
    BY <2>2, Zenon DEF k, ttl
<1>7. QED
  BY <1>5, <1>6, Zenon

LEMMA QuietCarries ==
  ASSUME Mends \/ Breaks
  PROVE  \A t \in Trunks, g \in Hubs : \A i \in DOMAIN chan'[<<t, g>>] :
           i \in DOMAIN chan[<<t, g>>] /\ chan'[<<t, g>>][i] = chan[<<t, g>>][i]
<1>1. CASE Mends
  BY <1>1, Zenon DEF Mends
<1>2. CASE Breaks
  <2>1. \A c \in Trunks \X Hubs : \A i \in DOMAIN chan'[c] : chan'[c] = chan[c]
    BY <1>2 DEF Breaks
  <2>2. QED
    BY <2>1, Zenon
<1>3. QED
  BY <1>1, <1>2, Zenon

\* The frame a hub passes on has its source on the hub's side of the trunk.
LEMMA DirectedKept ==
  ASSUME MeshInv, Directed, net' = net, LogKept, NEW h, NEW from, NEW k, NEW next, Carried(h, from, k, next),
         \A t \in Trunks, g \in Hubs : <<t, g>> \in OutOf(h, from) =>
           \A S \in SUBSET Hubs : IsCut(S, t) /\ g \in S => Home[log'[k].src] \notin S
  PROVE  Directed'
<1>1. \A t, S : IsCut(S, t)' <=> IsCut(S, t)
  BY DEF IsCut
<1>2. SUFFICES ASSUME NEW t \in Trunks, NEW g \in Hubs, NEW i \in DOMAIN chan'[<<t, g>>],
                      NEW S \in SUBSET Hubs, IsCut(S, t), g \in S
               PROVE  Home[log'[chan'[<<t, g>>][i][1]].src] \notin S
  BY <1>1, Zenon DEF Directed, Src
<1>3. ASSUME NEW j \in DOMAIN chan[<<t, g>>], chan'[<<t, g>>][i] = chan[<<t, g>>][j]
      PROVE  Home[log'[chan'[<<t, g>>][i][1]].src] \notin S
  <2>1. chan[<<t, g>>][j][1] \in DOMAIN log
    BY Zenon DEF MeshInv, ChannelsAreSound
  <2>2. Home[Src(chan[<<t, g>>][j][1])] \notin S
    BY <1>2, Zenon DEF Directed
  <2>3. QED
    BY <1>3, <2>1, <2>2, Zenon DEF LogKept, Src
<1>4. CASE <<t, g>> \in OutOf(h, from) /\ chan'[<<t, g>>][i] = <<k, next>>
  BY <1>2, <1>4
<1>5. QED
  BY <1>3, <1>4, Zenon DEF Carried

LEMMA DirectedNext ==
  ASSUME MeshInv, IsTree => Directed, [Next]_vars
  PROVE  IsTree' => Directed'
<1>1. ASSUME net' = net PROVE IsTree' <=> IsTree
  BY <1>1, Zenon DEF IsTree, IsCut
<1>2. MeshTypes
  BY Zenon DEF MeshInv
<1>3. ASSUME NEW n \in Nodes, NEW type \in {"adv", "connect", "data"}, NEW to \in Nodes \cup {None},
             NEW aa \in Nat, SendStep(n, type, to, aa), IsTree
      PROVE  net' = net /\ Directed'
  <2>1. LogKept /\ net' = net /\ Carried(Home[n], None, Len(log) + 1, FreshTTL)
    BY <1>3, SendKeeps, SendCarries, Zenon
  <2>2. log'[Len(log) + 1].src = n
    BY <1>3, SendsDoes, Zenon DEF SendStep, Sent
  <2>3. ASSUME NEW t \in Trunks, NEW g \in Hubs, <<t, g>> \in OutOf(Home[n], None),
               NEW S \in SUBSET Hubs, IsCut(S, t), g \in S
        PROVE  Home[n] \notin S
    <3>1. t \in DOMAIN net /\ Home[n] \in Ends(t) /\ g = Far(t, Home[n])
      BY <1>2, <2>3, OutIs, Zenon
    <3>2. QED
      BY <1>2, <2>3, <3>1, CutAtTrunk, Zenon
  <2>4. Directed
    BY <1>3, Zenon
  <2>5. QED
    BY <2>1, <2>2, <2>3, <2>4, DirectedKept, Zenon
<1>4. ASSUME NEW t \in Trunks, NEW h \in Hubs, HubReads(t, h), IsTree
      PROVE  net' = net /\ Directed'
  <2> DEFINE k == chan[<<t, h>>][1][1]
             next == chan[<<t, h>>][1][2] - 1
  <2>1. LogKept /\ net' = net
    BY <1>4, ReadKeeps, Zenon
  <2>2. Carried(h, t, k, next)
    BY <1>4, ReadCarries, Zenon
  <2>3. t \in DOMAIN net /\ h \in Ends(t) /\ 1 \in DOMAIN chan[<<t, h>>] /\ log' = log
    BY <1>4, ReadsDoes, Zenon
  <2>4. ASSUME NEW S \in SUBSET Hubs, IsCut(S, t), h \in S PROVE Home[log'[k].src] \notin S
    BY <1>4, <2>3, <2>4, Zenon DEF Directed, Src
  <2> HIDE DEF k, next
  <2>5. PICK S \in SUBSET Hubs : IsCut(S, t) /\ h \in S
    BY <1>2, <1>4, <2>3, CutExists, Zenon
  <2>6. ASSUME NEW s \in Trunks, NEW g \in Hubs, <<s, g>> \in OutOf(h, t),
               NEW C \in SUBSET Hubs, IsCut(C, s), g \in C
        PROVE  Home[log'[k].src] \notin C
    <3>1. s \in DOMAIN net \ {t} /\ h \in Ends(s) /\ Far(s, h) \in C
      BY <1>2, <2>6, OutIs, Zenon
    <3>2. IsCut(S \cup C, t)
      BY <1>2, <2>3, <2>5, <2>6, <3>1, CutsJoin, Zenon
    <3>3. S \cup C \in SUBSET Hubs /\ h \in S \cup C
      BY <2>5, Zenon
    <3>4. Home[log'[k].src] \notin S \cup C
      BY <2>4, <3>2, <3>3, Zenon
    <3>5. QED
      BY <3>4, Zenon
  <2>7. Directed
    BY <1>4, Zenon
  <2>8. QED
    BY <2>1, <2>2, <2>6, <2>7, DirectedKept, Zenon
<1>5. ASSUME Mends \/ Breaks, IsTree PROVE net' = net /\ Directed'
  <2>1. LogKept /\ net' = net /\ Directed
    BY <1>5, QuietKeeps, Zenon
  <2>2. \A t \in Trunks, g \in Hubs : \A i \in DOMAIN chan'[<<t, g>>] :
          i \in DOMAIN chan[<<t, g>>] /\ chan'[<<t, g>>][i] = chan[<<t, g>>][i]
    BY <1>5, QuietCarries, Zenon
  <2>3. \A t, S : IsCut(S, t)' <=> IsCut(S, t)
    BY <2>1, Zenon DEF IsCut
  <2>4. ASSUME NEW t \in Trunks, NEW g \in Hubs, NEW i \in DOMAIN chan'[<<t, g>>],
               NEW S \in SUBSET Hubs, IsCut(S, t), g \in S
        PROVE  Home[log'[chan'[<<t, g>>][i][1]].src] \notin S
    <3>1. i \in DOMAIN chan[<<t, g>>] /\ chan'[<<t, g>>][i] = chan[<<t, g>>][i]
      BY <2>2, Zenon
    <3>2. chan[<<t, g>>][i][1] \in DOMAIN log
      BY <3>1, Zenon DEF MeshInv, ChannelsAreSound
    <3>3. Home[Src(chan[<<t, g>>][i][1])] \notin S
      BY <2>1, <2>4, <3>1, Zenon DEF Directed
    <3>4. QED
      BY <2>1, <3>1, <3>2, <3>3, Zenon DEF LogKept, Src
  <2>5. Directed'
    BY <2>3, <2>4, Zenon DEF Directed, Src
  <2>6. QED
    BY <2>1, <2>5, Zenon
<1>6. QED
  <2>1. net' = net
    BY NextIs, SendKeeps, ReadKeeps, QuietKeeps, Zenon
  <2>2. QED
    BY <1>1, <1>3, <1>4, <1>5, <2>1, NextIs, Zenon

\* forward_frame sends nothing back over the trunk it came from: in a tree of hubs every
\* frame leads away from its source.
THEOREM FramesLeadAway == Spec => [](IsTree => Directed)
<1>1. Init => (IsTree => Directed)
  BY DEF Init, Directed
<1>2. MeshInv /\ (IsTree => Directed) /\ [Next]_vars => (IsTree => Directed)'
  BY DirectedNext, Zenon
<1>3. QED
  BY <1>1, <1>2, MeshInvariant, PTL DEF Spec

\* In a tree a frame does not come back to the hub of its source.
LEMMA ComesFromAfar ==
  ASSUME MeshInv, Directed, IsTree, NEW t \in Trunks, NEW h \in Hubs, HubReads(t, h)
  PROVE  Home[Src(chan[<<t, h>>][1][1])] # h
<1>1. MeshTypes
  BY Zenon DEF MeshInv
<1>2. t \in DOMAIN net /\ h \in Ends(t) /\ 1 \in DOMAIN chan[<<t, h>>]
  BY ReadsDoes, Zenon
<1>3. PICK S \in SUBSET Hubs : IsCut(S, t) /\ h \in S
  BY <1>1, <1>2, CutExists, Zenon
<1>4. Home[Src(chan[<<t, h>>][1][1])] \notin S
  BY <1>2, <1>3, Zenon DEF Directed
<1>5. QED
  BY <1>3, <1>4, Zenon

-----------------------------------------------------------------------------
(* 5. Reach *)

\* The hubs at the trunks that touch S.
Around(S) == UNION {Ends(t) : t \in {s \in DOMAIN net : Ends(s) \cap S # {}}}

\* p goes from h to g over d trunks, or fewer if it rests.
Path(h, d, g, p) ==
  /\ p \in [0 .. d -> Hubs] /\ p[0] = h /\ p[d] = g
  /\ \A i \in 1 .. d : p[i] = p[i - 1] \/ \E t \in DOMAIN net : Ends(t) = {p[i - 1], p[i]}

LEMMA PathExists ==
  \A h, d : \A g \in Hubs : g \in Within(h, d) <=> \E p : Path(h, d, g, p)
BY Zenon DEF Within, Path

LEMMA PathGoesOn ==
  ASSUME NEW h \in Hubs, NEW d \in Nat, NEW e \in Within(h, d), NEW g \in Hubs,
         g = e \/ \E t \in DOMAIN net : Ends(t) = {e, g}
  PROVE  g \in Within(h, d + 1)
<1>1. e \in Hubs
  BY Zenon DEF Within
<1>2. PICK p : Path(h, d, e, p)
  BY <1>1, PathExists, Zenon
<1> DEFINE q == [i \in 0 .. d + 1 |-> IF i <= d THEN p[i] ELSE g]
<1>3. p \in [0 .. d -> Hubs] /\ p[0] = h /\ p[d] = e
  BY <1>2, Zenon DEF Path
<1>4. q \in [0 .. d + 1 -> Hubs] /\ q[0] = h /\ q[d + 1] = g /\ \A i \in 0 .. d : q[i] = p[i]
  BY <1>3
<1> HIDE DEF q
<1>5. ASSUME NEW i \in 1 .. d + 1
      PROVE  q[i] = q[i - 1] \/ \E t \in DOMAIN net : Ends(t) = {q[i - 1], q[i]}
  <2>1. CASE i = d + 1
    <3>1. q[i] = g /\ q[i - 1] = e
      BY <1>3, <1>4, <2>1
    <3>2. QED
      BY <3>1, Zenon
  <2>2. CASE i # d + 1
    <3>1. i \in 1 .. d /\ i \in 0 .. d /\ i - 1 \in 0 .. d
      BY <2>2
    <3>2. q[i] = p[i] /\ q[i - 1] = p[i - 1]
      BY <1>4, <3>1, Zenon
    <3>3. QED
      BY <1>2, <3>1, <3>2, Zenon DEF Path
  <2>3. QED
    BY <2>1, <2>2, Zenon
<1>6. Path(h, d + 1, g, q)
  BY <1>4, <1>5, Zenon DEF Path
<1>7. QED
  BY <1>6, PathExists, Zenon

\* Within counts one trunk more at a time.
LEMMA WithinIs ==
  ASSUME MeshTypes, NEW h \in Hubs, NEW d \in Nat
  PROVE  /\ Within(h, 0) = {h}
         /\ Within(h, d + 1) = Within(h, d) \cup Around(Within(h, d))
<1>0. \A x, y : Within(x, y) \subseteq Hubs
  BY Zenon DEF Within
<1>1. Within(h, 0) = {h}
  <2>1. ASSUME NEW g \in Hubs, NEW p, Path(h, 0, g, p) PROVE g = h
    BY <2>1, Zenon DEF Path
  <2> DEFINE q == [i \in 0 .. 0 |-> h]
  <2>2. Path(h, 0, h, q)
    BY DEF Path
  <2> HIDE DEF q
  <2>3. QED
    BY <1>0, <2>1, <2>2, PathExists, Zenon
<1>2. ASSUME NEW g \in Within(h, d + 1) PROVE g \in Within(h, d) \cup Around(Within(h, d))
  <2>1. PICK p : Path(h, d + 1, g, p)
    BY <1>0, PathExists, Zenon
  <2> DEFINE q == [i \in 0 .. d |-> p[i]]
             e == p[d]
  <2>2. p \in [0 .. d + 1 -> Hubs] /\ p[0] = h /\ p[d + 1] = g
    BY <2>1, Zenon DEF Path
  <2>3. q \in [0 .. d -> Hubs] /\ q[0] = h /\ q[d] = e /\ e \in Hubs
    BY <2>2
  <2>4. ASSUME NEW i \in 1 .. d
        PROVE  q[i] = q[i - 1] \/ \E t \in DOMAIN net : Ends(t) = {q[i - 1], q[i]}
    <3>1. i \in 1 .. d + 1 /\ q[i] = p[i] /\ q[i - 1] = p[i - 1]
      OBVIOUS
    <3> HIDE DEF q
    <3>2. QED
      BY <2>1, <3>1, Zenon DEF Path
  <2> HIDE DEF q
  <2>5. e \in Within(h, d)
    <3>1. Path(h, d, e, q)
      BY <2>3, <2>4, Zenon DEF Path
    <3>2. QED
      BY <2>3, <3>1, PathExists, Zenon
  <2>6. g = e \/ \E t \in DOMAIN net : Ends(t) = {e, g}
    <3>1. d + 1 \in 1 .. d + 1 /\ (d + 1) - 1 = d
      OBVIOUS
    <3>2. p[d + 1] = p[(d + 1) - 1] \/ \E t \in DOMAIN net : Ends(t) = {p[(d + 1) - 1], p[d + 1]}
      BY <2>1, <3>1, Zenon DEF Path
    <3>3. QED
      BY <2>2, <3>1, <3>2
  <2> HIDE DEF e
  <2>7. QED
    BY <2>5, <2>6, Zenon DEF Around
<1>3. ASSUME NEW g \in Within(h, d) \cup Around(Within(h, d)) PROVE g \in Within(h, d + 1)
  <2>1. CASE g \in Within(h, d)
    BY <1>0, <2>1, PathGoesOn, Zenon
  <2>2. CASE g \in Around(Within(h, d))
    <3>1. PICK t \in DOMAIN net : g \in Ends(t) /\ Ends(t) \cap Within(h, d) # {}
      BY <2>2, Zenon DEF Around
    <3>2. PICK e \in Within(h, d) : e \in Ends(t)
      BY <3>1, Zenon
    <3>3. g \in Hubs /\ (g = e \/ Ends(t) = {e, g})
      BY <3>1, <3>2, Zenon DEF Ends, MeshTypes
    <3>4. QED
      BY <3>3, PathGoesOn, Zenon
  <2>3. QED
    BY <1>3, <2>1, <2>2, Zenon
<1>4. QED
  BY <1>1, <1>2, <1>3, Zenon

LEMMA WithinStep ==
  ASSUME MeshTypes, NEW h \in Hubs, NEW d \in Nat, NEW e \in Within(h, d),
         NEW t \in DOMAIN net, e \in Ends(t)
  PROVE  Far(t, e) \in Within(h, d + 1)
<1>1. Far(t, e) \in Ends(t) /\ Ends(t) \cap Within(h, d) # {}
  BY EndsAre, Zenon
<1>2. Far(t, e) \in Around(Within(h, d))
  BY <1>1, Zenon DEF Around
<1>3. QED
  BY <1>2, WithinIs, Zenon

LEMMA WithinGrows ==
  ASSUME NEW h \in Hubs, NEW d \in Nat, NEW N \in Nat, d <= N
  PROVE  Within(h, d) \subseteq Within(h, N)
<1>1. SUFFICES ASSUME NEW g \in Within(h, d) PROVE g \in Within(h, N)
  BY Zenon
<1>2. g \in Hubs
  BY Zenon DEF Within
<1>3. PICK p : Path(h, d, g, p)
  BY <1>2, PathExists, Zenon
<1> DEFINE q == [i \in 0 .. N |-> IF i <= d THEN p[i] ELSE g]
<1>4. p \in [0 .. d -> Hubs] /\ p[0] = h /\ p[d] = g
  BY <1>3, Zenon DEF Path
<1>5. /\ q \in [0 .. N -> Hubs] /\ q[0] = h /\ q[N] = g
      /\ \A i \in 0 .. d : q[i] = p[i]
      /\ \A i \in d .. N : q[i] = g
  BY <1>2, <1>4
<1> HIDE DEF q
<1>6. ASSUME NEW i \in 1 .. N
      PROVE  q[i] = q[i - 1] \/ \E t \in DOMAIN net : Ends(t) = {q[i - 1], q[i]}
  <2>1. CASE i <= d
    <3>1. i \in 1 .. d /\ q[i] = p[i] /\ q[i - 1] = p[i - 1]
      BY <1>5, <2>1
    <3>2. QED
      BY <1>3, <3>1, Zenon DEF Path
  <2>2. CASE i > d
    BY <1>5, <2>2
  <2>3. QED
    BY <2>1, <2>2
<1>7. Path(h, N, g, q)
  BY <1>5, <1>6, Zenon DEF Path
<1>8. QED
  BY <1>2, <1>7, PathExists, Zenon

\* w leads from hub h over trunks that are each crossed from one end to the other, never
\* back over the trunk it came on: w[i] is a trunk and the hub it leads to.
IsWalk(h, w) ==
  /\ w \in Seq(Trunks \X Hubs)
  /\ \A i \in 1 .. Len(w) :
       LET from == IF i = 1 THEN h ELSE w[i - 1][2]
       IN  /\ w[i][1] \in DOMAIN net /\ from \in Ends(w[i][1]) /\ w[i][2] = Far(w[i][1], from)
           /\ i > 1 => w[i][1] # w[i - 1][1]

LEMMA WalkStarts ==
  ASSUME MeshTypes, NEW h \in Hubs, NEW s \in DOMAIN net, h \in Ends(s)
  PROVE  LET w == <<<<s, Far(s, h)>>>>
         IN  IsWalk(h, w) /\ Len(w) = 1 /\ w[1] = <<s, Far(s, h)>>
<1> DEFINE w == <<<<s, Far(s, h)>>>>
<1>1. <<s, Far(s, h)>> \in Trunks \X Hubs
  BY EndsAre, Zenon
<1>2. w \in Seq(Trunks \X Hubs) /\ Len(w) = 1 /\ w[1] = <<s, Far(s, h)>>
  BY <1>1
<1> HIDE DEF w
<1>3. \A i \in 1 .. Len(w) : i = 1
  BY <1>2
<1>4. w[1][1] = s /\ w[1][2] = Far(s, h)
  BY <1>2
<1>5. IsWalk(h, w)
  BY <1>2, <1>3, <1>4 DEF IsWalk
<1>6. QED
  BY <1>2, <1>5, Zenon DEF w

LEMMA WalkGoesOn ==
  ASSUME MeshTypes, NEW h \in Hubs, NEW w, IsWalk(h, w), Len(w) > 0,
         NEW s \in DOMAIN net, w[Len(w)][2] \in Ends(s), s # w[Len(w)][1]
  PROVE  LET c == <<s, Far(s, w[Len(w)][2])>>
             v == Append(w, c)
         IN  /\ IsWalk(h, v) /\ Len(v) = Len(w) + 1 /\ v[Len(v)] = c
             /\ \A i \in 1 .. Len(w) : v[i] = w[i]
<1> DEFINE e == w[Len(w)][2]
           c == <<s, Far(s, e)>>
           v == Append(w, c)
<1>1. c \in Trunks \X Hubs /\ c[1] = s /\ c[2] = Far(s, e)
  BY EndsAre, Zenon
<1>2. w \in Seq(Trunks \X Hubs) /\ Len(w) \in Nat
  BY DEF IsWalk
<1> HIDE DEF c
<1>3. /\ v \in Seq(Trunks \X Hubs) /\ Len(v) = Len(w) + 1 /\ v[Len(v)] = c
      /\ \A i \in 1 .. Len(w) : v[i] = w[i]
  BY <1>1, <1>2
<1> HIDE DEF v
<1>4. ASSUME NEW i \in 1 .. Len(v)
      PROVE  LET from == IF i = 1 THEN h ELSE v[i - 1][2]
             IN  /\ v[i][1] \in DOMAIN net /\ from \in Ends(v[i][1]) /\ v[i][2] = Far(v[i][1], from)
                 /\ i > 1 => v[i][1] # v[i - 1][1]
  <2>1. CASE i \in 1 .. Len(w)
    <3>1. i # 1 => i - 1 \in 1 .. Len(w)
      BY <1>2, <2>1
    <3>2. \A j \in 1 .. Len(w) : v[j] = w[j]
      BY <1>3, Zenon
    <3>3. v[i] = w[i] /\ (i # 1 => v[i - 1] = w[i - 1])
      BY <2>1, <3>1, <3>2, Zenon
    <3>4. LET from == IF i = 1 THEN h ELSE w[i - 1][2]
          IN  /\ w[i][1] \in DOMAIN net /\ from \in Ends(w[i][1]) /\ w[i][2] = Far(w[i][1], from)
              /\ i > 1 => w[i][1] # w[i - 1][1]
      BY <2>1, Zenon DEF IsWalk
    <3>5. QED
      BY <2>1, <3>3, <3>4
  <2>2. CASE i \notin 1 .. Len(w)
    <3>1. i = Len(v) /\ i # 1 /\ i - 1 = Len(w) /\ Len(w) \in 1 .. Len(w)
      BY <1>2, <1>3, <2>2
    <3>2. v[i] = c /\ v[i - 1] = w[Len(w)]
      BY <1>3, <3>1, Zenon
    <3>3. v[i][1] = s /\ v[i][2] = Far(s, e) /\ v[i - 1][2] = e /\ v[i - 1][1] = w[Len(w)][1]
      BY <1>1, <3>2, Zenon
    <3>4. QED
      BY <3>1, <3>3, Zenon
  <2>3. QED
    BY <2>1, <2>2, Zenon
<1>5. IsWalk(h, v)
  BY <1>3, <1>4, Zenon DEF IsWalk
<1>6. QED
  BY <1>3, <1>5, Zenon DEF v, c

\* w is a walk of at most d trunks from h to g that stays within d trunks of h.
WalkTo(h, g, w, d) ==
  /\ IsWalk(h, w) /\ Len(w) \in 1 .. d /\ w[Len(w)][2] = g
  /\ \A i \in 1 .. Len(w) : w[i][2] \in Within(h, d)

\* The shortest way to a hub does not turn back.
LEMMA WalkExists ==
  ASSUME MeshTypes, NEW h \in Hubs, NEW N \in Nat, NEW g \in Within(h, N), g # h
  PROVE  \E w : WalkTo(h, g, w, N)
<1> DEFINE S == {d \in 0 .. N : \A x \in Within(h, d) : x = h \/ \E w : WalkTo(h, x, w, d)}
<1>1. 0 \in S
  <2>1. 0 \in 0 .. N
    OBVIOUS
  <2>2. QED
    BY <2>1, WithinIs
<1>2. ASSUME NEW k \in 1 .. N, k - 1 \in S PROVE k \in S
  <2> DEFINE d == k - 1
  <2>1. d \in Nat /\ d + 1 = k /\ k \in Nat /\ k \in 0 .. N
    OBVIOUS
  <2>2. Within(h, k) = Within(h, d) \cup Around(Within(h, d))
    BY <2>1, WithinIs, Zenon
  <2>3. h \in Within(h, d)
    <3>1. h \in Within(h, 0) /\ 0 <= d
      BY <2>1, WithinIs
    <3>2. QED
      BY <2>1, <3>1, WithinGrows, Zenon
  <2>4. \A x \in Within(h, d) : x = h \/ \E w : WalkTo(h, x, w, d)
    BY <1>2, Zenon
  <2>5. SUFFICES ASSUME NEW x \in Within(h, k), x # h PROVE \E w : WalkTo(h, x, w, k)
    BY <2>1, Zenon
  <2> HIDE DEF d
  <2>6. CASE x \in Within(h, d)
    <3>1. PICK w : WalkTo(h, x, w, d)
      BY <2>4, <2>5, <2>6, Zenon
    <3>2. WalkTo(h, x, w, k)
      BY <2>1, <2>2, <3>1 DEF WalkTo
    <3>3. QED
      BY <3>2, Zenon
  <2>7. CASE x \notin Within(h, d)
    <3>1. PICK s \in DOMAIN net : \E e \in Ends(s) : x \in Ends(s) /\ e \in Within(h, d)
      BY <2>2, <2>5, <2>7, Zenon DEF Around
    <3>2. PICK e \in Ends(s) : x \in Ends(s) /\ e \in Within(h, d)
      BY <3>1, Zenon
    <3>3. x # e /\ x = Far(s, e) /\ e \in Hubs
      <4>1. x # e
        BY <2>7, <3>2, Zenon
      <4>2. QED
        BY <3>2, <4>1, EndsAre DEF Ends, Far
    <3>4. CASE e = h
      <4> DEFINE v == <<<<s, Far(s, h)>>>>
      <4>1. IsWalk(h, v) /\ Len(v) = 1 /\ v[1] = <<s, Far(s, h)>>
        BY <3>2, <3>4, WalkStarts, Zenon
      <4> HIDE DEF v
      <4>2. v[1][2] = x /\ 1 \in 1 .. k
        BY <2>1, <3>3, <3>4, <4>1
      <4>3. WalkTo(h, x, v, k)
        BY <2>5, <4>1, <4>2 DEF WalkTo
      <4>4. QED
        BY <4>3, Zenon
    <3>5. CASE e # h
      <4>1. PICK w : WalkTo(h, e, w, d)
        BY <2>4, <3>2, <3>5, Zenon
      <4>2. /\ IsWalk(h, w) /\ Len(w) \in 1 .. d /\ w[Len(w)][2] = e
            /\ \A i \in 1 .. Len(w) : w[i][2] \in Within(h, d)
        BY <4>1, Zenon DEF WalkTo
      <4>3. Len(w) \in Nat /\ Len(w) > 0 /\ Len(w) <= d /\ Len(w) \in 1 .. Len(w)
        BY <2>1, <4>2
      <4>4. s # w[Len(w)][1]
        <5> DEFINE from == IF Len(w) = 1 THEN h ELSE w[Len(w) - 1][2]
        <5>1. SUFFICES ASSUME s = w[Len(w)][1] PROVE FALSE
          BY Zenon
        <5>2. from \in Ends(s) /\ e = Far(s, from)
          BY <4>2, <4>3, <5>1, Zenon DEF IsWalk
        <5>3. from \in Within(h, d)
          <6>1. CASE Len(w) = 1
            BY <2>3, <6>1, Zenon
          <6>2. CASE Len(w) # 1
            <7>1. Len(w) - 1 \in 1 .. Len(w)
              BY <4>3, <6>2
            <7>2. QED
              BY <4>2, <6>2, <7>1, Zenon
          <6>3. QED
            BY <6>1, <6>2, Zenon
        <5> HIDE DEF from
        <5>4. x = from \/ x = e
          BY <3>2, <5>2, EndsAre, Zenon DEF Ends
        <5>5. QED
          BY <2>7, <3>3, <5>3, <5>4, Zenon
      <4> DEFINE v == Append(w, <<s, Far(s, w[Len(w)][2])>>)
      <4>5. /\ IsWalk(h, v) /\ Len(v) = Len(w) + 1 /\ v[Len(v)] = <<s, Far(s, w[Len(w)][2])>>
            /\ \A i \in 1 .. Len(w) : v[i] = w[i]
        BY <3>2, <4>2, <4>3, <4>4, WalkGoesOn
      <4> HIDE DEF v
      <4>6. v[Len(v)][2] = x
        BY <3>3, <4>2, <4>5
      <4>7. ASSUME NEW i \in 1 .. Len(v) PROVE v[i][2] \in Within(h, k)
        <5>1. CASE i = Len(v)
          BY <2>5, <4>6, <5>1, Zenon
        <5>2. CASE i # Len(v)
          <6>1. i \in 1 .. Len(w)
            BY <4>3, <4>5, <5>2
          <6>2. QED
            BY <2>2, <4>2, <4>5, <6>1, Zenon
        <5>3. QED
          BY <5>1, <5>2, Zenon
      <4>8. Len(v) \in 1 .. k
        BY <2>1, <4>3, <4>5
      <4>9. WalkTo(h, x, v, k)
        BY <4>5, <4>6, <4>7, <4>8, Zenon DEF WalkTo
      <4>10. QED
        BY <4>9, Zenon
    <3>6. QED
      BY <3>4, <3>5, Zenon
  <2>8. QED
    BY <2>6, <2>7, Zenon
<1> HIDE DEF S
<1> DEFINE Bad == {k \in 0 .. N : k \notin S}
<1>3. Bad = {}
  <2>1. SUFFICES ASSUME Bad # {} PROVE FALSE
    BY Zenon
  <2>2. Bad \subseteq Nat
    OBVIOUS
  <2> HIDE DEF Bad
  <2>3. PICK m \in Bad : \A k \in Bad : <<k, m>> \notin OpToRel(<, Nat)
    BY <2>1, <2>2, NatLessThanWellFounded, WFMin, Zenon
  <2>4. \A k \in Bad : ~(k < m)
    BY <2>2, <2>3, Zenon DEF OpToRel
  <2>5. m \in 0 .. N /\ m \notin S
    BY <2>3, Zenon DEF Bad
  <2>6. m \in 1 .. N /\ m - 1 \in 0 .. N /\ m - 1 < m
    BY <1>1, <2>5
  <2>7. m - 1 \in S
    BY <2>4, <2>6, Zenon DEF Bad
  <2>8. QED
    BY <1>2, <2>5, <2>6, <2>7, Zenon
<1>4. N \in S
  BY <1>3
<1>5. QED
  BY <1>4, Zenon DEF S

-----------------------------------------------------------------------------
(* 6. Order in a tree *)

\* Hub g is on the side of trunk t on which its end h is.
Beyond(t, h, g) == \A S \in SUBSET Hubs : IsCut(S, t) /\ h \in S => g \in S

\* The frames of a source keep their order: on a trunk, and of what is on a trunk and
\* what has come further.
HeardGrows ==
  \A n \in Nodes : \A i, j \in DOMAIN heard[n] :
    i < j /\ Src(heard[n][i]) = Src(heard[n][j]) => heard[n][i] < heard[n][j]
TrunkGrows ==
  \A t \in Trunks, h \in Hubs : \A i, j \in DOMAIN chan[<<t, h>>] :
    i < j /\ Src(chan[<<t, h>>][i][1]) = Src(chan[<<t, h>>][j][1])
      => chan[<<t, h>>][i][1] < chan[<<t, h>>][j][1]
HeardBeyond ==
  \A t \in Trunks, h \in Hubs, n \in Nodes : \A i \in DOMAIN chan[<<t, h>>], j \in DOMAIN heard[n] :
    Beyond(t, h, Home[n]) /\ Src(heard[n][j]) = Src(chan[<<t, h>>][i][1])
      => heard[n][j] < chan[<<t, h>>][i][1]
TrunkBeyond ==
  \A t \in Trunks, h \in Hubs, s \in Trunks, g \in Hubs :
    \A i \in DOMAIN chan[<<t, h>>], j \in DOMAIN chan[<<s, g>>] :
      s # t /\ Beyond(t, h, g) /\ Src(chan[<<s, g>>][j][1]) = Src(chan[<<t, h>>][i][1])
        => chan[<<s, g>>][j][1] < chan[<<t, h>>][i][1]

TreeInv == IsTree => HeardGrows /\ TrunkGrows /\ HeardBeyond /\ TrunkBeyond

-----------------------------------------------------------------------------
(* 7. What is beyond what *)

\* What is beyond the trunk a frame leaves on is beyond the one it came on.
LEMMA BeyondIsTransitive ==
  ASSUME MeshTypes, IsTree, NEW t \in DOMAIN net, NEW s \in DOMAIN net \ {t},
         NEW h \in Ends(t), h \in Ends(s), NEW g, Beyond(s, Far(s, h), g)
  PROVE  Beyond(t, h, g)
<1>1. SUFFICES ASSUME NEW S \in SUBSET Hubs, IsCut(S, t), h \in S PROVE g \in S
  BY Zenon DEF Beyond
<1>2. Far(s, h) \in Ends(s)
  BY EndsAre, Zenon
<1>3. PICK C \in SUBSET Hubs : IsCut(C, s) /\ Far(s, h) \in C
  BY <1>2, CutExists, Zenon
<1>4. IsCut(S \cap C, s) /\ Far(s, h) \in S
  BY <1>1, <1>3, CutsJoin, Zenon
<1>5. S \cap C \in SUBSET Hubs /\ Far(s, h) \in S \cap C
  BY <1>3, <1>4, Zenon
<1>6. QED
  BY <1>4, <1>5, Zenon DEF Beyond

\* Neither the near end of a trunk nor what hangs on it is beyond its far end.
LEMMA NearIsNotBeyond ==
  ASSUME MeshTypes, IsTree, NEW s \in DOMAIN net, NEW h \in Ends(s)
  PROVE  /\ ~Beyond(s, Far(s, h), h)
         /\ \A r \in DOMAIN net \ {s} : h \in Ends(r) => \A g \in Ends(r) : ~Beyond(s, Far(s, h), g)
<1>1. Far(s, h) \in Ends(s)
  BY EndsAre, Zenon
<1>2. PICK C \in SUBSET Hubs : IsCut(C, s) /\ Far(s, h) \in C
  BY <1>1, CutExists, Zenon
<1>3. h \notin C
  BY <1>2, CutAtTrunk, Zenon
<1>4. \A r \in DOMAIN net \ {s} : h \in Ends(r) => \A g \in Ends(r) : g \notin C
  BY <1>2, <1>3, CutAtTrunk, Zenon
<1>5. QED
  BY <1>2, <1>3, <1>4, Zenon DEF Beyond

\* The other end of a trunk that is not t is as far beyond t as this end.
LEMMA BeyondAlongTrunk ==
  ASSUME MeshTypes, NEW t \in DOMAIN net, NEW s \in DOMAIN net \ {t}, NEW e,
         NEW g \in Ends(s), NEW h \in Ends(s), Beyond(t, e, g)
  PROVE  Beyond(t, e, h)
<1>1. SUFFICES ASSUME NEW S \in SUBSET Hubs, IsCut(S, t), e \in S PROVE h \in S
  BY Zenon DEF Beyond
<1>2. g \in S
  BY <1>1, Zenon DEF Beyond
<1>3. QED
  BY <1>1, <1>2, CutAtTrunk, Zenon

-----------------------------------------------------------------------------
(* 8. Order is kept *)

\* Channels of Drop lose their first frame, k is the last of those of Out and the last
\* that the nodes of At have heard; other channels keep what they have or lose it.
Moved(k, Out, At, Drop) ==
  /\ \A t \in Trunks, g \in Hubs : \A i \in DOMAIN chan'[<<t, g>>] :
       \/ LET j == IF <<t, g>> \in Drop THEN i + 1 ELSE i
          IN  j \in DOMAIN chan[<<t, g>>] /\ chan'[<<t, g>>][i] = chan[<<t, g>>][j]
       \/ <<t, g>> \in Out /\ chan'[<<t, g>>][i][1] = k /\ \A j \in DOMAIN chan'[<<t, g>>] : j <= i
  /\ \A n \in Nodes : \A i \in DOMAIN heard'[n] :
       \/ i \in DOMAIN heard[n] /\ heard'[n][i] = heard[n][i]
       \/ n \in At /\ heard'[n][i] = k /\ \A j \in DOMAIN heard'[n] : j <= i

LEMMA SendMoves ==
  ASSUME MeshInv, NEW n \in Nodes, NEW k \in Nat, forward_frame(Home[n], n, None, k, 0, chan)
  PROVE  Moved(k, OutOf(Home[n], None), NodesAt(Home[n]), {})
<1> DEFINE new == <<k, NextTTL(None, 0)>>
           h == Home[n]
<1>1. h \in Hubs /\ NextTTL(None, 0) \in Nat /\ Admitted(None, 0)
  BY Constants, Zenon DEF NextTTL, Admitted
<1>2. MeshTypes /\ chan \in [Trunks \X Hubs -> Seq(Copy)] /\ heard \in [Nodes -> Seq(Nat)]
  BY Zenon DEF MeshInv, MeshTypes
<1>3. /\ \A t \in Trunks, g \in Hubs :
           chan'[<<t, g>>] = IF <<t, g>> \in OutOf(h, None) THEN Append(chan[<<t, g>>], new) ELSE chan[<<t, g>>]
      /\ \A m \in Nodes : heard'[m] = IF m \in Hears(h, n, k) THEN Append(heard[m], k) ELSE heard[m]
  <2>1. Forwards(Home[n], n, None, k, 0, chan)
    BY <1>1, <1>2, Forwarded, Zenon DEF h
  <2>2. QED
    BY <2>1, Zenon DEF Forwards, new, h
<1>4. new \in Copy /\ new[1] = k
  BY <1>1, Zenon DEF Copy
<1> HIDE DEF new, h
<1>5. ASSUME NEW t \in Trunks, NEW g \in Hubs, NEW i \in DOMAIN chan'[<<t, g>>]
      PROVE  \/ i \in DOMAIN chan[<<t, g>>] /\ chan'[<<t, g>>][i] = chan[<<t, g>>][i]
             \/ <<t, g>> \in OutOf(h, None) /\ chan'[<<t, g>>][i][1] = k /\ \A j \in DOMAIN chan'[<<t, g>>] : j <= i
  <2>1. chan[<<t, g>>] \in Seq(Copy)
    BY <1>2, Zenon
  <2>2. CASE <<t, g>> \in OutOf(h, None)
    <3>1. chan'[<<t, g>>] = Append(chan[<<t, g>>], new)
      BY <1>3, <2>2, Zenon
    <3>2. Longer(chan'[<<t, g>>], chan[<<t, g>>], new)
      BY <1>4, <2>1, <3>1, AppendIsLonger, Zenon
    <3>3. QED
      BY <1>4, <2>2, <3>2, Zenon DEF Longer
  <2>3. CASE <<t, g>> \notin OutOf(h, None)
    BY <1>3, <2>3, Zenon
  <2>4. QED
    BY <2>2, <2>3, Zenon
<1>6. ASSUME NEW m \in Nodes, NEW i \in DOMAIN heard'[m]
      PROVE  \/ i \in DOMAIN heard[m] /\ heard'[m][i] = heard[m][i]
             \/ m \in NodesAt(h) /\ heard'[m][i] = k /\ \A j \in DOMAIN heard'[m] : j <= i
  <2>1. heard[m] \in Seq(Nat)
    BY <1>2, Zenon
  <2>2. CASE m \in Hears(h, n, k)
    <3>1. heard'[m] = Append(heard[m], k) /\ m \in NodesAt(h)
      BY <1>2, <1>3, <2>2, HearsAtHub, Zenon
    <3>2. QED
      BY <2>1, <3>1, AppendAt
  <2>3. CASE m \notin Hears(h, n, k)
    BY <1>3, <2>3, Zenon
  <2>4. QED
    BY <2>2, <2>3, Zenon
<1>7. QED
  BY <1>5, <1>6, Zenon DEF Moved, h

LEMMA ReadMoves ==
  ASSUME MeshInv, NEW t \in Trunks, NEW h \in Hubs, HubReads(t, h)
  PROVE  Moved(chan[<<t, h>>][1][1], OutOf(h, t), NodesAt(h), {<<t, h>>})
<1> DEFINE k == chan[<<t, h>>][1][1]
           ttl == chan[<<t, h>>][1][2]
           rest == [chan EXCEPT ![<<t, h>>] = Tail(@)]
           new == <<k, NextTTL(t, ttl)>>
<1>1. /\ k \in Nat /\ ttl \in 0 .. FreshTTL /\ 1 \in DOMAIN chan[<<t, h>>]
      /\ rest \in [Trunks \X Hubs -> Seq(Copy)]
      /\ \A s \in Trunks, g \in Hubs : rest[<<s, g>>] = IF <<s, g>> = <<t, h>> THEN Tail(chan[<<s, g>>]) ELSE chan[<<s, g>>]
      /\ forward_frame(h, None, t, k, ttl, rest)
  BY ReadsDoes, Zenon
<1>2. MeshTypes /\ chan \in [Trunks \X Hubs -> Seq(Copy)] /\ heard \in [Nodes -> Seq(Nat)]
  BY Zenon DEF MeshInv, MeshTypes
<1>3. t # None
  BY Constants, Zenon
<1> HIDE DEF rest, k, ttl
<1>4. ASSUME NEW s \in Trunks, NEW g \in Hubs, NEW i \in DOMAIN rest[<<s, g>>]
      PROVE  LET j == IF <<s, g>> \in {<<t, h>>} THEN i + 1 ELSE i
             IN  j \in DOMAIN chan[<<s, g>>] /\ rest[<<s, g>>][i] = chan[<<s, g>>][j]
  <2>1. chan[<<s, g>>] \in Seq(Copy)
    BY <1>2, Zenon
  <2>2. CASE <<s, g>> = <<t, h>>
    <3>1. rest[<<s, g>>] = Tail(chan[<<s, g>>]) /\ chan[<<s, g>>] # <<>>
      BY <1>1, <2>2, Zenon DEF HubReads
    <3>2. Shorter(rest[<<s, g>>], chan[<<s, g>>])
      BY <2>1, <3>1, TailIsShorter, Zenon
    <3>3. QED
      BY <2>2, <3>2, Zenon DEF Shorter
  <2>3. CASE <<s, g>> # <<t, h>>
    BY <1>1, <2>3, Zenon
  <2>4. QED
    BY <2>2, <2>3, Zenon
<1>5. CASE ~Admitted(t, ttl)
  <2>1. chan' = rest /\ heard' = heard
    BY <1>1, <1>5, Zenon DEF forward_frame
  <2>2. QED
    BY <1>4, <2>1 DEF Moved
<1>6. CASE Admitted(t, ttl)
  <2>1. NextTTL(t, ttl) \in Nat
    <3>0. ttl \in 0 .. FreshTTL
      BY <1>1, Zenon
    <3>1. ttl \in Nat /\ ttl > 0
      BY <3>0, <1>3, <1>6, Constants DEF Admitted
    <3>2. QED
      BY <1>3, <3>1 DEF NextTTL
  <2>2. /\ \A s \in Trunks, g \in Hubs :
             chan'[<<s, g>>] = IF <<s, g>> \in OutOf(h, t) THEN Append(rest[<<s, g>>], new) ELSE rest[<<s, g>>]
        /\ \A m \in Nodes : heard'[m] = IF m \in Hears(h, None, k) THEN Append(heard[m], k) ELSE heard[m]
    <3>1. Forwards(h, None, t, k, ttl, rest)
      BY <1>1, <1>2, <1>6, <2>1, Forwarded, Zenon
    <3>2. QED
      BY <3>1, Zenon DEF Forwards
  <2>3. new \in Copy /\ new[1] = k
    BY <1>1, <2>1, Zenon DEF Copy
  <2> HIDE DEF new
  <2>4. ASSUME NEW s \in Trunks, NEW g \in Hubs, NEW i \in DOMAIN chan'[<<s, g>>]
        PROVE  \/ i \in DOMAIN rest[<<s, g>>] /\ chan'[<<s, g>>][i] = rest[<<s, g>>][i]
               \/ <<s, g>> \in OutOf(h, t) /\ chan'[<<s, g>>][i][1] = k /\ \A j \in DOMAIN chan'[<<s, g>>] : j <= i
    <3>1. rest[<<s, g>>] \in Seq(Copy)
      BY <1>1, Zenon
    <3>2. CASE <<s, g>> \in OutOf(h, t)
      <4>1. chan'[<<s, g>>] = Append(rest[<<s, g>>], new)
        BY <2>2, <3>2, Zenon
      <4>2. Longer(chan'[<<s, g>>], rest[<<s, g>>], new)
        BY <2>3, <3>1, <4>1, AppendIsLonger, Zenon
      <4>3. QED
        BY <2>3, <3>2, <4>2, Zenon DEF Longer
    <3>3. CASE <<s, g>> \notin OutOf(h, t)
      BY <2>2, <3>3, Zenon
    <3>4. QED
      BY <3>2, <3>3, Zenon
  <2>5. ASSUME NEW m \in Nodes, NEW i \in DOMAIN heard'[m]
        PROVE  \/ i \in DOMAIN heard[m] /\ heard'[m][i] = heard[m][i]
               \/ m \in NodesAt(h) /\ heard'[m][i] = k /\ \A j \in DOMAIN heard'[m] : j <= i
    <3>1. heard[m] \in Seq(Nat) /\ k \in Nat
      BY <1>1, <1>2, Zenon DEF k
    <3>2. CASE m \in Hears(h, None, k)
      <4>1. heard'[m] = Append(heard[m], k) /\ m \in NodesAt(h)
        BY <1>2, <2>2, <3>2, HearsAtHub, Zenon
      <4>2. QED
        BY <3>1, <4>1, AppendAt
    <3>3. CASE m \notin Hears(h, None, k)
      BY <2>2, <3>3, Zenon
    <3>4. QED
      BY <3>2, <3>3, Zenon
  <2>6. ASSUME NEW s \in Trunks, NEW g \in Hubs, NEW i \in DOMAIN chan'[<<s, g>>]
        PROVE
          \/ LET j == IF <<s, g>> \in {<<t, h>>} THEN i + 1 ELSE i
             IN  j \in DOMAIN chan[<<s, g>>] /\ chan'[<<s, g>>][i] = chan[<<s, g>>][j]
          \/ <<s, g>> \in OutOf(h, t) /\ chan'[<<s, g>>][i][1] = k /\ \A j \in DOMAIN chan'[<<s, g>>] : j <= i
    <3>1. CASE i \in DOMAIN rest[<<s, g>>] /\ chan'[<<s, g>>][i] = rest[<<s, g>>][i]
      BY <1>4, <3>1, Zenon
    <3>2. CASE ~(i \in DOMAIN rest[<<s, g>>] /\ chan'[<<s, g>>][i] = rest[<<s, g>>][i])
      BY <2>4, <3>2, Zenon
    <3>3. QED
      BY <3>1, <3>2, Zenon
  <2>7. QED
    BY <2>5, <2>6, Zenon DEF Moved, k
<1>7. QED
  BY <1>5, <1>6, Zenon

LEMMA QuietMoves ==
  ASSUME Mends \/ Breaks
  PROVE  Moved(0, {}, {}, {})
<1>1. heard' = heard
  BY Zenon DEF Mends, Breaks
<1>2. \A t \in Trunks, g \in Hubs : \A i \in DOMAIN chan'[<<t, g>>] :
        i \in DOMAIN chan[<<t, g>>] /\ chan'[<<t, g>>][i] = chan[<<t, g>>][i]
  BY QuietCarries, Zenon
<1>3. QED
  BY <1>1, <1>2, Zenon DEF Moved

\* Frame k comes after those of its source that have come further.
Ahead(k, Out, At) ==
  /\ \A n \in At : \A i \in DOMAIN heard[n] : Src(heard[n][i]) = log'[k].src => heard[n][i] < k
  /\ \A t \in Trunks, g \in Hubs : <<t, g>> \in Out =>
       /\ \A i \in DOMAIN chan[<<t, g>>] : Src(chan[<<t, g>>][i][1]) = log'[k].src => chan[<<t, g>>][i][1] < k
       /\ \A n \in Nodes : \A i \in DOMAIN heard[n] :
            Beyond(t, g, Home[n]) /\ Src(heard[n][i]) = log'[k].src => heard[n][i] < k
       /\ \A s \in Trunks, h \in Hubs : \A i \in DOMAIN chan[<<s, h>>] :
            s # t /\ Beyond(t, g, h) /\ Src(chan[<<s, h>>][i][1]) = log'[k].src => chan[<<s, h>>][i][1] < k

\* It comes before those that are still under way to where it is now.
Behind(k, Out, At, Drop) ==
  \A t \in Trunks, h \in Hubs : \A i \in DOMAIN chan[<<t, h>>] :
    Src(chan[<<t, h>>][i][1]) = log'[k].src /\ (<<t, h>> \in Drop => i > 1) =>
      /\ \A n \in At : Beyond(t, h, Home[n]) => k < chan[<<t, h>>][i][1]
      /\ \A s \in Trunks, g \in Hubs :
           <<s, g>> \in Out /\ s # t /\ Beyond(t, h, g) => k < chan[<<t, h>>][i][1]

\* It leaves in directions that do not meet.
Spread(k, Out, At) ==
  \A t \in Trunks, g \in Hubs : <<t, g>> \in Out =>
    /\ \A n \in At : ~Beyond(t, g, Home[n])
    /\ \A s \in Trunks, h \in Hubs : <<s, h>> \in Out /\ s # t => ~Beyond(t, g, h)

LEMMA OrderKept ==
  ASSUME MeshInv, TreeInv, IsTree, net' = net, LogKept, MeshTypes', NEW k, NEW Out, NEW At, NEW Drop,
         Moved(k, Out, At, Drop), Ahead(k, Out, At), Behind(k, Out, At, Drop), Spread(k, Out, At)
  PROVE  (HeardGrows /\ TrunkGrows /\ HeardBeyond /\ TrunkBeyond)'
<1>1. HeardGrows /\ TrunkGrows /\ HeardBeyond /\ TrunkBeyond
  BY Zenon DEF TreeInv
<1>2. \A t, S : IsCut(S, t)' <=> IsCut(S, t)
  BY Zenon DEF IsCut
<1>3. \A t, h, g : Beyond(t, h, g)' <=> Beyond(t, h, g)
  BY <1>2, Zenon DEF Beyond
<1> DEFINE Old(t, g, i, j) == /\ j = (IF <<t, g>> \in Drop THEN i + 1 ELSE i) /\ j \in DOMAIN chan[<<t, g>>]
                              /\ chan'[<<t, g>>][i][1] = chan[<<t, g>>][j][1]
                              /\ log'[chan'[<<t, g>>][i][1]].src = Src(chan[<<t, g>>][j][1])
                              /\ <<t, g>> \in Drop => j > 1
           New(t, g, i) == <<t, g>> \in Out /\ chan'[<<t, g>>][i][1] = k /\ \A j \in DOMAIN chan'[<<t, g>>] : j <= i
           OldH(n, i) == /\ i \in DOMAIN heard[n] /\ heard'[n][i] = heard[n][i]
                         /\ log'[heard'[n][i]].src = Src(heard[n][i])
           NewH(n, i) == n \in At /\ heard'[n][i] = k /\ \A j \in DOMAIN heard'[n] : j <= i
<1>4. ASSUME NEW t \in Trunks, NEW g \in Hubs, NEW i \in DOMAIN chan'[<<t, g>>]
      PROVE  New(t, g, i) \/ \E j : Old(t, g, i, j)
  <2> DEFINE j == IF <<t, g>> \in Drop THEN i + 1 ELSE i
  <2>1. CASE j \in DOMAIN chan[<<t, g>>] /\ chan'[<<t, g>>][i] = chan[<<t, g>>][j]
    <3>1. chan[<<t, g>>][j][1] \in DOMAIN log
      BY <2>1, Zenon DEF MeshInv, ChannelsAreSound
    <3>2. log'[chan'[<<t, g>>][i][1]].src = Src(chan[<<t, g>>][j][1])
      BY <2>1, <3>1, Zenon DEF LogKept, Src
    <3>3. chan'[<<t, g>>] \in Seq(Copy)
      BY Zenon DEF MeshTypes
    <3>4. i \in Nat /\ i > 0
      BY <3>3, SeqIndex, Zenon
    <3>5. <<t, g>> \in Drop => j > 1
      BY <3>4, Successors, Zenon
    <3>6. Old(t, g, i, j)
      BY <2>1, <3>2, <3>5, Zenon
    <3> HIDE DEF j, Old, New
    <3>7. QED
      BY <3>6, Zenon
  <2>2. CASE ~(j \in DOMAIN chan[<<t, g>>] /\ chan'[<<t, g>>][i] = chan[<<t, g>>][j])
    BY <2>2, Zenon DEF Moved
  <2>3. QED
    BY <2>1, <2>2, Zenon
<1>5. ASSUME NEW n \in Nodes, NEW i \in DOMAIN heard'[n]
      PROVE  NewH(n, i) \/ OldH(n, i)
  <2>1. CASE i \in DOMAIN heard[n] /\ heard'[n][i] = heard[n][i]
    <3>1. heard[n][i] \in DOMAIN log
      BY <2>1, Zenon DEF MeshInv, HeardIsSound
    <3>2. QED
      BY <2>1, <3>1, Zenon DEF LogKept, Src
  <2>2. CASE ~(i \in DOMAIN heard[n] /\ heard'[n][i] = heard[n][i])
    BY <2>2, Zenon DEF Moved
  <2>3. QED
    BY <2>1, <2>2, Zenon
<1>6. HeardGrows'
  <2>1. SUFFICES ASSUME NEW n \in Nodes, NEW i \in DOMAIN heard'[n], NEW j \in DOMAIN heard'[n], i < j,
                        log'[heard'[n][i]].src = log'[heard'[n][j]].src
                 PROVE  heard'[n][i] < heard'[n][j]
    BY Zenon DEF HeardGrows, Src
  <2>2. heard'[n] \in Seq(Nat)
    BY Zenon DEF MeshTypes
  <2>3. ~NewH(n, i)
    BY <2>1, <2>2, SeqIndex, NotBefore, Zenon
  <2>4. OldH(n, i)
    BY <1>5, <2>3, Zenon
  <2>5. CASE NewH(n, j)
    BY <2>1, <2>4, <2>5, Zenon DEF Ahead
  <2>6. CASE OldH(n, j)
    BY <1>1, <2>1, <2>4, <2>6, Zenon DEF HeardGrows
  <2>7. QED
    BY <1>5, <2>5, <2>6, Zenon
<1>7. TrunkGrows'
  <2>1. SUFFICES ASSUME NEW t \in Trunks, NEW g \in Hubs, NEW i \in DOMAIN chan'[<<t, g>>], NEW j \in DOMAIN chan'[<<t, g>>],
                        i < j, log'[chan'[<<t, g>>][i][1]].src = log'[chan'[<<t, g>>][j][1]].src
                 PROVE  chan'[<<t, g>>][i][1] < chan'[<<t, g>>][j][1]
    BY Zenon DEF TrunkGrows, Src
  <2>2. i \in Nat /\ j \in Nat
    <3>1. chan'[<<t, g>>] \in Seq(Copy)
      BY Zenon DEF MeshTypes
    <3>2. QED
      BY <3>1, SeqIndex, Zenon
  <2>3. ~New(t, g, i)
    BY <2>1, <2>2, NotBefore, Zenon
  <2> HIDE DEF Old, New
  <2>4. PICK a : Old(t, g, i, a)
    BY <1>4, <2>3, Zenon
  <2>5. CASE New(t, g, j)
    BY <2>1, <2>4, <2>5, Zenon DEF Ahead, Old, New
  <2>6. ASSUME NEW b, Old(t, g, j, b) PROVE chan'[<<t, g>>][i][1] < chan'[<<t, g>>][j][1]
    <3>1. a < b
      BY <2>1, <2>2, <2>4, <2>6, Successors, Zenon DEF Old
    <3>2. QED
      BY <1>1, <2>1, <2>4, <2>6, <3>1, Zenon DEF TrunkGrows, Old
  <2>7. QED
    BY <1>4, <2>5, <2>6, Zenon
<1>8. HeardBeyond'
  <2>1. SUFFICES ASSUME NEW t \in Trunks, NEW h \in Hubs, NEW n \in Nodes, NEW i \in DOMAIN chan'[<<t, h>>],
                        NEW j \in DOMAIN heard'[n], Beyond(t, h, Home[n]),
                        log'[heard'[n][j]].src = log'[chan'[<<t, h>>][i][1]].src
                 PROVE  heard'[n][j] < chan'[<<t, h>>][i][1]
    BY <1>3 DEF HeardBeyond, Src
  <2>2. CASE New(t, h, i) /\ NewH(n, j)
    BY <2>1, <2>2, Zenon DEF Spread
  <2>3. CASE New(t, h, i) /\ OldH(n, j)
    BY <2>1, <2>3, Zenon DEF Ahead
  <2>4. ASSUME NEW a, Old(t, h, i, a), NewH(n, j) PROVE heard'[n][j] < chan'[<<t, h>>][i][1]
    BY <2>1, <2>4, Zenon DEF Behind
  <2>5. ASSUME NEW a, Old(t, h, i, a), OldH(n, j) PROVE heard'[n][j] < chan'[<<t, h>>][i][1]
    BY <1>1, <2>1, <2>5, Zenon DEF HeardBeyond
  <2> HIDE DEF Old, New, OldH, NewH
  <2>6. QED
    BY <1>4, <1>5, <2>2, <2>3, <2>4, <2>5, Zenon
<1>9. TrunkBeyond'
  <2>1. ASSUME NEW t \in Trunks, NEW h \in Hubs, NEW s \in Trunks, NEW g \in Hubs,
               NEW i \in DOMAIN chan'[<<t, h>>], NEW j \in DOMAIN chan'[<<s, g>>],
               s # t /\ Beyond(t, h, g) /\ log'[chan'[<<s, g>>][j][1]].src = log'[chan'[<<t, h>>][i][1]].src
        PROVE  chan'[<<s, g>>][j][1] < chan'[<<t, h>>][i][1]
    <3>1. CASE New(t, h, i) /\ New(s, g, j)
      BY <2>1, <3>1, Zenon DEF Spread
    <3>2. ASSUME NEW b, Old(s, g, j, b), New(t, h, i) PROVE chan'[<<s, g>>][j][1] < chan'[<<t, h>>][i][1]
      BY <2>1, <3>2, Zenon DEF Ahead
    <3>3. ASSUME NEW a, Old(t, h, i, a), New(s, g, j) PROVE chan'[<<s, g>>][j][1] < chan'[<<t, h>>][i][1]
      BY <2>1, <3>3, Zenon DEF Behind
    <3>4. ASSUME NEW a, Old(t, h, i, a), NEW b, Old(s, g, j, b) PROVE chan'[<<s, g>>][j][1] < chan'[<<t, h>>][i][1]
      BY <1>1, <2>1, <3>4, Zenon DEF TrunkBeyond
    <3> HIDE DEF Old, New
    <3>5. QED
      BY <1>4, <3>1, <3>2, <3>3, <3>4, Zenon
  <2>2. QED
    <3>1. ASSUME NEW t \in Trunks, NEW h \in Hubs, NEW s \in Trunks, NEW g \in Hubs,
                 NEW i \in DOMAIN chan'[<<t, h>>], NEW j \in DOMAIN chan'[<<s, g>>]
          PROVE  s # t /\ Beyond(t, h, g)' /\ log'[chan'[<<s, g>>][j][1]].src = log'[chan'[<<t, h>>][i][1]].src
                   => chan'[<<s, g>>][j][1] < chan'[<<t, h>>][i][1]
      BY <1>3, <2>1, Zenon
    <3>2. QED
      BY <3>1, Zenon DEF TrunkBeyond, Src
<1>10. QED
  BY <1>6, <1>7, <1>8, <1>9, Zenon

\* In a tree the copies that leave a hub go to places that are not beyond one another.
LEMMA Parts ==
  ASSUME MeshTypes, IsTree, NEW h \in Hubs, NEW from
  PROVE  \A t \in Trunks, g \in Hubs : <<t, g>> \in OutOf(h, from) =>
           /\ \A n \in NodesAt(h) : ~Beyond(t, g, Home[n])
           /\ \A s \in Trunks, e \in Hubs : <<s, e>> \in OutOf(h, from) /\ s # t => ~Beyond(t, g, e)
<1>1. SUFFICES ASSUME NEW t \in Trunks, NEW g \in Hubs, <<t, g>> \in OutOf(h, from)
               PROVE  /\ \A n \in NodesAt(h) : ~Beyond(t, g, Home[n])
                      /\ \A s \in Trunks, e \in Hubs : <<s, e>> \in OutOf(h, from) /\ s # t => ~Beyond(t, g, e)
  BY Zenon
<1>2. t \in DOMAIN net /\ h \in Ends(t) /\ g = Far(t, h)
  BY <1>1, OutIs, Zenon
<1>3. /\ ~Beyond(t, g, h)
      /\ \A r \in DOMAIN net \ {t} : h \in Ends(r) => \A e \in Ends(r) : ~Beyond(t, g, e)
  BY <1>2, NearIsNotBeyond, Zenon
<1>4. ASSUME NEW n \in NodesAt(h) PROVE ~Beyond(t, g, Home[n])
  BY <1>3, Zenon DEF NodesAt
<1>5. ASSUME NEW s \in Trunks, NEW e \in Hubs, <<s, e>> \in OutOf(h, from), s # t PROVE ~Beyond(t, g, e)
  <2>1. s \in DOMAIN net /\ h \in Ends(s) /\ e \in Ends(s)
    BY <1>5, OutIs, Zenon
  <2>2. QED
    BY <1>3, <1>5, <2>1, Zenon
<1>6. QED
  BY <1>4, <1>5, Zenon

LEMMA SendOrder ==
  ASSUME MeshInv, Directed, IsTree, NEW n \in Nodes, NEW k, log'[k].src = n,
         \A j \in DOMAIN log : j < k
  PROVE  /\ Ahead(k, OutOf(Home[n], None), NodesAt(Home[n]))
         /\ Behind(k, OutOf(Home[n], None), NodesAt(Home[n]), {})
         /\ Spread(k, OutOf(Home[n], None), NodesAt(Home[n]))
<1> DEFINE h == Home[n]
<1>1. MeshTypes /\ h \in Hubs
  BY Constants, Zenon DEF MeshInv
<1>2. Ahead(k, OutOf(h, None), NodesAt(h))
  <2>1. \A m \in Nodes : \A i \in DOMAIN heard[m] : heard[m][i] < k
    BY Zenon DEF MeshInv, HeardIsSound
  <2>2. \A t \in Trunks, g \in Hubs : \A i \in DOMAIN chan[<<t, g>>] : chan[<<t, g>>][i][1] < k
    BY Zenon DEF MeshInv, ChannelsAreSound
  <2>3. QED
    BY <2>1, <2>2, Zenon DEF Ahead, NodesAt
<1>3. ASSUME NEW t \in Trunks, NEW g \in Hubs, NEW i \in DOMAIN chan[<<t, g>>], Src(chan[<<t, g>>][i][1]) = n
      PROVE  t \in DOMAIN net /\ g \in Ends(t) /\ ~Beyond(t, g, h)
  <2>1. t \in DOMAIN net /\ g \in Ends(t)
    BY Zenon DEF MeshInv, ChannelsAreSound, MeshTypes
  <2>2. PICK S \in SUBSET Hubs : IsCut(S, t) /\ g \in S
    BY <1>1, <2>1, CutExists, Zenon
  <2>3. h \notin S
    BY <1>3, <2>2, Zenon DEF Directed
  <2>4. QED
    BY <2>1, <2>2, <2>3, Zenon DEF Beyond
<1> HIDE DEF h
<1>4. Behind(k, OutOf(h, None), NodesAt(h), {})
  <2>1. SUFFICES ASSUME NEW t \in Trunks, NEW e \in Hubs, NEW i \in DOMAIN chan[<<t, e>>],
                        Src(chan[<<t, e>>][i][1]) = n
                 PROVE  /\ \A m \in NodesAt(h) : ~Beyond(t, e, Home[m])
                        /\ \A s \in Trunks, g \in Hubs : <<s, g>> \in OutOf(h, None) /\ s # t => ~Beyond(t, e, g)
    BY DEF Behind
  <2>2. t \in DOMAIN net /\ e \in Ends(t) /\ ~Beyond(t, e, h)
    BY <1>3, <2>1, Zenon
  <2>3. \A m \in NodesAt(h) : ~Beyond(t, e, Home[m])
    BY <2>2, Zenon DEF NodesAt
  <2>4. ASSUME NEW s \in Trunks, NEW g \in Hubs, <<s, g>> \in OutOf(h, None), s # t, Beyond(t, e, g) PROVE FALSE
    <3>1. s \in DOMAIN net /\ h \in Ends(s) /\ g \in Ends(s)
      BY <1>1, <2>4, OutIs, Zenon
    <3>2. QED
      BY <1>1, <2>2, <2>4, <3>1, BeyondAlongTrunk, Zenon
  <2>5. QED
    BY <2>3, <2>4, Zenon
<1>5. Spread(k, OutOf(h, None), NodesAt(h))
  BY <1>1, Parts, Zenon DEF Spread
<1>6. QED
  BY <1>2, <1>4, <1>5, Zenon DEF h

LEMMA ReadOrder ==
  ASSUME MeshInv, TreeInv, IsTree, NEW t \in Trunks, NEW h \in Hubs, HubReads(t, h)
  PROVE  LET k == chan[<<t, h>>][1][1]
         IN  /\ Ahead(k, OutOf(h, t), NodesAt(h))
             /\ Behind(k, OutOf(h, t), NodesAt(h), {<<t, h>>})
             /\ Spread(k, OutOf(h, t), NodesAt(h))
<1> DEFINE k == chan[<<t, h>>][1][1]
<1>1. MeshTypes /\ HeardGrows /\ TrunkGrows /\ HeardBeyond /\ TrunkBeyond
  BY Zenon DEF MeshInv, TreeInv
<1>2. /\ t \in DOMAIN net /\ h \in Ends(t) /\ 1 \in DOMAIN chan[<<t, h>>] /\ k \in DOMAIN log
      /\ log' = log
  BY ReadsDoes, Zenon
<1>3. log'[k].src = Src(chan[<<t, h>>][1][1])
  BY <1>2, Zenon DEF Src
<1>4. Beyond(t, h, h)
  BY Zenon DEF Beyond
<1>5. ASSUME NEW s \in Trunks, NEW g \in Hubs, <<s, g>> \in OutOf(h, t)
      PROVE  /\ s \in DOMAIN net \ {t} /\ h \in Ends(s) /\ g = Far(s, h) /\ g \in Ends(s) /\ Beyond(t, h, g)
             /\ \A e : Beyond(s, g, e) => Beyond(t, h, e)
  <2>1. s \in DOMAIN net \ {t} /\ h \in Ends(s) /\ g = Far(s, h) /\ g \in Ends(s)
    BY <1>1, <1>5, OutIs, Zenon
  <2>2. \A e : Beyond(s, g, e) => Beyond(t, h, e)
    BY <1>1, <1>2, <2>1, BeyondIsTransitive, Zenon
  <2>3. Beyond(s, g, g)
    BY Zenon DEF Beyond
  <2>4. QED
    BY <2>1, <2>2, <2>3, Zenon
<1>6. Ahead(k, OutOf(h, t), NodesAt(h))
  <2>1. ASSUME NEW n \in Nodes, NEW i \in DOMAIN heard[n], Beyond(t, h, Home[n]), Src(heard[n][i]) = log'[k].src
        PROVE  heard[n][i] < k
    BY <1>1, <1>2, <1>3, <2>1, Zenon DEF HeardBeyond
  <2>2. ASSUME NEW s \in Trunks, NEW g \in Hubs, NEW i \in DOMAIN chan[<<s, g>>], s # t, Beyond(t, h, g),
               Src(chan[<<s, g>>][i][1]) = log'[k].src
        PROVE  chan[<<s, g>>][i][1] < k
    BY <1>1, <1>2, <1>3, <2>2, Zenon DEF TrunkBeyond
  <2> HIDE DEF k
  <2>3. ASSUME NEW n \in NodesAt(h), NEW i \in DOMAIN heard[n], Src(heard[n][i]) = log'[k].src
        PROVE  heard[n][i] < k
    BY <1>4, <2>1, <2>3, Zenon DEF NodesAt
  <2>4. ASSUME NEW s \in Trunks, NEW g \in Hubs, <<s, g>> \in OutOf(h, t)
        PROVE  /\ \A i \in DOMAIN chan[<<s, g>>] :
                    Src(chan[<<s, g>>][i][1]) = log'[k].src => chan[<<s, g>>][i][1] < k
               /\ \A n \in Nodes : \A i \in DOMAIN heard[n] :
                    Beyond(s, g, Home[n]) /\ Src(heard[n][i]) = log'[k].src => heard[n][i] < k
    BY <1>5, <2>1, <2>2, <2>4, Zenon
  <2>5. ASSUME NEW s \in Trunks, NEW g \in Hubs, <<s, g>> \in OutOf(h, t),
               NEW r \in Trunks, NEW e \in Hubs, NEW i \in DOMAIN chan[<<r, e>>],
               r # s, Beyond(s, g, e), Src(chan[<<r, e>>][i][1]) = log'[k].src
        PROVE  chan[<<r, e>>][i][1] < k
    <3>1. r # t
      <4>1. SUFFICES ASSUME r = t PROVE FALSE
        BY Zenon
      <4>2. e \in Ends(t)
        BY <4>1, Zenon DEF MeshInv, ChannelsAreSound
      <4>3. QED
        BY <1>1, <1>2, <1>5, <2>5, <4>1, <4>2, NearIsNotBeyond
    <3>2. Beyond(t, h, e)
      BY <1>5, <2>5, Zenon
    <3>3. QED
      BY <2>2, <2>5, <3>1, <3>2, Zenon
  <2>6. QED
    BY <2>3, <2>4, <2>5 DEF Ahead
<1>7. Behind(k, OutOf(h, t), NodesAt(h), {<<t, h>>})
  <2>1. ASSUME NEW s \in Trunks, NEW e \in Hubs, NEW i \in DOMAIN chan[<<s, e>>],
               Src(chan[<<s, e>>][i][1]) = log'[k].src, <<s, e>> = <<t, h>> => i > 1, Beyond(s, e, h)
        PROVE  k < chan[<<s, e>>][i][1]
    <3>1. CASE s # t
      BY <1>1, <1>2, <1>3, <2>1, <3>1, Zenon DEF TrunkBeyond
    <3>2. CASE s = t /\ e = h
      BY <1>1, <1>2, <1>3, <2>1, <3>2, Zenon DEF TrunkGrows
    <3>3. CASE s = t /\ e # h
      <4>1. e \in Ends(t)
        BY <3>3, Zenon DEF MeshInv, ChannelsAreSound
      <4>2. e = Far(t, h)
        BY <1>2, <3>3, <4>1, Zenon DEF Ends, Far
      <4>3. QED
        BY <1>1, <1>2, <2>1, <3>3, <4>2, NearIsNotBeyond, Zenon
    <3>4. QED
      BY <3>1, <3>2, <3>3, Zenon
  <2> HIDE DEF k
  <2>2. ASSUME NEW s \in Trunks, NEW e \in Hubs, NEW i \in DOMAIN chan[<<s, e>>],
               NEW r \in Trunks, NEW g \in Hubs, <<r, g>> \in OutOf(h, t), r # s, Beyond(s, e, g)
        PROVE  Beyond(s, e, h)
    <3>1. s \in DOMAIN net
      BY Zenon DEF MeshInv, ChannelsAreSound, MeshTypes
    <3>2. QED
      BY <1>1, <1>5, <2>2, <3>1, BeyondAlongTrunk, Zenon
  <2>3. ASSUME NEW s \in Trunks, NEW e \in Hubs, NEW i \in DOMAIN chan[<<s, e>>],
               Src(chan[<<s, e>>][i][1]) = log'[k].src, <<s, e>> \in {<<t, h>>} => i > 1
        PROVE  /\ \A n \in NodesAt(h) : Beyond(s, e, Home[n]) => k < chan[<<s, e>>][i][1]
               /\ \A r \in Trunks, g \in Hubs :
                    <<r, g>> \in OutOf(h, t) /\ r # s /\ Beyond(s, e, g) => k < chan[<<s, e>>][i][1]
    BY <2>1, <2>2, <2>3, Zenon DEF NodesAt
  <2>4. QED
    BY <2>3, Zenon DEF Behind
<1>8. Spread(k, OutOf(h, t), NodesAt(h))
  BY <1>1, Parts, Zenon DEF Spread
<1>9. QED
  BY <1>6, <1>7, <1>8, Zenon

-----------------------------------------------------------------------------
(* 9. Order and privacy in a tree *)

LEMMA TreeInit == Init => TreeInv /\ DataIsPrivate
<1> SUFFICES ASSUME Init PROVE TreeInv /\ DataIsPrivate
  BY Zenon
<1>1. \A t \in Trunks, h \in Hubs : DOMAIN chan[<<t, h>>] = {}
  BY NoIndex, Zenon DEF Init
<1>2. \A n \in Nodes : DOMAIN heard[n] = {}
  BY NoIndex, Zenon DEF Init
<1>3. TreeInv
  BY <1>1, <1>2 DEF TreeInv, HeardGrows, TrunkGrows, HeardBeyond, TrunkBeyond
<1>4. DataIsPrivate
  BY <1>2, Zenon DEF DataIsPrivate
<1>5. QED
  BY <1>3, <1>4, Zenon

\* A hub sends data to an end of its connection, if to anyone.
LEMMA HearsAnEnd ==
  ASSUME MeshInv, LogKept, NEW h \in Hubs, NEW src, NEW k \in DOMAIN log', log'[k].type = "data",
         NEW m \in Hears(h, src, k)
  PROVE  /\ m \in Nodes /\ Home[m] = h /\ m \in {log'[log'[k].aa].src, log'[log'[k].aa].to}
         /\ \E c \in Entries(h, log'[k].aa) : m = Other(c, src)
<1>1. PICK c \in Entries(h, log'[k].aa) : m = Other(c, src) /\ m \in Locals(h)
  BY Zenon DEF Hears
<1>2. m \in Nodes /\ Home[m] = h /\ m # None
  BY <1>1, Constants, Zenon DEF Locals, MeshInv, MeshTypes
<1>3. c \in conns[h] /\ c.aa = log'[k].aa
  BY <1>1, Zenon DEF Entries
<1>4. c.aa \in DOMAIN log /\ c.a \in {log[c.aa].src, None} /\ c.b \in {log[c.aa].to, None}
  BY <1>3, Zenon DEF MeshInv, RoutesAreSound
<1>5. Other(c, src) \in {c.a, c.b}
  BY Zenon DEF Other
<1>6. QED
  BY <1>1, <1>2, <1>3, <1>4, <1>5, Zenon DEF LogKept

\* Data keeps its source and its connection.
LEMMA DataKept ==
  ASSUME MeshInv, LogKept, NEW j \in DOMAIN log, log'[j].type = "data"
  PROVE  /\ log[j].type = "data" /\ log'[j].src = log[j].src /\ log'[j].aa = log[j].aa
         /\ log'[log[j].aa].src = log[log[j].aa].src /\ log'[log[j].aa].to = log[log[j].aa].to
<1>1. log[j].type = "data" /\ log'[j].src = log[j].src /\ log'[j].aa = log[j].aa
  BY Zenon DEF LogKept
<1>2. log[j].aa \in DOMAIN log
  BY <1>1, Zenon DEF MeshInv, LogIsSound
<1>3. QED
  BY <1>1, <1>2, Zenon DEF LogKept

LEMMA PrivateKept ==
  ASSUME MeshInv, MeshInv', IsTree, DataIsPrivate, net' = net, LogKept,
         NEW h \in Hubs, NEW src, NEW k \in DOMAIN log', k \in Nat,
         \A n \in Nodes : heard'[n] = IF n \in Hears(h, src, k) THEN Append(heard[n], k) ELSE heard[n],
         log'[k].type = "data" => log'[k].src \notin Hears(h, src, k)
  PROVE  DataIsPrivate'
<1>1. SUFFICES ASSUME NEW n \in Nodes, NEW i \in DOMAIN heard'[n], log'[heard'[n][i]].type = "data"
               PROVE  LET f == log'[heard'[n][i]]
                      IN  n # f.src /\ n \in {log'[f.aa].src, log'[f.aa].to}
  BY Zenon DEF DataIsPrivate
<1>2. CASE i \in DOMAIN heard[n] /\ heard'[n][i] = heard[n][i]
  <2> DEFINE j == heard[n][i]
  <2>1. j \in DOMAIN log /\ log'[j].type = "data"
    BY <1>1, <1>2, Zenon DEF MeshInv, HeardIsSound
  <2>2. /\ log[j].type = "data" /\ log'[j].src = log[j].src /\ log'[j].aa = log[j].aa
        /\ log'[log[j].aa].src = log[log[j].aa].src /\ log'[log[j].aa].to = log[log[j].aa].to
    BY <2>1, DataKept, Zenon
  <2>3. n # log[j].src /\ n \in {log[log[j].aa].src, log[log[j].aa].to}
    BY <1>2, <2>2, Zenon DEF DataIsPrivate
  <2> HIDE DEF j
  <2>4. QED
    BY <1>2, <2>2, <2>3, Zenon DEF j
<1>3. CASE ~(i \in DOMAIN heard[n] /\ heard'[n][i] = heard[n][i])
  <2>1. n \in Hears(h, src, k) /\ heard'[n] = Append(heard[n], k)
    BY <1>3, Zenon
  <2>2. heard[n] \in Seq(Nat)
    BY Zenon DEF MeshInv, MeshTypes
  <2>3. Longer(heard'[n], heard[n], k)
    BY <2>1, <2>2, AppendIsLonger, Zenon
  <2>4. heard'[n][i] = k
    BY <1>3, <2>3, Zenon DEF Longer
  <2>5. n \in {log'[log'[k].aa].src, log'[log'[k].aa].to}
    BY <1>1, <2>1, <2>4, HearsAnEnd, Zenon
  <2>6. n # log'[k].src
    BY <1>1, <2>1, <2>4, Zenon
  <2>7. QED
    BY <2>4, <2>5, <2>6, Zenon
<1>4. QED
  BY <1>2, <1>3, Zenon

LEMMA OrderAndPrivacyKept ==
  ASSUME MeshInv, IsTree => Directed, TreeInv, DataIsPrivate, [Next]_vars
  PROVE  MeshInv' /\ TreeInv' /\ DataIsPrivate'
<1>1. ASSUME net' = net PROVE IsTree' <=> IsTree
  BY <1>1, Zenon DEF IsTree, IsCut
<1>2. ASSUME NEW n \in Nodes, NEW type \in {"adv", "connect", "data"}, NEW to \in Nodes \cup {None},
             NEW aa \in Nat, SendStep(n, type, to, aa)
      PROVE  MeshInv' /\ TreeInv' /\ DataIsPrivate'
  <2> DEFINE k == Len(log) + 1
  <2>1. MeshInv' /\ LogKept /\ net' = net /\ Forwards(Home[n], n, None, k, 0, chan)
    BY <1>2, SendKeeps, Zenon
  <2>2. Sent(n, type, to, aa, k)
    BY <1>2, SendsDoes, Zenon DEF SendStep
  <2> HIDE DEF k
  <2>3. /\ k \in Nat /\ k \in DOMAIN log' /\ log'[k].src = n /\ log'[k].type = type /\ log'[k].aa = aa
        /\ \A j \in DOMAIN log : j < k
        /\ forward_frame(Home[n], n, None, k, 0, chan)
    BY <2>2, Zenon DEF Sent
  <2>4. MeshTypes' /\ Home[n] \in Hubs /\ n # None
    BY <2>1, Constants, Zenon DEF MeshInv
  <2>0. LogKept /\ k \in DOMAIN log' /\ Home[n] \in Hubs
    BY <2>1, <2>3, <2>4, Zenon
  <2>5. ASSUME IsTree PROVE TreeInv'
    <3>1. Moved(k, OutOf(Home[n], None), NodesAt(Home[n]), {})
      BY <2>3, SendMoves, Zenon
    <3>2. /\ Ahead(k, OutOf(Home[n], None), NodesAt(Home[n]))
          /\ Behind(k, OutOf(Home[n], None), NodesAt(Home[n]), {})
          /\ Spread(k, OutOf(Home[n], None), NodesAt(Home[n]))
      BY <2>3, <2>5, SendOrder, Zenon
    <3>3. QED
      BY <2>1, <2>4, <2>5, <3>1, <3>2, OrderKept, Zenon DEF TreeInv
  <2>6. ASSUME IsTree PROVE DataIsPrivate'
    <3>1. \A m \in Nodes : heard'[m] = IF m \in Hears(Home[n], n, k) THEN Append(heard[m], k) ELSE heard[m]
      BY <2>1, Zenon DEF Forwards
    <3>2. ASSUME log'[k].type = "data", n \in Hears(Home[n], n, k) PROVE FALSE
      <4>0. \E c \in Entries(Home[n], log'[k].aa) : n = Other(c, n)
        BY <2>0, <3>2, HearsAnEnd
      <4>1. PICK c \in Entries(Home[n], aa) : n = Other(c, n)
        BY <2>3, <4>0, Zenon
      <4>2. c.aa = aa /\ c.aa \in DOMAIN log /\ c.a \in {log[c.aa].src, None} /\ c.b \in {log[c.aa].to, None}
            /\ log[c.aa].type = "connect"
        BY <2>4, <4>1, Zenon DEF Entries, MeshInv, RoutesAreSound
      <4>3. log[aa].src # log[aa].to
        BY <4>2, Zenon DEF MeshInv, LogIsSound
      <4>4. QED
        BY <2>4, <4>1, <4>2, <4>3, SMTT(30) DEF Other
    <3>3. MeshInv' /\ net' = net /\ k \in Nat /\ (log'[k].type = "data" => log'[k].src \notin Hears(Home[n], n, k))
      BY <2>1, <2>3, <3>2, Zenon
    <3>4. QED
      BY <2>0, <2>6, <3>1, <3>3, PrivateKept
  <2>7. QED
    BY <1>1, <2>1, <2>5, <2>6, Zenon DEF TreeInv, DataIsPrivate
<1>3. ASSUME NEW t \in Trunks, NEW h \in Hubs, HubReads(t, h)
      PROVE  MeshInv' /\ TreeInv' /\ DataIsPrivate'
  <2> DEFINE k == chan[<<t, h>>][1][1]
             ttl == chan[<<t, h>>][1][2]
  <2>1. /\ MeshInv' /\ LogKept /\ net' = net /\ ttl \in 0 .. FreshTTL
        /\ ttl = 0 => UNCHANGED heard
        /\ ttl > 0 => Forwards(h, None, t, k, ttl, Rest(t, h))
    BY <1>3, ReadKeeps, Zenon
  <2>2. /\ t \in DOMAIN net /\ h \in Ends(t) /\ 1 \in DOMAIN chan[<<t, h>>]
        /\ k \in DOMAIN log /\ k \in Nat /\ log' = log
    BY <1>3, ReadsDoes, Zenon
  <2>3. ASSUME IsTree PROVE TreeInv'
    <3>1. Moved(k, OutOf(h, t), NodesAt(h), {<<t, h>>})
      BY <1>3, ReadMoves, Zenon
    <3>2. /\ Ahead(k, OutOf(h, t), NodesAt(h))
          /\ Behind(k, OutOf(h, t), NodesAt(h), {<<t, h>>})
          /\ Spread(k, OutOf(h, t), NodesAt(h))
      BY <1>3, <2>3, ReadOrder, Zenon
    <3> HIDE DEF k, ttl
    <3>3. MeshTypes'
      BY <2>1, Zenon DEF MeshInv
    <3>4. QED
      BY <2>1, <2>3, <3>1, <3>2, <3>3, OrderKept, Zenon DEF TreeInv
  <2>4. ASSUME IsTree PROVE Home[Src(k)] # h
    BY <1>3, <2>4, ComesFromAfar, Zenon
  <2> HIDE DEF k, ttl
  <2>5. ASSUME IsTree PROVE DataIsPrivate'
    <3>1. CASE ttl = 0
      <4>1. heard' = heard /\ log' = log
        BY <2>1, <2>2, <3>1, Zenon
      <4>2. QED
        BY <2>5, <4>1, Zenon DEF DataIsPrivate
    <3>2. CASE ttl # 0
      <4>1. Forwards(h, None, t, k, ttl, Rest(t, h))
        BY <2>1, <3>2, Constants
      <4>2. \A m \in Nodes : heard'[m] = IF m \in Hears(h, None, k) THEN Append(heard[m], k) ELSE heard[m]
        BY <4>1, Zenon DEF Forwards
      <4>3. ASSUME log'[k].type = "data" PROVE log'[k].src \notin Hears(h, None, k)
        <5>1. LogKept /\ k \in DOMAIN log'
          BY <2>1, <2>2, Zenon
        <5>2. \A m \in Hears(h, None, k) : Home[m] = h
          BY <4>3, <5>1, HearsAnEnd
        <5>3. Home[log'[k].src] # h
          BY <2>2, <2>4, <2>5, Zenon DEF Src
        <5>4. QED
          BY <5>2, <5>3, Zenon
      <4>4. MeshInv' /\ net' = net /\ k \in Nat /\ LogKept /\ k \in DOMAIN log'
        BY <2>1, <2>2, Zenon
      <4>5. QED
        BY <2>5, <4>2, <4>3, <4>4, PrivateKept, Zenon
    <3>3. QED
      BY <3>1, <3>2, Zenon
  <2>6. QED
    BY <1>1, <2>1, <2>3, <2>5, Zenon DEF TreeInv, DataIsPrivate
<1>4. ASSUME Mends \/ Breaks PROVE MeshInv' /\ TreeInv' /\ DataIsPrivate'
  <2>1. MeshInv' /\ LogKept /\ net' = net /\ Moved(0, {}, {}, {})
    BY <1>4, QuietKeeps, QuietMoves, Zenon
  <2>2. Ahead(0, {}, {}) /\ Behind(0, {}, {}, {}) /\ Spread(0, {}, {})
    BY Zenon DEF Ahead, Behind, Spread
  <2>3. MeshTypes'
    BY <2>1, Zenon DEF MeshInv
  <2>4. ASSUME IsTree PROVE TreeInv'
    BY <2>1, <2>2, <2>3, <2>4, OrderKept, Zenon DEF TreeInv
  <2>5. ASSUME IsTree PROVE DataIsPrivate'
    <3>1. heard' = heard
      BY <1>4, Zenon DEF Mends, Breaks
    <3>2. ASSUME NEW n \in Nodes, NEW i \in DOMAIN heard[n], log'[heard[n][i]].type = "data"
          PROVE  LET f == log'[heard[n][i]] IN n # f.src /\ n \in {log'[f.aa].src, log'[f.aa].to}
      <4> DEFINE j == heard[n][i]
      <4>1. j \in DOMAIN log /\ log'[j].type = "data"
        BY <3>2, Zenon DEF MeshInv, HeardIsSound
      <4>2. /\ log[j].type = "data" /\ log'[j].src = log[j].src /\ log'[j].aa = log[j].aa
            /\ log'[log[j].aa].src = log[log[j].aa].src /\ log'[log[j].aa].to = log[log[j].aa].to
        BY <2>1, <4>1, DataKept, Zenon
      <4>3. n # log[j].src /\ n \in {log[log[j].aa].src, log[log[j].aa].to}
        BY <2>5, <4>2, Zenon DEF DataIsPrivate
      <4>4. QED
        BY <4>2, <4>3, Zenon
    <3>3. QED
      BY <3>1, <3>2 DEF DataIsPrivate
  <2>6. QED
    BY <1>1, <2>1, <2>4, <2>5, Zenon DEF TreeInv, DataIsPrivate
<1>5. QED
  BY <1>2, <1>3, <1>4, NextIs, Zenon

\* The inductive invariant of order and privacy.
THEOREM TreeInvariant == Spec => [](TreeInv /\ DataIsPrivate)
<1>1. Init => TreeInv /\ DataIsPrivate
  BY TreeInit, Zenon
<1>2. MeshInv /\ (IsTree => Directed) /\ (TreeInv /\ DataIsPrivate) /\ [Next]_vars => (TreeInv /\ DataIsPrivate)'
  BY OrderAndPrivacyKept, Zenon
<1>3. QED
  BY <1>1, <1>2, MeshInvariant, FramesLeadAway, PTL DEF Spec

\* forward_frame in a tree of hubs: every node hears the frames of another in the order in
\* which they were sent, none twice, whatever trunks and sockets break and come back.
THEOREM FramesAreHeardInOrder == Spec => []HeardInOrder
<1>1. TreeInv => HeardInOrder
  BY Zenon DEF TreeInv, HeardGrows, Src, HeardInOrder
<1>2. QED
  BY <1>1, TreeInvariant, PTL

\* forward_frame's routing of data in a tree of hubs: only the other end hears it.
THEOREM DataStaysPrivate == Spec => []DataIsPrivate
BY TreeInvariant, PTL

-----------------------------------------------------------------------------
(* 10. What is owed *)

OnTrunk(c, e) == \E j \in DOMAIN chan[c] : chan[c][j] = e
\* The same after a step; e is what it was before.
Arrives(c, e) == \E j \in DOMAIN chan'[c] : chan'[c][j] = e

\* Frame k is on the way along w.
Underway(k, w) == \E i \in 1 .. Len(w) : OnTrunk(w[i], <<k, FreshTTL - i + 1>>)

\* Node n is owed frame k.
Due(n, k) ==
  \/ faults = 0 /\ log[k].type # "data" /\ n # log[k].src
  \/ IsTree /\ log[k].settled /\ n \in {log[log[k].aa].src, log[log[k].aa].to} \ {log[k].src}

\* w is a walk short enough to bring the frames of hub h to node n.
Leads(w, h, n) == IsWalk(h, w) /\ Len(w) \in 1 .. FreshTTL /\ w[Len(w)][2] = Home[n]

\* Node n has heard frame k or it is on its way along every walk that leads there.
Reaching(n, k) ==
  /\ Home[n] = Home[Src(k)] => Heard(n, k)
  /\ \A w : Leads(w, Home[Src(k)], n) => Heard(n, k) \/ Underway(k, w)

Delivers == \A k \in DOMAIN log, n \in Nodes : Due(n, k) => Reaching(n, k)

\* No frame goes further than its TTL allows.
WithinRange ==
  /\ \A t \in Trunks, h \in Hubs : \A i \in DOMAIN chan[<<t, h>>] :
       h \in Within(Home[Src(chan[<<t, h>>][i][1])], FreshTTL - chan[<<t, h>>][i][2] + 1)
  /\ \A n \in Nodes : \A i \in DOMAIN heard[n] : Home[n] \in Within(Home[Src(heard[n][i])], FreshTTL)

\* Nothing has broken yet, or nothing since a settled frame was sent.
Unbroken ==
  /\ faults = 0 => up = DOMAIN net /\ attached = Nodes
  /\ \A k \in DOMAIN log : log[k].settled =>
       /\ up = DOMAIN net
       /\ \A m \in {log[log[k].aa].src, log[log[k].aa].to} :
            m \in attached /\ Entries(Home[m], log[k].aa) # {}

\* In a tree a hub knows exactly those ends of a connection that are its own nodes.
RoutesAreExact ==
  \A h \in Hubs : \A c \in conns[h] :
    /\ c.a = IF Home[log[c.aa].src] = h THEN log[c.aa].src ELSE None
    /\ c.b = IF Home[log[c.aa].to] = h THEN log[c.aa].to ELSE None

RangeInv == Delivers /\ WithinRange /\ Unbroken /\ (IsTree => RoutesAreExact)

\* The graph does not change, and what is defined by it.
LEMMA SameGraph ==
  ASSUME net' = net
  PROVE  /\ \A h, d : Within(h, d)' = Within(h, d)
         /\ \A w, h, n : Leads(w, h, n)' <=> Leads(w, h, n)
         /\ IsTree' <=> IsTree
<1>1. \A h, d : Within(h, d)' = Within(h, d)
  BY DEF Within, Ends
<1>2. \A h, w : IsWalk(h, w)' <=> IsWalk(h, w)
  BY DEF IsWalk, Ends, Far
<1>3. \A w, h, n : Leads(w, h, n)' <=> Leads(w, h, n)
  BY <1>2, Zenon DEF Leads
<1>4. IsTree' <=> IsTree
  BY Zenon DEF IsTree, IsCut
<1>5. QED
  BY <1>1, <1>3, <1>4, Zenon

\* What is forwarded arrives, and nothing that was there is lost.
LEMMA ForwardReaches ==
  ASSUME MeshInv, NEW h, NEW src, NEW from, NEW k \in Nat, NEW ttl,
         NextTTL(from, ttl) \in Nat, NEW rest \in [Trunks \X Hubs -> Seq(Copy)],
         Forwards(h, src, from, k, ttl, rest)
  PROVE  /\ \A n \in Nodes : \A j : Heard(n, j) => Heard(n, j)'
         /\ \A n \in Nodes : n \in Hears(h, src, k) => Heard(n, k)'
         /\ \A t \in Trunks, g \in Hubs : \A i \in DOMAIN rest[<<t, g>>] : Arrives(<<t, g>>, rest[<<t, g>>][i])
         /\ \A t \in Trunks, g \in Hubs : <<t, g>> \in OutOf(h, from) => Arrives(<<t, g>>, <<k, NextTTL(from, ttl)>>)
<1> DEFINE new == <<k, NextTTL(from, ttl)>>
<1>1. new \in Copy
  BY Zenon DEF Copy
<1>2. /\ \A t \in Trunks, g \in Hubs :
           chan'[<<t, g>>] = IF <<t, g>> \in OutOf(h, from) THEN Append(rest[<<t, g>>], new) ELSE rest[<<t, g>>]
      /\ \A n \in Nodes : heard'[n] = IF n \in Hears(h, src, k) THEN Append(heard[n], k) ELSE heard[n]
  BY Zenon DEF Forwards
<1> HIDE DEF new
<1>3. ASSUME NEW n \in Nodes
      PROVE  /\ \A j : Heard(n, j) => Heard(n, j)'
             /\ n \in Hears(h, src, k) => Heard(n, k)'
  <2>1. heard[n] \in Seq(Nat)
    BY Zenon DEF MeshInv, MeshTypes
  <2>2. CASE n \in Hears(h, src, k)
    <3>1. heard'[n] = Append(heard[n], k)
      BY <1>2, <2>2, Zenon
    <3>2. /\ \A i \in DOMAIN heard[n] : i \in DOMAIN heard'[n] /\ heard'[n][i] = heard[n][i]
          /\ Len(heard[n]) + 1 \in DOMAIN heard'[n] /\ heard'[n][Len(heard[n]) + 1] = k
      BY <2>1, <3>1, AppendAt
    <3>3. QED
      BY <3>2, Zenon DEF Heard
  <2>3. CASE n \notin Hears(h, src, k)
    BY <1>2, <2>3, Zenon DEF Heard
  <2>4. QED
    BY <2>2, <2>3, Zenon
<1>4. ASSUME NEW t \in Trunks, NEW g \in Hubs
      PROVE  /\ \A i \in DOMAIN rest[<<t, g>>] : Arrives(<<t, g>>, rest[<<t, g>>][i])
             /\ <<t, g>> \in OutOf(h, from) => Arrives(<<t, g>>, new)
  <2> DEFINE r == rest[<<t, g>>]
  <2>1. r \in Seq(Copy)
    BY Zenon
  <2>2. CASE <<t, g>> \in OutOf(h, from)
    <3>1. chan'[<<t, g>>] = Append(r, new)
      BY <1>2, <2>2, Zenon
    <3> HIDE DEF r
    <3>2. /\ \A i \in DOMAIN r : i \in DOMAIN chan'[<<t, g>>] /\ chan'[<<t, g>>][i] = r[i]
          /\ Len(r) + 1 \in DOMAIN chan'[<<t, g>>] /\ chan'[<<t, g>>][Len(r) + 1] = new
      BY <1>1, <2>1, <3>1, AppendAt
    <3>3. QED
      BY <3>2, Zenon DEF Arrives, r
  <2>3. CASE <<t, g>> \notin OutOf(h, from)
    BY <1>2, <2>3, Zenon DEF Arrives
  <2>4. QED
    BY <2>2, <2>3, Zenon
<1>5. QED
  BY <1>3, <1>4, Zenon DEF new

\* Reading a trunk takes one frame from it.
LEMMA ReadLeaves ==
  ASSUME MeshInv, NEW t \in Trunks, NEW h \in Hubs, HubReads(t, h), NEW s \in Trunks, NEW g \in Hubs, NEW e,
         OnTrunk(<<s, g>>, e)
  PROVE  \/ <<s, g>> = <<t, h>> /\ e = chan[<<t, h>>][1]
         \/ \E i \in DOMAIN Rest(t, h)[<<s, g>>] : Rest(t, h)[<<s, g>>][i] = e
<1>1. PICK j \in DOMAIN chan[<<s, g>>] : chan[<<s, g>>][j] = e
  BY Zenon DEF OnTrunk
<1>2. chan \in [Trunks \X Hubs -> Seq(Copy)] /\ chan[<<t, h>>] # <<>>
  BY Zenon DEF MeshInv, MeshTypes, HubReads
<1>3. CASE <<s, g>> # <<t, h>>
  <2>1. Rest(t, h)[<<s, g>>] = chan[<<s, g>>]
    BY <1>2, <1>3, Zenon DEF Rest
  <2>2. QED
    BY <1>1, <2>1, Zenon
<1>4. CASE <<s, g>> = <<t, h>>
  <2>1. Rest(t, h)[<<s, g>>] = Tail(chan[<<s, g>>]) /\ chan[<<s, g>>] \in Seq(Copy) /\ chan[<<s, g>>] # <<>>
    BY <1>2, <1>4, Zenon DEF Rest
  <2>2. \/ j = 1
        \/ j - 1 \in DOMAIN Rest(t, h)[<<s, g>>] /\ Rest(t, h)[<<s, g>>][j - 1] = chan[<<s, g>>][j]
    BY <1>1, <2>1, TailAt
  <2>3. QED
    BY <1>1, <1>4, <2>2, Zenon
<1>5. QED
  BY <1>3, <1>4, Zenon

\* A frame and, if it is settled, its connection.
LEMMA FrameIs ==
  ASSUME MeshInv, NEW k \in DOMAIN log
  PROVE  /\ k \in Nat /\ Src(k) \in Nodes /\ Home[Src(k)] \in Hubs
         /\ log[k].settled => /\ log[k].type = "data" /\ log[k].aa \in DOMAIN log
                              /\ log[log[k].aa].src \in Nodes /\ log[log[k].aa].to \in Nodes
                              /\ log[log[k].aa].src # log[log[k].aa].to
                              /\ Src(k) \in {log[log[k].aa].src, log[log[k].aa].to}
<1>1. log \in Seq(Frame) /\ LogIsSound
  BY Zenon DEF MeshInv, MeshTypes
<1>2. \A j \in DOMAIN log : log[j].src \in Nodes
  <2>1. \A j \in DOMAIN log : log[j] \in Frame
    BY <1>1
  <2>2. QED
    BY <2>1, Zenon DEF Frame
<1>3. k \in Nat
  BY <1>1, SeqIndex, Zenon
<1>4. Home[Src(k)] \in Hubs
  BY <1>2, Constants, Zenon DEF Src
<1>5. QED
  BY <1>1, <1>2, <1>3, <1>4, Zenon DEF LogIsSound, Src

\* An end of a connection hears the data of the other if its hub has a route.
LEMMA HearsData ==
  ASSUME MeshInv, RoutesAreExact, NEW h \in Hubs, NEW k, log'[k].type = "data",
         NEW a \in Nodes, NEW b \in Nodes, a # b,
         log[log'[k].aa].src = a, log[log'[k].aa].to = b, log'[k].src \in {a, b},
         NEW n \in {a, b} \ {log'[k].src}, n \in attached, Home[n] = h, Entries(h, log'[k].aa) # {},
         NEW src, \/ src = None /\ Home[log'[k].src] # h
                  \/ src = log'[k].src /\ Home[src] = h
  PROVE  n \in Hears(h, src, k)
<1>1. PICK c \in Entries(h, log'[k].aa) : TRUE
  BY Zenon
<1>2. c \in conns[h] /\ c.aa = log'[k].aa
  BY <1>1, Zenon DEF Entries
<1>3. c.a = (IF Home[a] = h THEN a ELSE None) /\ c.b = (IF Home[b] = h THEN b ELSE None)
  BY <1>2 DEF RoutesAreExact
<1>4. a # None /\ b # None
  BY Constants, Zenon
<1>5. Other(c, src) = n
  <2>1. CASE n = a
    <3>1. log'[k].src = b
      BY <2>1, Zenon
    <3>2. QED
      BY <1>3, <1>4, <2>1, <3>1, Zenon DEF Other
  <2>2. CASE n = b
    <3>1. log'[k].src = a
      BY <2>2, Zenon
    <3>2. QED
      BY <1>3, <1>4, <2>2, <3>1, Zenon DEF Other
  <2>3. QED
    BY <2>1, <2>2, Zenon
<1>6. n \in Locals(h)
  BY Zenon DEF Locals
<1>7. QED
  BY <1>1, <1>5, <1>6, Zenon DEF Hears

\* What is owed was owed before, if nothing breaks.
LEMMA DueKept ==
  ASSUME MeshInv, net' = net, faults' = faults, NEW k \in DOMAIN log, NEW n,
         \A j \in DOMAIN log : log'[j] = log[j], Due(n, k)'
  PROVE  Due(n, k)
<1>1. log'[k] = log[k] /\ (IsTree' <=> IsTree)
  BY SameGraph, Zenon
<1>2. CASE log[k].settled
  <2>1. log'[log[k].aa] = log[log[k].aa]
    BY <1>2, FrameIs, Zenon
  <2>2. QED
    BY <1>1, <2>1, Zenon DEF Due
<1>3. CASE ~log[k].settled
  BY <1>1, <1>3, Zenon DEF Due
<1>4. QED
  BY <1>2, <1>3, Zenon

\* Whoever is being reached stays so if frames that are on their way stay or are heard.
LEMMA ReachKept ==
  ASSUME net' = net, NEW k, NEW n, log'[k] = log[k], Reaching(n, k), Heard(n, k) => Heard(n, k)',
         \A w : Leads(w, Home[Src(k)], n) /\ Underway(k, w) => Heard(n, k)' \/ Underway(k, w)'
  PROVE  Reaching(n, k)'
<1>1. Src(k)' = Src(k)
  BY Zenon DEF Src
<1>2. \A w : Leads(w, Home[Src(k)], n)' <=> Leads(w, Home[Src(k)], n)
  BY <1>1, SameGraph, Zenon
<1>3. QED
  BY <1>1, <1>2, SMTT(30) DEF Reaching

-----------------------------------------------------------------------------
(* 11. What is owed is delivered *)

\* Sending a frame starts it on every walk from its source.
LEMMA SendDelivers ==
  ASSUME MeshInv, RangeInv, NEW n \in Nodes, NEW type \in {"adv", "connect", "data"},
         NEW to \in Nodes \cup {None}, NEW aa \in Nat, SendStep(n, type, to, aa)
  PROVE  Delivers'
<1> DEFINE h == Home[n]
<1>0. PICK k : k = Len(log) + 1
  BY Zenon
<1>1. MeshInv' /\ net' = net /\ Forwards(h, n, None, k, 0, chan)
  BY <1>0, SendKeeps, Zenon
<1>2. Sent(n, type, to, aa, k)
  BY <1>0, SendsDoes, Zenon DEF SendStep
<1>3. /\ k \in Nat /\ DOMAIN log' = DOMAIN log \cup {k} /\ \A j \in DOMAIN log : log'[j] = log[j]
      /\ log'[k].type = type /\ log'[k].src = n /\ log'[k].aa = aa
      /\ log'[k].settled => /\ type = "data" /\ up = DOMAIN net
                            /\ \A m \in {log[aa].src, log[aa].to} : m \in attached /\ Entries(Home[m], aa) # {}
      /\ UNCHANGED <<up, attached, faults>>
  BY <1>2, Zenon DEF Sent
<1>4. NextTTL(None, 0) = FreshTTL /\ FreshTTL \in Nat /\ h \in Hubs /\ n # None /\ \A t \in Trunks : t # None
  BY Constants, Zenon DEF NextTTL
<1>5. chan \in [Trunks \X Hubs -> Seq(Copy)] /\ MeshTypes
  BY Zenon DEF MeshInv, MeshTypes
<1>6. /\ \A m \in Nodes : \A j : Heard(m, j) => Heard(m, j)'
      /\ \A m \in Nodes : m \in Hears(h, n, k) => Heard(m, k)'
      /\ \A t \in Trunks, g \in Hubs : \A i \in DOMAIN chan[<<t, g>>] : Arrives(<<t, g>>, chan[<<t, g>>][i])
      /\ \A t \in Trunks, g \in Hubs : <<t, g>> \in OutOf(h, None) => Arrives(<<t, g>>, <<k, FreshTTL>>)
  <2> HIDE DEF h
  <2>1. NextTTL(None, 0) \in Nat /\ k \in Nat
    BY <1>3, <1>4, Zenon
  <2>2. QED
    BY <1>1, <1>4, <1>5, <2>1, ForwardReaches, Zenon
<1> HIDE DEF h
<1>7. ASSUME NEW j \in DOMAIN log, NEW m \in Nodes, Due(m, j)' PROVE Reaching(m, j)'
  <2>1. Due(m, j)
    BY <1>1, <1>3, <1>7, DueKept, Zenon
  <2>2. Reaching(m, j)
    BY <2>1, Zenon DEF RangeInv, Delivers
  <2>3. ASSUME NEW w, Leads(w, Home[Src(j)], m), Underway(j, w) PROVE Underway(j, w)'
    <3>1. PICK i \in 1 .. Len(w) : OnTrunk(w[i], <<j, FreshTTL - i + 1>>)
      BY <2>3, Zenon DEF Underway
    <3>2. w[i] \in Trunks \X Hubs
      BY <2>3, <3>1 DEF Leads, IsWalk
    <3>3. OnTrunk(w[i], <<j, FreshTTL - i + 1>>)'
      <4>1. PICK x \in DOMAIN chan[w[i]] : chan[w[i]][x] = <<j, FreshTTL - i + 1>>
        BY <3>1, Zenon DEF OnTrunk
      <4>2. Arrives(w[i], chan[w[i]][x])
        BY <1>6, <3>2, <4>1
      <4>3. QED
        BY <4>1, <4>2, Zenon DEF Arrives, OnTrunk
    <3>4. QED
      BY <3>1, <3>3, Zenon DEF Underway
  <2>4. log'[j] = log[j] /\ (Heard(m, j) => Heard(m, j)')
    BY <1>3, <1>6, Zenon
  <2>5. QED
    BY <1>1, <2>2, <2>3, <2>4, ReachKept, Zenon
<1>8. ASSUME NEW m \in Nodes, Due(m, k)' PROVE Reaching(m, k)'
  <2>1. Src(k)' = n /\ m # n
    BY <1>3, <1>8, Zenon DEF Src, Due
  <2>2. up = DOMAIN net
    BY <1>3, <1>8, Zenon DEF Due, RangeInv, Unbroken
  <2>3. ASSUME Home[m] = h PROVE m \in Hears(h, n, k)
    <3>1. CASE faults = 0 /\ log'[k].type # "data"
      <4>1. m \in attached
        BY <3>1, Zenon DEF RangeInv, Unbroken
      <4>2. QED
        BY <2>1, <2>3, <3>1, <4>1, Zenon DEF Hears, Locals
    <3>2. CASE ~(faults = 0 /\ log'[k].type # "data")
      <4>1. /\ IsTree /\ log'[k].settled
            /\ m \in {log'[aa].src, log'[aa].to} \ {n}
        BY <1>1, <1>3, <1>8, <3>2, SameGraph, Zenon DEF Due
      <4>2. type = "data" /\ RoutesAreExact /\ aa \in DOMAIN log
        BY <1>3, <4>1, Zenon DEF RangeInv, SendStep
      <4>3. log'[aa] = log[aa]
        BY <1>3, <4>2, Zenon
      <4>4. /\ log[aa].src \in Nodes /\ log[aa].to \in Nodes /\ log[aa].src # log[aa].to
            /\ n \in {log[aa].src, log[aa].to}
        <5>1. k \in DOMAIN log'
          BY <1>3, Zenon
        <5>2. /\ log'[log'[k].aa].src \in Nodes /\ log'[log'[k].aa].to \in Nodes
              /\ log'[log'[k].aa].src # log'[log'[k].aa].to
              /\ log'[k].src \in {log'[log'[k].aa].src, log'[log'[k].aa].to}
          <6>1. LogIsSound' /\ log' \in Seq(Frame)
            BY <1>1, Zenon DEF MeshInv, MeshTypes
          <6>2. log'[aa].type = "connect" /\ aa \in DOMAIN log'
            BY <1>3, <4>2, <4>3, <6>1, Zenon DEF SendStep
          <6>3. log'[aa] \in Frame
            BY <6>1, <6>2
          <6>4. log'[aa].src \in Nodes
            BY <6>3, Zenon DEF Frame
          <6>5. QED
            BY <1>3, <4>2, <5>1, <6>1, <6>2, <6>4, Zenon DEF LogIsSound
        <5>3. QED
          BY <1>3, <4>3, <5>2, Zenon
      <4>5. m \in attached /\ Entries(Home[m], aa) # {}
        BY <1>3, <4>1, <4>3, Zenon
      <4>6. QED
        BY <1>3, <1>4, <2>3, <4>1, <4>2, <4>3, <4>4, <4>5, HearsData, Zenon DEF h
    <3>3. QED
      BY <3>1, <3>2, Zenon
  <2>4. ASSUME NEW w, Leads(w, h, m) PROVE Underway(k, w)'
    <3>1. /\ w \in Seq(Trunks \X Hubs) /\ 1 \in 1 .. Len(w)
          /\ w[1][1] \in DOMAIN net /\ h \in Ends(w[1][1]) /\ w[1][2] = Far(w[1][1], h)
      <4>1. 1 \in 1 .. Len(w)
        BY <2>4 DEF Leads
      <4>2. QED
        BY <2>4, <4>1, Zenon DEF Leads, IsWalk
    <3>2. PICK s \in Trunks, g \in Hubs : w[1] = <<s, g>>
      BY <3>1
    <3>3. <<s, g>> \in OutOf(h, None)
      BY <1>4, <2>2, <3>1, <3>2, Zenon DEF OutOf, Onward
    <3>4. OnTrunk(w[1], <<k, FreshTTL>>)'
      <4>1. Arrives(w[1], <<k, FreshTTL>>)
        BY <1>6, <3>2, <3>3, Zenon
      <4>2. QED
        BY <4>1, Zenon DEF Arrives, OnTrunk
    <3>5. FreshTTL - 1 + 1 = FreshTTL
      BY <1>4
    <3>6. QED
      BY <3>1, <3>4, <3>5, Zenon DEF Underway
  <2>5. QED
    BY <1>1, <1>6, <2>1, <2>3, <2>4, SameGraph, Zenon DEF Reaching, h
<1>9. QED
  BY <1>3, <1>7, <1>8, Zenon DEF Delivers

\* Reading a frame takes it one trunk further on every walk, or to its ears.
LEMMA ReadDelivers ==
  ASSUME MeshInv, IsTree => Directed, RangeInv, NEW t \in Trunks, NEW h \in Hubs, HubReads(t, h)
  PROVE  Delivers'
<1>0. PICK k, ttl : k = chan[<<t, h>>][1][1] /\ ttl = chan[<<t, h>>][1][2]
  BY Zenon
<1>1. /\ net' = net /\ log' = log /\ up' = up /\ attached' = attached /\ faults' = faults
      /\ t \in DOMAIN net /\ h \in Ends(t) /\ k \in DOMAIN log /\ k \in Nat
      /\ ttl \in 0 .. FreshTTL
      /\ ttl = 0 => chan' = Rest(t, h) /\ UNCHANGED <<conns, heard>>
      /\ ttl > 0 => Forwards(h, None, t, k, ttl, Rest(t, h)) /\ NextTTL(t, ttl) = ttl - 1
  BY <1>0, ReadsDoes, ReadKeeps, Zenon
<1>2. Rest(t, h) \in [Trunks \X Hubs -> Seq(Copy)] /\ MeshTypes /\ FreshTTL \in Nat /\ None \notin Nodes
  BY ReadRest, Constants, Zenon DEF MeshInv
<1>3. ttl \in Nat /\ (ttl > 0 => ttl - 1 \in Nat)
  BY <1>1, <1>2
<1>4. /\ \A m \in Nodes : \A j : Heard(m, j) => Heard(m, j)'
      /\ ttl > 0 => \A m \in Nodes : m \in Hears(h, None, k) => Heard(m, k)'
      /\ \A s \in Trunks, g \in Hubs : \A i \in DOMAIN Rest(t, h)[<<s, g>>] : Arrives(<<s, g>>, Rest(t, h)[<<s, g>>][i])
      /\ ttl > 0 => \A s \in Trunks, g \in Hubs : <<s, g>> \in OutOf(h, t) => Arrives(<<s, g>>, <<k, ttl - 1>>)
  <2>1. CASE ttl = 0
    <3>1. chan' = Rest(t, h) /\ heard' = heard
      BY <1>1, <2>1, Zenon
    <3>2. QED
      BY <2>1, <3>1 DEF Heard, Arrives
  <2>2. CASE ttl > 0
    <3>1. NextTTL(t, ttl) \in Nat /\ NextTTL(t, ttl) = ttl - 1 /\ Forwards(h, None, t, k, ttl, Rest(t, h))
      BY <1>1, <1>3, <2>2, Zenon
    <3>2. /\ \A m \in Nodes : \A j : Heard(m, j) => Heard(m, j)'
          /\ \A m \in Nodes : m \in Hears(h, None, k) => Heard(m, k)'
          /\ \A s \in Trunks, g \in Hubs : \A i \in DOMAIN Rest(t, h)[<<s, g>>] :
               Arrives(<<s, g>>, Rest(t, h)[<<s, g>>][i])
          /\ \A s \in Trunks, g \in Hubs : <<s, g>> \in OutOf(h, t) => Arrives(<<s, g>>, <<k, NextTTL(t, ttl)>>)
      BY <1>1, <1>2, <3>1, ForwardReaches, Zenon
    <3>3. QED
      BY <3>1, <3>2, Zenon
  <2>3. ttl = 0 \/ ttl > 0
    BY <1>3, Successors, Zenon
  <2>4. QED
    BY <2>1, <2>2, <2>3, Zenon
<1>5. SUFFICES ASSUME NEW j \in DOMAIN log, NEW m \in Nodes, Due(m, j)' PROVE Reaching(m, j)'
  BY <1>1, Zenon DEF Delivers
<1>6. Due(m, j) /\ Reaching(m, j)
  <2>1. Due(m, j)
    BY <1>1, <1>5, DueKept, Zenon
  <2>2. QED
    BY <2>1, Zenon DEF RangeInv, Delivers
<1>7. m # Src(j) /\ up = DOMAIN net
  BY <1>6, Zenon DEF Due, Src, RangeInv, Unbroken
<1>8. ASSUME Home[m] = h, j = k, ttl > 0 PROVE Heard(m, j)'
  <2>1. CASE faults = 0 /\ log[k].type # "data"
    <3>1. m \in attached
      BY <2>1, Zenon DEF RangeInv, Unbroken
    <3>2. m \in Hears(h, None, k)
      BY <1>1, <1>2, <1>8, <2>1, <3>1, Zenon DEF Hears, Locals
    <3>3. QED
      BY <1>4, <1>8, <3>2, Zenon
  <2>2. CASE ~(faults = 0 /\ log[k].type # "data")
    <3>1. IsTree /\ log[k].settled /\ m \in {log[log[k].aa].src, log[log[k].aa].to} \ {log[k].src}
      BY <1>6, <1>8, <2>2, Zenon DEF Due
    <3>2. /\ log[k].type = "data" /\ log[k].aa \in DOMAIN log
          /\ log[log[k].aa].src \in Nodes /\ log[log[k].aa].to \in Nodes
          /\ log[log[k].aa].src # log[log[k].aa].to
          /\ log[k].src \in {log[log[k].aa].src, log[log[k].aa].to}
      BY <1>1, <3>1, FrameIs, Zenon DEF Src
    <3>3. m \in attached /\ Entries(Home[m], log[k].aa) # {} /\ RoutesAreExact
      BY <1>1, <3>1, Zenon DEF RangeInv, Unbroken
    <3>4. Home[log[k].src] # h
      BY <1>0, <3>1, ComesFromAfar, Zenon DEF Src
    <3>5. m \in Hears(h, None, k)
      BY <1>1, <1>8, <3>1, <3>2, <3>3, <3>4, HearsData, Zenon
    <3>6. QED
      BY <1>4, <1>8, <3>5, Zenon
  <2>3. QED
    BY <2>1, <2>2, Zenon
<1>9. ASSUME NEW w, Leads(w, Home[Src(j)], m), Underway(j, w) PROVE Heard(m, j)' \/ Underway(j, w)'
  <2>1. PICK i \in 1 .. Len(w) : OnTrunk(w[i], <<j, FreshTTL - i + 1>>)
    BY <1>9, Zenon DEF Underway
  <2>2. IsWalk(Home[Src(j)], w) /\ w \in Seq(Trunks \X Hubs) /\ Len(w) \in 1 .. FreshTTL /\ w[Len(w)][2] = Home[m]
    BY <1>9, Zenon DEF Leads, IsWalk
  <2>3. PICK s \in Trunks, g \in Hubs : w[i] = <<s, g>>
    BY <2>1, <2>2
  <2>4. CASE \E x \in DOMAIN Rest(t, h)[<<s, g>>] : Rest(t, h)[<<s, g>>][x] = <<j, FreshTTL - i + 1>>
    <3>1. Arrives(w[i], <<j, FreshTTL - i + 1>>)
      BY <1>4, <2>3, <2>4, Zenon
    <3>2. OnTrunk(w[i], <<j, FreshTTL - i + 1>>)'
      BY <3>1, Zenon DEF Arrives, OnTrunk
    <3>3. QED
      BY <2>1, <3>2, Zenon DEF Underway
  <2>5. CASE <<s, g>> = <<t, h>> /\ <<j, FreshTTL - i + 1>> = chan[<<t, h>>][1]
    <3>1. j = k /\ ttl = FreshTTL - i + 1 /\ s = t /\ g = h
      BY <1>0, <2>5, SMTT(30)
    <3>2. ttl > 0 /\ i \in Nat /\ Len(w) \in Nat
      BY <1>2, <2>1, <2>2, <3>1, OneFurther, Zenon
    <3>3. CASE i = Len(w)
      <4>1. Home[m] = h
        BY <2>2, <2>3, <3>1, <3>3
      <4>2. QED
        BY <1>8, <3>1, <3>2, <4>1, Zenon
    <3>4. CASE i # Len(w)
      <4>1. /\ i + 1 \in 1 .. Len(w) /\ i + 1 > 1 /\ i + 1 # 1 /\ (i + 1) - 1 = i
            /\ FreshTTL - (i + 1) + 1 = ttl - 1
        <5>1. /\ i + 1 \in 1 .. Len(w) /\ i + 1 > 1 /\ i + 1 # 1 /\ (i + 1) - 1 = i
              /\ FreshTTL - (i + 1) + 1 = (FreshTTL - i + 1) - 1
          BY <1>2, <2>1, <2>2, <3>4, OneFurther, Zenon
        <5>2. QED
          BY <3>1, <5>1, Zenon
      <4>2. /\ w[i + 1][1] \in DOMAIN net /\ h \in Ends(w[i + 1][1]) /\ w[i + 1][2] = Far(w[i + 1][1], h)
            /\ w[i + 1][1] # t
        BY <2>2, <2>3, <3>1, <4>1, SMTT(30) DEF IsWalk
      <4>3. PICK r \in Trunks, e \in Hubs : w[i + 1] = <<r, e>>
        BY <2>2, <4>1
      <4>4. <<r, e>> \in OutOf(h, t)
        BY <1>7, <4>2, <4>3, Zenon DEF OutOf, Onward
      <4>5. Arrives(w[i + 1], <<j, FreshTTL - (i + 1) + 1>>)
        BY <1>4, <3>1, <3>2, <4>1, <4>3, <4>4, Zenon
      <4>6. OnTrunk(w[i + 1], <<j, FreshTTL - (i + 1) + 1>>)'
        BY <4>5, Zenon DEF Arrives, OnTrunk
      <4>7. QED
        BY <4>1, <4>6, Zenon DEF Underway
    <3>5. QED
      BY <3>3, <3>4, Zenon
  <2>6. QED
    <3>1. \/ <<s, g>> = <<t, h>> /\ <<j, FreshTTL - i + 1>> = chan[<<t, h>>][1]
          \/ \E x \in DOMAIN Rest(t, h)[<<s, g>>] : Rest(t, h)[<<s, g>>][x] = <<j, FreshTTL - i + 1>>
      BY <2>1, <2>3, ReadLeaves
    <3>2. QED
      BY <2>4, <2>5, <3>1, Zenon
<1>10. log'[j] = log[j] /\ (Heard(m, j) => Heard(m, j)')
  BY <1>1, <1>4, Zenon
<1>11. QED
  BY <1>1, <1>6, <1>9, <1>10, ReachKept, Zenon

-----------------------------------------------------------------------------
(* 12. Range and routes are kept *)

\* A hub within reach passes a frame on to hubs and nodes within reach.
LEMMA RangeKept ==
  ASSUME MeshInv, WithinRange, net' = net, LogKept, NEW h \in Hubs, NEW src, NEW from,
         NEW k \in DOMAIN log', k \in Nat, log'[k].src \in Nodes, NEW next,
         next \in 0 .. FreshTTL, h \in Within(Home[log'[k].src], FreshTTL - next),
         Carried(h, from, k, next),
         \A n \in Nodes : heard'[n] = IF n \in Hears(h, src, k) THEN Append(heard[n], k) ELSE heard[n]
  PROVE  WithinRange'
<1> DEFINE h0 == Home[log'[k].src]
<1>1. MeshTypes /\ h0 \in Hubs /\ FreshTTL \in Nat /\ FreshTTL - next \in Nat /\ FreshTTL - next <= FreshTTL
  BY Constants DEF MeshInv
<1>2. \A e, d : Within(e, d)' = Within(e, d)
  BY SameGraph, Zenon
<1> HIDE DEF h0
<1>3. ASSUME NEW t \in Trunks, NEW g \in Hubs, NEW i \in DOMAIN chan'[<<t, g>>]
      PROVE  g \in Within(Home[log'[chan'[<<t, g>>][i][1]].src], FreshTTL - chan'[<<t, g>>][i][2] + 1)
  <2>1. \/ \E j \in DOMAIN chan[<<t, g>>] : chan'[<<t, g>>][i] = chan[<<t, g>>][j]
        \/ <<t, g>> \in OutOf(h, from) /\ chan'[<<t, g>>][i] = <<k, next>>
    BY Zenon DEF Carried
  <2>2. CASE \E j \in DOMAIN chan[<<t, g>>] : chan'[<<t, g>>][i] = chan[<<t, g>>][j]
    <3>1. PICK j \in DOMAIN chan[<<t, g>>] : chan'[<<t, g>>][i] = chan[<<t, g>>][j]
      BY <2>2, Zenon
    <3>2. chan[<<t, g>>][j][1] \in DOMAIN log
      BY <3>1, Zenon DEF MeshInv, ChannelsAreSound
    <3>3. g \in Within(Home[log[chan[<<t, g>>][j][1]].src], FreshTTL - chan[<<t, g>>][j][2] + 1)
      BY <3>1, Zenon DEF WithinRange, Src
    <3>4. QED
      BY <3>1, <3>2, <3>3, Zenon DEF LogKept
  <2>3. CASE <<t, g>> \in OutOf(h, from) /\ chan'[<<t, g>>][i] = <<k, next>>
    <3>1. t \in DOMAIN net /\ h \in Ends(t) /\ g = Far(t, h)
      BY <1>1, <2>3, OutIs, Zenon
    <3>2. g \in Within(h0, (FreshTTL - next) + 1)
      BY <1>1, <3>1, WithinStep, Zenon DEF h0
    <3>3. QED
      BY <2>3, <3>2 DEF h0
  <2>4. QED
    BY <2>1, <2>2, <2>3, Zenon
<1>4. ASSUME NEW n \in Nodes, NEW i \in DOMAIN heard'[n]
      PROVE  Home[n] \in Within(Home[log'[heard'[n][i]].src], FreshTTL)
  <2>1. \/ i \in DOMAIN heard[n] /\ heard'[n][i] = heard[n][i]
        \/ n \in Hears(h, src, k) /\ heard'[n][i] = k
    <3>1. heard'[n] = (IF n \in Hears(h, src, k) THEN Append(heard[n], k) ELSE heard[n]) /\ heard[n] \in Seq(Nat)
      BY <1>1, Zenon DEF MeshTypes
    <3>2. CASE n \in Hears(h, src, k)
      <4>1. Longer(heard'[n], heard[n], k)
        BY <3>1, <3>2, AppendIsLonger, Zenon
      <4>2. QED
        BY <3>2, <4>1, Zenon DEF Longer
    <3>3. CASE n \notin Hears(h, src, k)
      BY <3>1, <3>3, Zenon
    <3>4. QED
      BY <3>2, <3>3, Zenon
  <2>2. CASE i \in DOMAIN heard[n] /\ heard'[n][i] = heard[n][i]
    <3>1. heard[n][i] \in DOMAIN log
      BY <2>2, Zenon DEF MeshInv, HeardIsSound
    <3>2. Home[n] \in Within(Home[log[heard[n][i]].src], FreshTTL)
      BY <2>2, Zenon DEF WithinRange, Src
    <3>3. QED
      BY <2>2, <3>1, <3>2, Zenon DEF LogKept
  <2>3. CASE n \in Hears(h, src, k) /\ heard'[n][i] = k
    <3>1. Home[n] = h
      BY <1>1, <2>3, HearsAtHub DEF NodesAt
    <3>2. Home[n] \in Within(h0, FreshTTL)
      BY <1>1, <3>1, WithinGrows, Zenon DEF h0
    <3>3. QED
      BY <2>3, <3>2, Zenon DEF h0
  <2>4. QED
    BY <2>1, <2>2, <2>3, Zenon
<1>5. QED
  BY <1>2, <1>3, <1>4, Zenon DEF WithinRange, Src

\* The routes of hub g for connection x after a step.
RoutesAfter(g, x) == {c \in conns'[g] : c.aa = x}

RoutesStay(h, src, k) ==
  /\ \A g \in Hubs : \A aa : Entries(g, aa) # {} => RoutesAfter(g, aa) # {}
  /\ RoutesAreExact /\ src = (IF Home[log'[k].src] = h THEN log'[k].src ELSE None) => RoutesAreExact'

\* A hub that observes a CONNECT_IND keeps the routes it has.
LEMMA RoutesKept ==
  ASSUME MeshInv, LogKept, NEW h \in Hubs, NEW src, NEW from, NEW k \in DOMAIN log', NEW ttl, NEW rest,
         Forwards(h, src, from, k, ttl, rest)
  PROVE  RoutesStay(h, src, k)
<1>1. conns \in [Hubs -> SUBSET Entry] /\ RoutesAreSound
  BY Zenon DEF MeshInv, MeshTypes
<1>2. ASSUME NEW g \in Hubs, conns'[g] = conns[g]
      PROVE  /\ \A aa : Entries(g, aa) # {} => RoutesAfter(g, aa) # {}
             /\ RoutesAreExact => \A c \in conns'[g] :
                  /\ c.a = IF Home[log'[c.aa].src] = g THEN log'[c.aa].src ELSE None
                  /\ c.b = IF Home[log'[c.aa].to] = g THEN log'[c.aa].to ELSE None
  <2>1. ASSUME NEW aa, Entries(g, aa) # {} PROVE RoutesAfter(g, aa) # {}
    BY <1>2, <2>1, Zenon DEF Entries, RoutesAfter
  <2>2. ASSUME RoutesAreExact, NEW c \in conns'[g]
        PROVE  /\ c.a = IF Home[log'[c.aa].src] = g THEN log'[c.aa].src ELSE None
               /\ c.b = IF Home[log'[c.aa].to] = g THEN log'[c.aa].to ELSE None
    <3>1. c \in conns[g] /\ c.aa \in DOMAIN log
      BY <1>1, <1>2, <2>2, Zenon DEF RoutesAreSound
    <3>2. log'[c.aa].src = log[c.aa].src /\ log'[c.aa].to = log[c.aa].to
      BY <3>1, Zenon DEF LogKept
    <3>3. /\ c.a = IF Home[log[c.aa].src] = g THEN log[c.aa].src ELSE None
          /\ c.b = IF Home[log[c.aa].to] = g THEN log[c.aa].to ELSE None
      BY <2>2, <3>1, Zenon DEF RoutesAreExact
    <3>4. QED
      BY <3>2, <3>3, Zenon
  <2>3. QED
    BY <2>1, <2>2, Zenon
<1>3. ASSUME conns'[h] # conns[h]
      PROVE  LET b == IF Home[log'[k].to] = h THEN log'[k].to ELSE None
             IN  conns'[h] = (conns[h] \ Entries(h, k)) \cup {[aa |-> k, a |-> src, b |-> b]}
  BY <1>1, <1>3, Zenon DEF Forwards, observe_connect_ind
<1>4. ASSUME conns'[h] # conns[h]
      PROVE  /\ \A aa : Entries(h, aa) # {} => RoutesAfter(h, aa) # {}
             /\ RoutesAreExact /\ src = (IF Home[log'[k].src] = h THEN log'[k].src ELSE None) =>
                  \A c \in conns'[h] :
                  /\ c.a = IF Home[log'[c.aa].src] = h THEN log'[c.aa].src ELSE None
                  /\ c.b = IF Home[log'[c.aa].to] = h THEN log'[c.aa].to ELSE None
  <2> DEFINE new == [aa |-> k, a |-> src, b |-> IF Home[log'[k].to] = h THEN log'[k].to ELSE None]
  <2>1. conns'[h] = (conns[h] \ Entries(h, k)) \cup {new}
    BY <1>3, <1>4, Zenon
  <2>2. new.aa = k /\ new.a = src /\ new.b = IF Home[log'[k].to] = h THEN log'[k].to ELSE None
    BY Zenon
  <2> HIDE DEF new
  <2>3. ASSUME NEW aa, Entries(h, aa) # {} PROVE RoutesAfter(h, aa) # {}
    <3>1. PICK c \in conns[h] : c.aa = aa
      BY <2>3, Zenon DEF Entries
    <3>2. CASE aa = k
      BY <2>1, <2>2, <3>2, Zenon DEF Entries, RoutesAfter
    <3>3. CASE aa # k
      BY <2>1, <3>1, <3>3, Zenon DEF Entries, RoutesAfter
    <3>4. QED
      BY <3>2, <3>3, Zenon
  <2>4. ASSUME RoutesAreExact, src = (IF Home[log'[k].src] = h THEN log'[k].src ELSE None), NEW c \in conns'[h]
        PROVE  /\ c.a = IF Home[log'[c.aa].src] = h THEN log'[c.aa].src ELSE None
               /\ c.b = IF Home[log'[c.aa].to] = h THEN log'[c.aa].to ELSE None
    <3>1. CASE c = new
      BY <2>2, <2>4, <3>1, Zenon
    <3>2. CASE c \in conns[h]
      <4>1. c.aa \in DOMAIN log
        BY <1>1, <3>2, Zenon DEF RoutesAreSound
      <4>2. log'[c.aa].src = log[c.aa].src /\ log'[c.aa].to = log[c.aa].to
        BY <4>1, Zenon DEF LogKept
      <4>3. /\ c.a = IF Home[log[c.aa].src] = h THEN log[c.aa].src ELSE None
            /\ c.b = IF Home[log[c.aa].to] = h THEN log[c.aa].to ELSE None
        BY <2>4, <3>2, Zenon DEF RoutesAreExact
      <4>4. QED
        BY <4>2, <4>3, Zenon
    <3>3. QED
      BY <2>1, <2>4, <3>1, <3>2, Zenon
  <2>5. QED
    BY <2>3, <2>4, Zenon
<1>5. \A g \in Hubs : g = h \/ conns'[g] = conns[g]
  BY <1>1, Zenon DEF Forwards
<1>6. ASSUME NEW g \in Hubs, NEW aa, Entries(g, aa) # {} PROVE RoutesAfter(g, aa) # {}
  BY <1>2, <1>4, <1>5, <1>6, Zenon
<1>7. ASSUME RoutesAreExact, src = (IF Home[log'[k].src] = h THEN log'[k].src ELSE None)
      PROVE  RoutesAreExact'
  <2>1. ASSUME NEW g \in Hubs, NEW c \in conns'[g]
        PROVE  /\ c.a = IF Home[log'[c.aa].src] = g THEN log'[c.aa].src ELSE None
               /\ c.b = IF Home[log'[c.aa].to] = g THEN log'[c.aa].to ELSE None
    <3>1. CASE conns'[g] = conns[g]
      BY <1>2, <1>7, <2>1, <3>1, Zenon
    <3>2. CASE conns'[g] # conns[g]
      BY <1>4, <1>5, <1>7, <2>1, <3>2, Zenon
    <3>3. QED
      BY <3>1, <3>2, Zenon
  <2>2. QED
    BY <2>1, Zenon DEF RoutesAreExact
<1>8. QED
  BY <1>6, <1>7, Zenon DEF RoutesStay

LEMMA SendRange ==
  ASSUME MeshInv, RangeInv, NEW n \in Nodes, NEW type \in {"adv", "connect", "data"},
         NEW to \in Nodes \cup {None}, NEW aa \in Nat, SendStep(n, type, to, aa)
  PROVE  RangeInv'
<1>0. PICK k : k = Len(log) + 1
  BY Zenon
<1>1. LogKept /\ net' = net /\ Forwards(Home[n], n, None, k, 0, chan)
  BY <1>0, SendKeeps, Zenon
<1>2. Sent(n, type, to, aa, k)
  BY <1>0, SendsDoes, Zenon DEF SendStep
<1>3. /\ k \in Nat /\ DOMAIN log' = DOMAIN log \cup {k} /\ \A j \in DOMAIN log : log'[j] = log[j]
      /\ log'[k].src = n /\ log'[k].aa = aa
      /\ log'[k].settled => /\ type = "data" /\ up = DOMAIN net
                            /\ \A m \in {log[aa].src, log[aa].to} : m \in attached /\ Entries(Home[m], aa) # {}
      /\ UNCHANGED <<net, up, attached, faults>>
  BY <1>2, Zenon DEF Sent
<1>4. MeshTypes /\ chan \in [Trunks \X Hubs -> Seq(Copy)] /\ Home[n] \in Hubs /\ FreshTTL \in Nat
  BY Constants, Zenon DEF MeshInv, MeshTypes
<1>5. WithinRange'
  <2>1. FreshTTL \in 0 .. FreshTTL /\ FreshTTL - FreshTTL = 0
    BY <1>4
  <2>2. Home[n] \in Within(Home[log'[k].src], FreshTTL - FreshTTL)
    BY <1>3, <1>4, <2>1, WithinIs, Zenon
  <2>3. Carried(Home[n], None, k, FreshTTL)
    BY <1>0, SendCarries, Zenon
  <2>4. \A m \in Nodes : heard'[m] = IF m \in Hears(Home[n], n, k) THEN Append(heard[m], k) ELSE heard[m]
    BY <1>1, Zenon DEF Forwards
  <2>5. WithinRange /\ k \in DOMAIN log' /\ log'[k].src \in Nodes
    BY <1>3, Zenon DEF RangeInv
  <2>6. QED
    BY <1>1, <1>3, <1>4, <2>1, <2>2, <2>3, <2>4, <2>5, RangeKept, SMTT(60)
<1>6. /\ \A g \in Hubs : \A x : Entries(g, x) # {} => RoutesAfter(g, x) # {}
      /\ RoutesAreExact => RoutesAreExact'
  <2>1. k \in DOMAIN log' /\ n = (IF Home[log'[k].src] = Home[n] THEN log'[k].src ELSE None)
    BY <1>3, Zenon
  <2>2. RoutesStay(Home[n], n, k)
    BY <1>1, <1>4, <2>1, RoutesKept, Zenon
  <2>3. QED
    BY <2>1, <2>2, Zenon DEF RoutesStay
<1>7. Unbroken'
  <2>1. ASSUME NEW j \in DOMAIN log', log'[j].settled, NEW m \in {log'[log'[j].aa].src, log'[log'[j].aa].to}
        PROVE  up = DOMAIN net /\ m \in attached /\ RoutesAfter(Home[m], log'[j].aa) # {}
    <3>1. CASE j = k
      <4>1. aa \in DOMAIN log /\ log'[aa] = log[aa]
        BY <1>3, <2>1, <3>1, Zenon DEF SendStep
      <4>2. up = DOMAIN net /\ m \in attached /\ Entries(Home[m], aa) # {}
        BY <1>3, <2>1, <3>1, <4>1, Zenon
      <4>3. Home[m] \in Hubs
        BY <1>4, <4>2, Constants, Zenon DEF MeshTypes
      <4>4. RoutesAfter(Home[m], aa) # {}
        BY <1>6, <4>2, <4>3, Zenon
      <4>5. QED
        BY <1>3, <3>1, <4>2, <4>4, Zenon
    <3>2. CASE j # k
      <4>1. j \in DOMAIN log /\ log'[j] = log[j] /\ log[j].settled
        BY <1>3, <2>1, <3>2, Zenon
      <4>2. log[j].aa \in DOMAIN log
        BY <4>1, FrameIs, Zenon
      <4>3. log'[log[j].aa] = log[log[j].aa]
        BY <1>3, <4>2, Zenon
      <4>4. up = DOMAIN net /\ m \in attached /\ Entries(Home[m], log[j].aa) # {}
        BY <2>1, <4>1, <4>3, Zenon DEF RangeInv, Unbroken
      <4>5. Home[m] \in Hubs
        BY <1>4, <4>4, Constants, Zenon DEF MeshTypes
      <4>6. RoutesAfter(Home[m], log[j].aa) # {}
        BY <1>6, <4>4, <4>5, Zenon
      <4>7. QED
        BY <4>1, <4>4, <4>6, Zenon
    <3>3. QED
      BY <3>1, <3>2, Zenon
  <2>2. faults = 0 => up = DOMAIN net /\ attached = Nodes
    BY Zenon DEF RangeInv, Unbroken
  <2>3. QED
    BY <1>3, <2>1, <2>2, Zenon DEF Unbroken, Entries, RoutesAfter
<1>8. QED
  BY <1>1, <1>5, <1>6, <1>7, SendDelivers, SameGraph, Zenon DEF RangeInv

LEMMA ReadRange ==
  ASSUME MeshInv, IsTree => Directed, RangeInv, NEW t \in Trunks, NEW h \in Hubs, HubReads(t, h)
  PROVE  RangeInv'
<1>0. PICK k, ttl : k = chan[<<t, h>>][1][1] /\ ttl = chan[<<t, h>>][1][2]
  BY Zenon
<1>1. /\ net' = net /\ log' = log /\ up' = up /\ attached' = attached /\ faults' = faults
      /\ k \in DOMAIN log /\ k \in Nat /\ ttl \in 0 .. FreshTTL /\ LogKept /\ 1 \in DOMAIN chan[<<t, h>>]
      /\ ttl = 0 => chan' = Rest(t, h) /\ UNCHANGED <<conns, heard>>
      /\ ttl > 0 => Forwards(h, None, t, k, ttl, Rest(t, h)) /\ NextTTL(t, ttl) = ttl - 1
  BY <1>0, ReadsDoes, ReadKeeps, Zenon
<1>2. Rest(t, h) \in [Trunks \X Hubs -> Seq(Copy)] /\ MeshTypes /\ FreshTTL \in Nat
  BY ReadRest, Constants, Zenon DEF MeshInv
<1>3. \A s \in Trunks, g \in Hubs : \A i \in DOMAIN Rest(t, h)[<<s, g>>] :
        \E j \in DOMAIN chan[<<s, g>>] : Rest(t, h)[<<s, g>>][i] = chan[<<s, g>>][j]
  <2>1. \A c \in Trunks \X Hubs : Shorter(Rest(t, h)[c], chan[c]) \/ Rest(t, h)[c] = chan[c]
    BY ReadRest
  <2>2. QED
    BY <2>1, Zenon DEF Shorter
<1>4. ttl = 0 \/ ttl > 0
  BY <1>1, <1>2, Successors, Zenon
<1>5. WithinRange'
  <2>0. WithinRange
    BY Zenon DEF RangeInv
  <2>1. CASE ttl = 0
    <3>1. /\ chan' = Rest(t, h) /\ heard' = heard /\ log' = log
          /\ \A e, d : Within(e, d)' = Within(e, d)
      BY <1>1, <2>1, SameGraph, Zenon
    <3>2. ASSUME NEW s \in Trunks, NEW g \in Hubs, NEW i \in DOMAIN chan'[<<s, g>>]
          PROVE  g \in Within(Home[log[chan'[<<s, g>>][i][1]].src], FreshTTL - chan'[<<s, g>>][i][2] + 1)
      <4>1. PICK j \in DOMAIN chan[<<s, g>>] : chan'[<<s, g>>][i] = chan[<<s, g>>][j]
        BY <1>3, <3>1, <3>2, Zenon
      <4>2. QED
        BY <2>0, <4>1, Zenon DEF WithinRange, Src
    <3>3. \A n \in Nodes : \A i \in DOMAIN heard[n] : Home[n] \in Within(Home[log[heard[n][i]].src], FreshTTL)
      BY <2>0, Zenon DEF WithinRange, Src
    <3>4. QED
      BY <3>1, <3>2, <3>3, Zenon DEF WithinRange, Src
  <2>2. CASE ttl > 0
    <3>1. ttl - 1 \in 0 .. FreshTTL /\ FreshTTL - ttl + 1 = FreshTTL - (ttl - 1)
      BY <1>1, <1>2, <2>2
    <3>2. h \in Within(Home[log[k].src], FreshTTL - ttl + 1)
      BY <1>0, <1>1, <2>0, Zenon DEF WithinRange, Src
    <3>3. h \in Within(Home[log'[k].src], FreshTTL - (ttl - 1))
      BY <1>1, <3>1, <3>2, Zenon
    <3>4. k \in DOMAIN log' /\ log'[k].src \in Nodes
      BY <1>1, FrameIs, Zenon DEF Src
    <3>5. Carried(h, t, k, ttl - 1)
      BY <1>0, ReadCarries, Zenon
    <3>6. \A m \in Nodes : heard'[m] = IF m \in Hears(h, None, k) THEN Append(heard[m], k) ELSE heard[m]
      BY <1>1, <2>2, Zenon DEF Forwards
    <3>7. QED
      BY <1>1, <2>0, <3>1, <3>3, <3>4, <3>5, <3>6, RangeKept, Zenon
  <2>3. QED
    BY <1>4, <2>1, <2>2, Zenon
<1>6. /\ \A g \in Hubs : \A x : Entries(g, x) # {} => RoutesAfter(g, x) # {}
      /\ IsTree => RoutesAreExact'
  <2>1. CASE ttl = 0
    <3>1. conns' = conns /\ log' = log
      BY <1>1, <2>1, Zenon
    <3>2. IsTree => RoutesAreExact
      BY Zenon DEF RangeInv
    <3>3. QED
      BY <3>1, <3>2, Zenon DEF Entries, RoutesAfter, RoutesAreExact
  <2>2. CASE ttl > 0
    <3>1. k \in DOMAIN log' /\ Forwards(h, None, t, k, ttl, Rest(t, h)) /\ LogKept
      BY <1>1, <2>2, Zenon
    <3>2. RoutesStay(h, None, k)
      BY <3>1, RoutesKept, Zenon
    <3>3. IsTree => Home[log'[k].src] # h
      BY <1>0, <1>1, ComesFromAfar, Zenon DEF Src
    <3>4. QED
      BY <3>2, <3>3, Zenon DEF RoutesStay, RangeInv
  <2>3. QED
    BY <1>4, <2>1, <2>2, Zenon
<1>7. Unbroken'
  <2>1. ASSUME NEW j \in DOMAIN log, log[j].settled, NEW m \in {log[log[j].aa].src, log[log[j].aa].to}
        PROVE  up = DOMAIN net /\ m \in attached /\ RoutesAfter(Home[m], log[j].aa) # {}
    <3>1. up = DOMAIN net /\ m \in attached /\ Entries(Home[m], log[j].aa) # {}
      BY <2>1, Zenon DEF RangeInv, Unbroken
    <3>2. Home[m] \in Hubs
      BY <1>2, <3>1, Constants, Zenon DEF MeshTypes
    <3>3. QED
      BY <1>6, <3>1, <3>2, Zenon
  <2>2. faults = 0 => up = DOMAIN net /\ attached = Nodes
    BY Zenon DEF RangeInv, Unbroken
  <2>3. \A e, x : Entries(e, x)' = RoutesAfter(e, x)
    BY Zenon DEF Entries, RoutesAfter
  <2>4. QED
    BY <1>1, <2>1, <2>2, <2>3, Zenon DEF Unbroken
<1>8. QED
  BY <1>1, <1>5, <1>6, <1>7, ReadDelivers, SameGraph, Zenon DEF RangeInv

\* When something breaks nothing is owed any more.
LEMMA QuietRange ==
  ASSUME MeshInv, RangeInv, Mends \/ Breaks
  PROVE  RangeInv'
<1>1. net' = net /\ LogKept /\ MeshInv' /\ heard' = heard /\ MeshTypes
  BY QuietKeeps, Zenon DEF Mends, Breaks, MeshInv
<1>2. (IsTree' <=> IsTree) /\ \A e, d : Within(e, d)' = Within(e, d)
  BY <1>1, SameGraph, Zenon
<1>3. WithinRange /\ Unbroken /\ Delivers /\ (IsTree => RoutesAreExact)
  BY Zenon DEF RangeInv
<1>4. WithinRange'
  <2>1. ASSUME NEW s \in Trunks, NEW g \in Hubs, NEW i \in DOMAIN chan'[<<s, g>>]
        PROVE  g \in Within(Home[log'[chan'[<<s, g>>][i][1]].src], FreshTTL - chan'[<<s, g>>][i][2] + 1)
    <3>1. chan'[<<s, g>>] = chan[<<s, g>>]
      BY <2>1 DEF Mends, Breaks
    <3>2. chan[<<s, g>>][i][1] \in DOMAIN log
      BY <2>1, <3>1, Zenon DEF MeshInv, ChannelsAreSound
    <3>3. QED
      BY <1>1, <1>3, <2>1, <3>1, <3>2, Zenon DEF WithinRange, Src, LogKept
  <2>2. ASSUME NEW n \in Nodes, NEW i \in DOMAIN heard[n]
        PROVE  Home[n] \in Within(Home[log'[heard[n][i]].src], FreshTTL)
    <3>1. heard[n][i] \in DOMAIN log
      BY <2>2, Zenon DEF MeshInv, HeardIsSound
    <3>2. QED
      BY <1>1, <1>3, <2>2, <3>1, Zenon DEF WithinRange, Src, LogKept
  <2>3. QED
    BY <1>1, <1>2, <2>1, <2>2, Zenon DEF WithinRange, Src
<1>5. ASSUME IsTree PROVE RoutesAreExact'
  <2>1. ASSUME NEW g \in Hubs, NEW c \in conns'[g] PROVE c \in conns[g] /\ c.aa \in DOMAIN log
    BY <2>1, Zenon DEF Mends, Breaks, MeshInv, RoutesAreSound
  <2>2. QED
    BY <1>1, <1>3, <1>5, <2>1 DEF RoutesAreExact, LogKept
<1>6. Delivers' /\ Unbroken'
  <2>1. CASE Mends
    <3>1. /\ UNCHANGED <<net, chan, conns, log, heard, faults>>
          /\ up \subseteq up' /\ up' \subseteq DOMAIN net /\ attached \subseteq attached' /\ attached' \subseteq Nodes
      BY <2>1, Zenon DEF Mends
    <3>2. \A k, n : (Due(n, k)' <=> Due(n, k)) /\ (Reaching(n, k)' <=> Reaching(n, k))
      <4>1. \A k, n : Due(n, k)' <=> Due(n, k)
        BY <1>2, <3>1, Zenon DEF Due
      <4>2. \A k, n : Heard(n, k)' <=> Heard(n, k)
        BY <3>1, Zenon DEF Heard
      <4>3. \A k, w : Underway(k, w)' <=> Underway(k, w)
        BY <3>1, Zenon DEF Underway, OnTrunk
      <4>4. \A w, e, n : Leads(w, e, n)' <=> Leads(w, e, n)
        BY <3>1, SameGraph, Zenon
      <4>5. \A k : Src(k)' = Src(k)
        BY <3>1, Zenon DEF Src
      <4>6. QED
        BY <4>1, <4>2, <4>3, <4>4, <4>5, Zenon DEF Reaching
    <3>3. Delivers'
      BY <1>3, <3>1, <3>2, Zenon DEF Delivers
    <3>4. Unbroken'
      <4>1. \A e, x : Entries(e, x)' = Entries(e, x)
        BY <3>1, Zenon DEF Entries
      <4>2. up = DOMAIN net => up' = DOMAIN net
        BY <3>1, Zenon
      <4>3. attached = Nodes => attached' = Nodes
        BY <3>1, Zenon
      <4>4. QED
        BY <1>3, <3>1, <4>1, <4>2, <4>3 DEF Unbroken
    <3>5. QED
      BY <3>3, <3>4, Zenon
  <2>2. CASE Breaks
    <3>1. faults' # 0 /\ DOMAIN log' = DOMAIN log /\ \A k \in DOMAIN log : ~log'[k].settled
      BY <2>2, UnsettleIs DEF Breaks, MeshInv, MeshTypes
    <3>2. QED
      BY <3>1, Zenon DEF Delivers, Unbroken, Due
  <2>3. QED
    BY <2>1, <2>2, Zenon
<1>7. QED
  BY <1>2, <1>4, <1>5, <1>6, Zenon DEF RangeInv

-----------------------------------------------------------------------------
(* 13. Range and routes in any graph and in a tree *)

\* The inductive invariant of range.
THEOREM RangeInvariant == Spec => []RangeInv
<1>1. Init => RangeInv
  <2>1. SUFFICES ASSUME Init PROVE RangeInv
    BY Zenon
  <2>2. /\ up = DOMAIN net /\ attached = Nodes /\ DOMAIN log = {}
        /\ \A t \in Trunks, h \in Hubs : DOMAIN chan[<<t, h>>] = {}
        /\ \A h \in Hubs : conns[h] = {}
        /\ \A n \in Nodes : DOMAIN heard[n] = {}
    BY <2>1 DEF Init
  <2>3. Delivers /\ Unbroken
    BY <2>2, Zenon DEF Delivers, Unbroken
  <2>4. WithinRange /\ RoutesAreExact
    BY <2>2, Zenon DEF WithinRange, RoutesAreExact
  <2>5. QED
    BY <2>3, <2>4, Zenon DEF RangeInv
<1>2. MeshInv /\ (IsTree => Directed) /\ RangeInv /\ [Next]_vars => RangeInv'
  BY NextIs, SendRange, ReadRange, QuietRange, Zenon
<1>3. QED
  BY <1>1, <1>2, MeshInvariant, FramesLeadAway, PTL DEF Spec

\* When nothing is on the trunks, whoever is owed a frame and is within its TTL has heard it.
LEMMA OwedIsHeard ==
  ASSUME MeshInv, RangeInv, Quiet, NEW k \in DOMAIN log, NEW n \in Nodes, Due(n, k),
         Home[n] \in Within(Home[Src(k)], FreshTTL)
  PROVE  Heard(n, k)
<1>1. Reaching(n, k)
  BY Zenon DEF RangeInv, Delivers
<1>2. CASE Home[n] = Home[Src(k)]
  BY <1>1, <1>2, Zenon DEF Reaching
<1>3. CASE Home[n] # Home[Src(k)]
  <2>1. MeshTypes /\ Home[Src(k)] \in Hubs /\ FreshTTL \in Nat
    BY FrameIs, Constants, Zenon DEF MeshInv
  <2>2. PICK w : WalkTo(Home[Src(k)], Home[n], w, FreshTTL)
    BY <1>3, <2>1, WalkExists, Zenon
  <2>3. Leads(w, Home[Src(k)], n)
    BY <2>2, Zenon DEF WalkTo, Leads
  <2>4. ~Underway(k, w)
    <3>1. \A i \in 1 .. Len(w) : w[i] \in Trunks \X Hubs
      BY <2>3 DEF Leads, IsWalk
    <3>2. \A c \in Trunks \X Hubs : DOMAIN chan[c] = {}
      BY <2>1 DEF Quiet, MeshTypes
    <3>3. QED
      BY <3>1, <3>2, Zenon DEF Underway, OnTrunk
  <2>5. QED
    BY <1>1, <2>3, <2>4, Zenon DEF Reaching
<1>4. QED
  BY <1>2, <1>3, Zenon

\* forward_frame's TTL: while nothing breaks, an advertisement or a CONNECT_IND is heard by
\* exactly the nodes whose hubs are within FreshTTL trunks, in every graph of hubs.
THEOREM RangeIsExact == Spec => []RangeIsTTL
<1>1. MeshInv /\ RangeInv => RangeIsTTL
  <2>1. SUFFICES ASSUME MeshInv, RangeInv, Quiet, faults = 0, NEW k \in DOMAIN log, log[k].type # "data",
                        NEW n \in Nodes \ {log[k].src}
                 PROVE  Heard(n, k) <=> Home[n] \in Within(Home[log[k].src], FreshTTL)
    BY Zenon DEF RangeIsTTL
  <2>2. Heard(n, k) => Home[n] \in Within(Home[log[k].src], FreshTTL)
    BY <2>1, Zenon DEF Heard, RangeInv, WithinRange, Src
  <2>3. Due(n, k)
    BY <2>1, Zenon DEF Due
  <2>4. Home[n] \in Within(Home[log[k].src], FreshTTL) => Heard(n, k)
    BY <2>1, <2>3, OwedIsHeard, Zenon DEF Src
  <2>5. QED
    BY <2>2, <2>4, Zenon
<1>2. QED
  BY <1>1, MeshInvariant, RangeInvariant, PTL

\* In a tree of hubs the mirroring of data to the trunks does what its comment says: if both
\* ends' hubs have a route, data within the TTL is heard by the other end.
THEOREM TreeDataArrives == Spec => []TreeDataReachesPeer
<1>1. MeshInv /\ RangeInv => TreeDataReachesPeer
  <2>1. SUFFICES ASSUME MeshInv, RangeInv, IsTree, Quiet, NEW k \in DOMAIN log, log[k].settled,
                        NEW n \in {log[log[k].aa].src, log[log[k].aa].to} \ {log[k].src},
                        Home[n] \in Within(Home[log[k].src], FreshTTL)
                 PROVE  Heard(n, k)
    BY Zenon DEF TreeDataReachesPeer, DataReachesPeer
  <2>2. Due(n, k)
    BY <2>1, Zenon DEF Due
  <2>3. n \in Nodes
    BY <2>1, FrameIs, Zenon
  <2>4. QED
    BY <2>1, <2>2, <2>3, OwedIsHeard, Zenon DEF Src
<1>2. QED
  BY <1>1, MeshInvariant, RangeInvariant, PTL
=============================================================================
