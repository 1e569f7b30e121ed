------------------------------- MODULE VbtMesh -------------------------------
(***************************************************************************)
(* Several hubs joined by TCP trunks.  A hub forwards what it reads from a *)
(* node or a trunk to its other trunks (forward_frame); the TTL in the     *)
(* frame's flags ends the journey, and each hub builds its own route from  *)
(* the CONNECT_INDs that pass.  The other tables of a hub are in VbtMedium *)
(* and the sockets in VbtPeerIO; here a trunk keeps order and loses        *)
(* nothing while it is up.                                                 *)
(*   log[k]      the k-th frame a node has sent; the Access Address of a   *)
(*               connection is the number of its CONNECT_IND               *)
(*   chan[<<t, h>>]  frames on trunk t towards hub h: <<number, TTL>>      *)
(*   conns[h]    the connection table of hub h                             *)
(***************************************************************************)
EXTENDS Integers, Sequences, FiniteSets

CONSTANTS
  Hubs, Nodes,
  Home,         \* the hub each node is attached to
  Trunks,       \* names of trunks
  Topologies,   \* the graphs to consider: functions from trunks to pairs of hubs
  FreshTTL,     \* TTL of a frame a hub reads from a node (8)
  MaxConns,     \* MAX_CONNS
  MaxFrames,    \* bound for each graph: frames the nodes send and faults
  MaxInFlight,  \* bound: copies on the trunks when a node sends another frame
  MaxFaults,    \* bound: trunks and node sockets that break
  None          \* node index -1

ASSUME MeshAssumption ==
  /\ Home \in [Nodes -> Hubs] /\ FreshTTL \in Nat /\ MaxConns \in Nat
  /\ None \notin Nodes \cup Trunks
  /\ Topologies \subseteq UNION {[T -> Hubs \X Hubs] : T \in SUBSET Trunks}

VARIABLES
  net,        \* the graph
  up,         \* trunks that are connected
  attached,   \* nodes with a socket
  chan, conns, log,
  heard,      \* numbers of the frames written to each node, in order
  faults

vars == <<net, up, attached, chan, conns, log, heard, faults>>

Ends(t)   == {net[t][1], net[t][2]}
Far(t, h) == IF net[t][1] = h THEN net[t][2] ELSE net[t][1]
Locals(h) == {n \in attached : Home[n] = h}

Init ==
  /\ net \in Topologies /\ up = DOMAIN net /\ attached = Nodes
  /\ chan = [c \in Trunks \X Hubs |-> <<>>]
  /\ conns = [h \in Hubs |-> {}] /\ log = <<>> /\ heard = [n \in Nodes |-> <<>>]
  /\ faults = 0

-----------------------------------------------------------------------------
(* forward_frame *)

\* Mutants: the frame goes back on the trunk it came from; the TTL is not counted down.
Onward_Echo(h, from) == {t \in up : h \in Ends(t)}
NextTTL_Same(from, ttl) == IF from = None THEN FreshTTL ELSE ttl

\* The trunks a frame leaves hub h on, having come from trunk from (None: a node).
Onward(h, from)     == {t \in up \ {from} : h \in Ends(t)}
Admitted(from, ttl) == from = None \/ ttl > 0
NextTTL(from, ttl)  == IF from = None THEN FreshTTL ELSE ttl - 1

Entries(h, aa) == {c \in conns[h] : c.aa = aa}

\* An entry for aa is overwritten; a full table ignores the CONNECT_IND.  The
\* advertiser is known if it is a node of this hub.
observe_connect_ind(h, initiator, k) ==
  LET b == IF Home[log'[k].to] = h THEN log'[k].to ELSE None
  IN  IF Entries(h, k) = {} /\ Cardinality(conns[h]) >= MaxConns THEN conns[h]
      ELSE (conns[h] \ Entries(h, k)) \cup {[aa |-> k, a |-> initiator, b |-> b]}

\* Mutant: what comes from a trunk is for the initiator.
Other_Initiator(c, src) == IF src # None /\ c.a = src THEN c.b ELSE c.a

\* The endpoint a data PDU of connection c is routed to; src is None for a trunk.
Other(c, src) ==
  IF src # None /\ c.a = src THEN c.b
  ELSE IF src # None /\ c.b = src THEN c.a
  ELSE IF c.a = src THEN c.b ELSE c.a

\* Mutant: data of an unknown connection is broadcast.
Hears_Broadcast(h, src, k) ==
  IF log'[k].type = "data" /\ Entries(h, log'[k].aa) # {}
  THEN {Other(c, src) : c \in Entries(h, log'[k].aa)} \cap Locals(h)
  ELSE Locals(h) \ {src}

\* The nodes of hub h that frame k is written to.
Hears(h, src, k) ==
  IF log'[k].type = "data"
  THEN {Other(c, src) : c \in Entries(h, log'[k].aa)} \cap Locals(h)
  ELSE Locals(h) \ {src}

\* Hub h has read frame k from node src or from trunk from; rest are the channels
\* without it.
forward_frame(h, src, from, k, ttl, rest) ==
  IF ~Admitted(from, ttl) THEN chan' = rest /\ UNCHANGED <<conns, heard>>
  ELSE /\ chan' = [c \in DOMAIN rest |->
                     IF c[1] \in Onward(h, from) /\ c[2] = Far(c[1], h)
                     THEN Append(rest[c], <<k, NextTTL(from, ttl)>>) ELSE rest[c]]
       /\ conns' = IF log'[k].type = "connect"
                   THEN [conns EXCEPT ![h] = observe_connect_ind(h, src, k)] ELSE conns
       /\ heard' = [n \in Nodes |-> IF n \in Hears(h, src, k) THEN Append(heard[n], k) ELSE heard[n]]

-----------------------------------------------------------------------------
(* Nodes *)

InFlight == Cardinality(UNION {{c} \X DOMAIN chan[c] : c \in DOMAIN chan})
Quiet == \A c \in DOMAIN chan : chan[c] = <<>>

\* settled: nothing else is under way and both ends of the connection are attached to
\* a hub that has a route for it.
Sends(n, type, to, aa) ==
  /\ n \in attached /\ Len(log) + faults < MaxFrames[net] /\ InFlight <= MaxInFlight
  /\ LET settled == /\ type = "data" /\ Quiet /\ up = DOMAIN net
                    /\ \A m \in {log[aa].src, log[aa].to} :
                         m \in attached /\ Entries(Home[m], aa) # {}
     IN  log' = Append(log, [type |-> type, src |-> n, to |-> to, aa |-> aa, settled |-> settled])
  /\ forward_frame(Home[n], n, None, Len(log'), 0, chan)
  /\ UNCHANGED <<net, up, attached, faults>>

Heard(n, k) == \E i \in DOMAIN heard[n] : heard[n][i] = k

Advertise(n) == Sends(n, "adv", None, 0)

\* An initiator answers an advertisement it has heard.
Connect(n, m) ==
  /\ \E k \in DOMAIN log : log[k].type = "adv" /\ log[k].src = m /\ Heard(n, k)
  /\ Sends(n, "connect", m, 0)

\* Either end sends data: the central at once, the peripheral when it has accepted.
Data(n, aa) ==
  /\ log[aa].type = "connect"
  /\ n = log[aa].src \/ (n = log[aa].to /\ Heard(n, aa))
  /\ Sends(n, "data", None, aa)

conns_drop_node(h, n) == {c \in conns[h] : n \notin {c.a, c.b}}

Fault == faults < MaxFaults /\ Len(log) + faults < MaxFrames[net] /\ faults' = faults + 1

Unsettle(l) == [k \in DOMAIN l |-> [l[k] EXCEPT !.settled = FALSE]]

\* A node's socket closes, and the node connects again.
Leave(n) ==
  /\ n \in attached /\ Fault
  /\ attached' = attached \ {n}
  /\ conns' = [conns EXCEPT ![Home[n]] = conns_drop_node(Home[n], n)]
  /\ log' = Unsettle(log)
  /\ UNCHANGED <<net, up, chan, heard>>

Rejoin(n) ==
  /\ n \in Nodes \ attached /\ attached' = attached \cup {n}
  /\ UNCHANGED <<net, up, chan, conns, log, heard, faults>>

-----------------------------------------------------------------------------
(* Trunks *)

\* Mutant: an expired frame stays in the receive buffer.
HubReads_Keep(t, h) ==
  /\ t \in up /\ chan[<<t, h>>] # <<>>
  /\ UNCHANGED <<net, up, attached, log, faults>>
  /\ LET f == Head(chan[<<t, h>>])
     IN  forward_frame(h, None, t, f[1], f[2],
                       IF Admitted(t, f[2]) THEN [chan EXCEPT ![<<t, h>>] = Tail(@)] ELSE chan)

HubReads(t, h) ==
  /\ t \in up /\ chan[<<t, h>>] # <<>>
  /\ UNCHANGED <<net, up, attached, log, faults>>
  /\ LET f == Head(chan[<<t, h>>])
     IN  forward_frame(h, None, t, f[1], f[2], [chan EXCEPT ![<<t, h>>] = Tail(@)])

\* A trunk breaks with what is on it, and is dialled again.
TrunkBreaks(t) ==
  /\ t \in up /\ Fault
  /\ up' = up \ {t}
  /\ chan' = [c \in DOMAIN chan |-> IF c[1] = t THEN <<>> ELSE chan[c]]
  /\ log' = Unsettle(log)
  /\ UNCHANGED <<net, attached, conns, heard>>

TrunkRedials(t) ==
  /\ t \in DOMAIN net \ up /\ up' = up \cup {t}
  /\ UNCHANGED <<net, attached, chan, conns, log, heard, faults>>

Reads == \E t \in Trunks, h \in Hubs : HubReads(t, h)

Next ==
  \/ \E n \in Nodes :
       \/ Advertise(n) \/ Leave(n) \/ Rejoin(n)
       \/ \E m \in Nodes \ {n} : Connect(n, m)
       \/ \E aa \in DOMAIN log : Data(n, aa)
  \/ Reads
  \/ \E t \in Trunks : TrunkBreaks(t) \/ TrunkRedials(t)

\* The hubs' poll loops go on.
Spec == Init /\ [][Next]_vars /\ WF_vars(Reads)

-----------------------------------------------------------------------------
(* Properties *)

\* Hubs that can be reached from h over at most d trunks.
Within(h, d) ==
  {g \in Hubs : \E p \in [0 .. d -> Hubs] :
     /\ p[0] = h /\ p[d] = g
     /\ \A i \in 1 .. d : p[i] = p[i - 1] \/ \E t \in DOMAIN net : Ends(t) = {p[i - 1], p[i]}}

\* Trunk t, and no other, joins the hubs of S to the others.
IsCut(S, t) == \A s \in DOMAIN net : s = t <=> (net[s][1] \in S <=> net[s][2] \notin S)

\* At most one way between any two hubs: every trunk is the only one across some cut.
IsTree == \A t \in DOMAIN net : \E S \in SUBSET Hubs : IsCut(S, t)

\* In a tree of hubs every node hears the frames of another in the order they were
\* sent and none twice, through broken trunks and reconnections.
HeardInOrder ==
  IsTree => \A n \in Nodes : \A i, j \in DOMAIN heard[n] :
    i < j /\ log[heard[n][i]].src = log[heard[n][j]].src => heard[n][i] < heard[n][j]

\* While nothing breaks, an advertisement is heard exactly by the nodes whose hubs are
\* within FreshTTL trunks, the sender itself set aside.
RangeIsTTL ==
  Quiet /\ faults = 0 => \A k \in DOMAIN log : log[k].type # "data" =>
    \A n \in Nodes \ {log[k].src} :
      Heard(n, k) <=> Home[n] \in Within(Home[log[k].src], FreshTTL)

\* In a tree of hubs data is heard by nobody but the other end of its connection.
DataIsPrivate ==
  IsTree => \A n \in Nodes : \A i \in DOMAIN heard[n] :
    LET f == log[heard[n][i]]
    IN  f.type = "data" => n # f.src /\ n \in {log[f.aa].src, log[f.aa].to}

\* vbt_medium.c: data is mirrored to the trunks "so a remote endpoint on another hub
\* hears it".  If both ends' hubs have a route, data within the TTL arrives.
DataReachesPeer ==
  Quiet => \A k \in DOMAIN log : log[k].settled =>
    \A n \in {log[log[k].aa].src, log[log[k].aa].to} \ {log[k].src} :
      Home[n] \in Within(Home[log[k].src], FreshTTL) => Heard(n, k)

\* The same in a tree of hubs.
TreeDataReachesPeer == IsTree => DataReachesPeer

\* Frames die out, in cycles of hubs too.
FramesDieOut == []<>Quiet
=============================================================================
