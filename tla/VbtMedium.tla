------------------------------ MODULE VbtMedium ------------------------------
(***************************************************************************)
(* The medium hub, vbt_medium.c: a single-threaded poll() loop that fans   *)
(* advertising PDUs out to every node and routes connection data by Access *)
(* Address.  One action is one complete handler call of the loop.          *)
(*                                                                         *)
(* The C arrays of structs are modelled field by field: a boolean field is *)
(* the set of slots where it holds, any other field a function on slots.   *)
(*   - A peer slot is a live socket (fd >= 0) exactly when it is in open.  *)
(*   - Nodes are keyed by their node_id.  The table never frees a slot     *)
(*     (auto_named is never set), so node_id and index are one to one.     *)
(*   - num_peers and num_conns are high-water marks: both allocators take  *)
(*     the lowest free slot, which is what peer_alloc and conn_alloc do    *)
(*     here with the whole table in view.                                  *)
(***************************************************************************)
EXTENDS Integers, FiniteSets

CONSTANTS
  MaxPeers,    \* MAX_PEERS
  MaxNodes,    \* MAX_NODES
  MaxConns,    \* MAX_CONNS
  MaxAddrs,    \* MAX_ADDRS_PER_NODE
  FreshTTL,    \* the TTL of a frame that enters the mesh at this hub (8)
  NodeIds,     \* names a hello or a control command may carry
  AutoName,    \* AutoName[i] is the node_id "node<i>" given to the i-th anonymous hello
  Addrs,       \* device addresses
  ZeroAddr,    \* 00:00:00:00:00:00
  AAs,         \* Access Addresses a CONNECT_IND may announce
  Upstreams,   \* the -u trunks of the command line
  TcpListen,   \* was the hub started with -t (tcp_listen_fd >= 0)?
  MaxOpened,   \* bound on the connections one behaviour opens
  None         \* index -1 into nodes[]

Peers   == 0 .. MaxPeers - 1
Slots   == 0 .. MaxConns - 1
NoPeer  == -1
NoSlot  == -1
NoAA    == None        \* an Access Address of 0 or 0x8E89BED6, never routed

ASSUME SizesAssumption ==
  /\ MaxPeers \in Nat \ {0} /\ MaxNodes \in Nat /\ MaxConns \in Nat
  /\ MaxAddrs \in Nat /\ FreshTTL \in Nat /\ MaxOpened \in Nat
ASSUME NamesAssumption ==
  /\ None \notin NodeIds /\ None \notin AAs
  /\ ZeroAddr \in Addrs
  /\ TcpListen \in BOOLEAN
  /\ \A i \in DOMAIN AutoName : AutoName[i] \in NodeIds

VARIABLES
  \* peers[]
  open,          \* sockets with fd >= 0
  is_bridge,     \* inter-hub TCP trunks
  is_monitor,    \* promiscuous taps
  node_idx,      \* the node a socket speaks for
  \* nodes[]
  active,        \* names in the node table
  peer_idx,      \* the socket a node is reached through
  addrs,         \* addresses learned for a node
  next_auto_id,
  \* conns[]
  conns,         \* Access Address -> two endpoints
  opened,        \* stat_conns_opened
  closed,        \* stat_conns_closed
  \* upstream_state[]
  upstream,      \* the socket of each outbound trunk
  \* output of the last handler call
  wire           \* the frame forwarded, and the sockets it was offered to

peerVars == <<open, is_bridge, is_monitor, node_idx>>
nodeVars == <<active, peer_idx, addrs, next_auto_id>>
connVars == <<conns, opened, closed>>
vars     == <<peerVars, nodeVars, connVars, upstream, wire>>

FreeConn == [access_addr |-> NoAA, node_a |-> None, node_b |-> None]
Conn     == [access_addr : AAs \cup {NoAA},
             node_a : NodeIds \cup {None}, node_b : NodeIds \cup {None}]
Live(cs) == {i \in Slots : cs[i].access_addr # NoAA}

NoFrame  == [type |-> "none", src |-> NoPeer, from |-> None, aa |-> NoAA, ttl |-> 0,
             taps |-> {}, hears |-> {}, trunks |-> {}]
Frame    == [type : {"none", "adv", "data"}, src : Peers \cup {NoPeer},
             from : NodeIds \cup {None}, aa : AAs \cup {NoAA}, ttl : 0 .. FreshTTL,
             taps : SUBSET Peers, hears : SUBSET Peers, trunks : SUBSET Peers]

Lowest(S) == CHOOSE i \in S : \A j \in S : i <= j

Init ==
  /\ open = {} /\ is_bridge = {} /\ is_monitor = {}
  /\ node_idx = [p \in Peers |-> None]
  /\ active = {}
  /\ peer_idx = [n \in NodeIds |-> NoPeer]
  /\ addrs = [n \in NodeIds |-> {}]
  /\ next_auto_id = 0
  /\ conns = [i \in Slots |-> FreeConn]
  /\ opened = 0 /\ closed = 0
  /\ upstream = [u \in Upstreams |-> NoPeer]
  /\ wire = NoFrame

-----------------------------------------------------------------------------
(* Node and connection tables, as functions of the table they change. *)

\* Mutant: the other nodes keep the address.
node_add_addr_Copies(as, nd, addr) ==
  IF nd = None \/ addr = ZeroAddr \/ Cardinality(as[nd]) >= MaxAddrs THEN as
  ELSE [as EXCEPT ![nd] = @ \cup {addr}]

\* An address moves to the node that now transmits with it.  A node whose table
\* is full takes no more addresses, but the others have lost it by then.
node_add_addr(as, nd, addr) ==
  IF nd = None \/ addr = ZeroAddr \/ addr \in as[nd] THEN as
  ELSE [n \in NodeIds |->
          IF n # nd THEN IF n \in active THEN as[n] \ {addr} ELSE as[n]
          ELSE IF Cardinality(as[n]) < MaxAddrs THEN as[n] \cup {addr} ELSE as[n]]

Owners(as, addr) == {n \in active : addr \in as[n]}

find_node_by_addr(as, addr) ==
  IF addr = ZeroAddr \/ Owners(as, addr) = {} THEN None
  ELSE CHOOSE n \in NodeIds : n \in Owners(as, addr)

find_conn(cs, aa) ==
  LET hits == {i \in Live(cs) : cs[i].access_addr = aa}
  IN  IF hits = {} THEN NoSlot ELSE Lowest(hits)

conn_alloc(cs) ==
  IF Slots \subseteq Live(cs) THEN NoSlot ELSE Lowest(Slots \ Live(cs))

\* Mutant: a new entry for every CONNECT_IND.
RouteSlot_Fresh(cs, aa) == conn_alloc(cs)

\* The slot a CONNECT_IND for aa writes: the one that already has the Access
\* Address, else a free one, else none (table full).
RouteSlot(cs, aa) ==
  IF find_conn(cs, aa) # NoSlot THEN find_conn(cs, aa) ELSE conn_alloc(cs)

observe_connect_ind(cs, initiator, advertiser, aa) ==
  IF aa = NoAA \/ RouteSlot(cs, aa) = NoSlot THEN cs
  ELSE [cs EXCEPT ![RouteSlot(cs, aa)] =
          [access_addr |-> aa, node_a |-> initiator, node_b |-> advertiser]]

Touches(c, N) == c.node_a \in N \/ c.node_b \in N

\* Mutant: only the initiator's entries are dropped.
conns_drop_node_Half(cs, N) ==
  [i \in Slots |-> IF cs[i].node_a \in N THEN FreeConn ELSE cs[i]]

conns_drop_node(cs, N) ==
  [i \in Slots |-> IF Touches(cs[i], N) THEN FreeConn ELSE cs[i]]

-----------------------------------------------------------------------------
(* peer_close of every socket in S, applied to the connection table cs.    *)
(* Departing(S) are the nodes these sockets speak for; a socket that was   *)
(* replaced by a newer one speaks for none.                                *)

\* Mutant: no node departs with its socket.
Departing_None(S) == {}

Departing(S) == {node_idx[p] : p \in S} \ {None}

\* Mutant: a node stays bound to the socket that was closed.
Unbound_Never(S, n) == FALSE

Unbound(S, n) == \E p \in S : node_idx[p] = n /\ peer_idx[n] = p

\* Mutant: a trunk that went down is not marked for reconnection.
Redial_Never(S) == upstream

Redial(S) == [u \in Upstreams |-> IF upstream[u] \in S THEN NoPeer ELSE upstream[u]]

peer_close(S, cs) ==
  /\ open' = open \ S
  /\ is_bridge' = is_bridge \ S
  /\ is_monitor' = is_monitor \ S
  /\ node_idx' = [p \in Peers |-> IF p \in S THEN None ELSE node_idx[p]]
  /\ peer_idx' = [n \in NodeIds |-> IF Unbound(S, n) THEN NoPeer ELSE peer_idx[n]]
  /\ conns' = conns_drop_node(cs, Departing(S))
  /\ closed' = closed + Cardinality({i \in Live(cs) : Touches(cs[i], Departing(S))})
  /\ upstream' = Redial(S)

\* End of file, a read error, POLLERR/POLLHUP, an oversized length prefix or a
\* write error while flushing the backlog.
PeerClose(p) ==
  /\ p \in open
  /\ peer_close({p}, conns)
  /\ wire' = NoFrame
  /\ UNCHANGED <<active, addrs, next_auto_id, opened>>

-----------------------------------------------------------------------------
(* New sockets.  With the peer table full the socket is closed at once and *)
(* nothing changes.                                                        *)

peer_alloc(bridge) ==
  /\ open # Peers
  /\ open' = open \cup {Lowest(Peers \ open)}
  /\ is_bridge' = IF bridge THEN is_bridge \cup {Lowest(Peers \ open)} ELSE is_bridge
  /\ wire' = NoFrame
  /\ UNCHANGED <<is_monitor, node_idx, nodeVars, connVars>>

accept_unix == peer_alloc(FALSE) /\ UNCHANGED upstream

accept_tcp == TcpListen /\ peer_alloc(TRUE) /\ UNCHANGED upstream

\* A trunk that is down is dialled again, at most every UPSTREAM_RETRY_SEC.  A
\* refused connect changes nothing.
upstream_connect(u) ==
  /\ upstream[u] = NoPeer
  /\ peer_alloc(TRUE)
  /\ upstream' = [upstream EXCEPT ![u] = Lowest(Peers \ open)]

-----------------------------------------------------------------------------
(* Hello, "sent by every node immediately after connecting" (vbt.h): a     *)
(* socket that already speaks for a node or taps the air does not greet    *)
(* again, and trunks never do.                                             *)

Greeter(p) == p \in open \ (is_bridge \cup is_monitor) /\ node_idx[p] = None

\* Mutant: a name that is online is not given to a second socket.
Refused_Online(nid) == nid \in active /\ peer_idx[nid] # NoPeer

Refused(nid) == nid \notin active /\ Cardinality(active) >= MaxNodes

\* Mutant: the replaced socket keeps speaking for the node.
Replaced_Keeps(nid) == NoPeer

Replaced(nid) == IF nid \in active THEN peer_idx[nid] ELSE NoPeer

\* The newest socket to claim a name gets it; with the node table full the socket
\* stays anonymous.
bind_peer_node(p, nid) ==
  IF Refused(nid) THEN UNCHANGED <<active, node_idx, peer_idx>>
  ELSE /\ active' = active \cup {nid}
       /\ node_idx' = [q \in Peers |-> IF q = p THEN nid
                                       ELSE IF q = Replaced(nid) THEN None ELSE node_idx[q]]
       /\ peer_idx' = [peer_idx EXCEPT ![nid] = p]

HelloNode(p, nid) ==
  /\ Greeter(p)
  /\ bind_peer_node(p, nid)
  /\ wire' = NoFrame
  /\ UNCHANGED <<open, is_bridge, is_monitor, addrs, next_auto_id, connVars, upstream>>

HelloAnonymous(p) ==
  /\ Greeter(p)
  /\ next_auto_id \in DOMAIN AutoName
  /\ bind_peer_node(p, AutoName[next_auto_id])
  /\ next_auto_id' = next_auto_id + 1
  /\ wire' = NoFrame
  /\ UNCHANGED <<open, is_bridge, is_monitor, addrs, connVars, upstream>>

\* A tap without a name uses up an automatic one.
HelloMonitor(p, anonymous) ==
  /\ Greeter(p)
  /\ is_monitor' = is_monitor \cup {p}
  /\ anonymous => next_auto_id \in DOMAIN AutoName
  /\ next_auto_id' = IF anonymous THEN next_auto_id + 1 ELSE next_auto_id
  /\ wire' = NoFrame
  /\ UNCHANGED <<open, is_bridge, node_idx, active, peer_idx, addrs, connVars, upstream>>

\* SET_POS, SET_TXPOWER and SET_SENS create the node they name when no node has
\* that name or address; its radio parameters are not part of this module.
CtlNode(nid) ==
  /\ nid \notin active
  /\ Cardinality(active) < MaxNodes
  /\ active' = active \cup {nid}
  /\ wire' = NoFrame
  /\ UNCHANGED <<peerVars, peer_idx, addrs, next_auto_id, connVars, upstream>>

-----------------------------------------------------------------------------
(* forward_frame.  The sockets a copy is offered to; whether the copy gets *)
(* through is up to propagate() and to the backlog of the socket, neither  *)
(* of which changes a table of this module.  A hard write error closes the *)
(* socket in the middle of the fan-out: that is the set failed.  It is     *)
(* never the socket being read: only a node connected to itself would be   *)
(* written to there, and peer_readable goes on using the socket.           *)

\* Mutant: a trunk gets its own frames back.
Trunks_All(p) == is_bridge

Taps(p)      == is_monitor \ {p}
Trunks(p)    == is_bridge \ {p}
Listeners(p) == {q \in open \ (is_bridge \cup {p}) : node_idx[q] # None}

\* A frame from a trunk is dropped when its TTL is spent; a local one starts
\* with the full TTL.  Taps only listen.
Admitted(p, ttl) ==
  /\ p \in open \ is_monitor
  /\ IF p \in is_bridge THEN ttl > 0 ELSE ttl = FreshTTL
NextTTL(p, ttl) == IF p \in is_bridge THEN ttl - 1 ELSE FreshTTL

\* The sets of sockets whose write may fail hard.
HardErrors(p, hears) == SUBSET ((Taps(p) \cup Trunks(p) \cup hears) \ {p})

Forward(p, type, aa, tx, ttl, hears, cs) ==
  \E failed \in HardErrors(p, hears) :
    /\ peer_close(failed, cs)
    /\ addrs' = node_add_addr(addrs, node_idx[p], tx)
    /\ wire' = [type |-> type, src |-> p, from |-> node_idx[p], aa |-> aa,
                ttl |-> NextTTL(p, ttl), taps |-> Taps(p) \ failed,
                hears |-> hears \ failed, trunks |-> Trunks(p) \ failed]
    /\ UNCHANGED <<active, next_auto_id>>

ForwardAdv(p, tx, ttl) ==
  /\ Admitted(p, ttl)
  /\ Forward(p, "adv", NoAA, tx, ttl, Listeners(p), conns)
  /\ UNCHANGED opened

\* The advertiser is looked up after the sender's own address was learned.
ForwardConnectInd(p, tx, adva, aa, ttl) ==
  LET as == node_add_addr(addrs, node_idx[p], tx)
      cs == observe_connect_ind(conns, node_idx[p], find_node_by_addr(as, adva), aa)
  IN  /\ Admitted(p, ttl)
      /\ opened < MaxOpened
      /\ opened' = IF Live(cs) = Live(conns) THEN opened ELSE opened + 1
      /\ Forward(p, "adv", aa, tx, ttl, Listeners(p), cs)

\* Mutant: data always goes to the advertiser.
Other_Advertiser(c, src) == c.node_b

\* The endpoint a data PDU goes to.
Other(c, src) ==
  IF src # None /\ c.node_a = src THEN c.node_b
  ELSE IF src # None /\ c.node_b = src THEN c.node_a
  ELSE IF c.node_a = src THEN c.node_b ELSE c.node_a

\* Mutant: data on an unknown Access Address is broadcast.
DataHears_All(p, aa) == Listeners(p)

DataHears(p, aa) ==
  LET i     == find_conn(conns, aa)
      other == Other(conns[i], node_idx[p])
  IN  IF i = NoSlot THEN {}
      ELSE IF other \in active /\ peer_idx[other] \in open THEN {peer_idx[other]} ELSE {}

ForwardData(p, tx, aa, ttl) ==
  /\ Admitted(p, ttl)
  /\ Forward(p, "data", aa, tx, ttl, DataHears(p, aa), conns)
  /\ UNCHANGED opened

-----------------------------------------------------------------------------
Next ==
  \/ accept_unix
  \/ accept_tcp
  \/ \E u \in Upstreams : upstream_connect(u)
  \/ \E p \in Peers : PeerClose(p)
  \/ \E p \in Peers, nid \in NodeIds : HelloNode(p, nid)
  \/ \E p \in Peers : HelloAnonymous(p)
  \/ \E p \in Peers, anonymous \in BOOLEAN : HelloMonitor(p, anonymous)
  \/ \E nid \in NodeIds : CtlNode(nid)
  \/ \E p \in Peers, tx \in Addrs, ttl \in 0 .. FreshTTL :
       \/ ForwardAdv(p, tx, ttl)
       \/ \E aa \in AAs \cup {NoAA} :
            \/ \E adva \in Addrs : ForwardConnectInd(p, tx, adva, aa, ttl)
            \/ ForwardData(p, tx, aa, ttl)

Spec == Init /\ [][Next]_vars

-----------------------------------------------------------------------------
(* Properties *)

\* Every table holds values of the type its C declaration gives it.
TypeOK ==
  /\ open \subseteq Peers /\ is_bridge \subseteq open /\ is_monitor \subseteq open
  /\ node_idx \in [Peers -> NodeIds \cup {None}]
  /\ active \subseteq NodeIds
  /\ peer_idx \in [NodeIds -> Peers \cup {NoPeer}]
  /\ addrs \in [NodeIds -> SUBSET Addrs]
  /\ next_auto_id \in Nat
  /\ conns \in [Slots -> Conn]
  /\ opened \in Nat /\ closed \in Nat
  /\ upstream \in [Upstreams -> Peers \cup {NoPeer}]
  /\ wire \in Frame

\* The two indices between sockets and nodes agree: a socket that speaks for a
\* node is open and is the one the node is reached through (bind_peer_node and
\* peer_close keep this through replacement, slot reuse and late closes), and
\* taps and trunks speak for nobody.
BoundSocketIsCurrent ==
  \A p \in Peers : node_idx[p] # None =>
    /\ p \in open \ (is_bridge \cup is_monitor)
    /\ node_idx[p] \in active
    /\ peer_idx[node_idx[p]] = p

\* struct node, peer_idx: "bound peer, or -1 if offline".  The socket a node is
\* reached through speaks for that node, so data routed to a node can never come
\* out of a socket slot that someone else has reused.
OnlineNodeIsBound ==
  \A n \in NodeIds : peer_idx[n] # NoPeer =>
    n \in active /\ node_idx[peer_idx[n]] = n

\* An address migrates between nodes, so lookups stay unambiguous
\* (node_add_addr): no two nodes own one address, whatever order their frames
\* arrive in.
AddressHasOneOwner ==
  \A n, m \in NodeIds : addrs[n] \cap addrs[m] # {} => n = m

\* An Access Address routes one connection: observe_connect_ind reuses the live
\* entry instead of opening a second one that find_conn would shadow.
AccessAddressIsUnique ==
  \A i, j \in Live(conns) : conns[i].access_addr = conns[j].access_addr => i = j

\* The initiator of a live connection is online: conns_drop_node on the close of
\* its socket, and only of its current socket, removed every other entry.
InitiatorIsOnline ==
  \A i \in Live(conns) : conns[i].node_a # None =>
    /\ peer_idx[conns[i].node_a] \in open
    /\ node_idx[peer_idx[conns[i].node_a]] = conns[i].node_a

\* STATS is consistent: the connections opened and not closed are the live ones,
\* through overwrites, table exhaustion and several sockets failing in one
\* fan-out.
StatsBalance == opened - closed = Cardinality(Live(conns))

\* A data PDU leaves through at most one node socket, and that socket is the
\* current one of an endpoint of the connection with that Access Address.
DataReachesOneEndpoint ==
  wire.type = "data" =>
    /\ Cardinality(wire.hears) <= 1
    /\ \A q \in wire.hears : \E i \in Live(conns) :
         /\ conns[i].access_addr = wire.aa
         /\ node_idx[q] \in {conns[i].node_a, conns[i].node_b} \ {None}

\* While both endpoints of a connection are online, a data PDU one of them sends
\* is offered to the socket the other one is reached through now, even if that
\* node has reconnected since the connection was set up.
DataFollowsReconnect ==
  wire.type = "data" => \A i \in Live(conns) :
    LET a == conns[i].node_a
        b == conns[i].node_b
    IN  /\ conns[i].access_addr = wire.aa
        /\ a # None /\ b # None /\ a # b /\ wire.from \in {a, b}
        => LET other == IF wire.from = a THEN b ELSE a
           IN  peer_idx[other] # NoPeer => wire.hears = {peer_idx[other]}

\* A frame never comes back out of the socket it came in through (unless a node
\* has a connection with itself), even after that socket's node was taken over.
NoEcho ==
  /\ wire.src \notin wire.taps \cup wire.trunks
  /\ wire.src \in wire.hears =>
       \E i \in Live(conns) : conns[i].node_a = conns[i].node_b

\* The socket recorded for an outbound trunk is an open trunk, so a trunk that
\* went down is always dialled again and no slot reuse can hide it.
UpstreamIsOpenTrunk ==
  \A u, v \in Upstreams : upstream[u] # NoPeer =>
    upstream[u] \in is_bridge /\ (upstream[u] = upstream[v] => u = v)
=============================================================================
