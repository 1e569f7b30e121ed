--------------------------- MODULE VbtMedium_proofs ---------------------------
(***************************************************************************)
(* Proofs about the hub, for tables of every size and any set of names,    *)
(* addresses, Access Addresses and trunks.  HubInv is the inductive        *)
(* invariant: the safety invariants of VbtMedium support each other and    *)
(* need only one strengthening, that names outside the node table own no   *)
(* address.                                                                *)
(***************************************************************************)
EXTENDS VbtMedium, FiniteSetTheorems, WellFoundedInduction, TLAPS

\* node_add_addr only looks at active nodes, so only those may own addresses.
OwnersAreActive == \A n \in NodeIds : addrs[n] # {} => n \in active

HubInv ==
  /\ TypeOK
  /\ BoundSocketIsCurrent
  /\ OnlineNodeIsBound
  /\ OwnersAreActive
  /\ AddressHasOneOwner
  /\ AccessAddressIsUnique
  /\ InitiatorIsOnline
  /\ StatsBalance
  /\ UpstreamIsOpenTrunk

-----------------------------------------------------------------------------
(* Slots and connection tables *)

\* peer_alloc and conn_alloc find the lowest free slot whenever there is one.
LEMMA LowestIsMember ==
  ASSUME NEW S \in SUBSET Nat, S # {}
  PROVE  Lowest(S) \in S
<1>1. \E x \in S : \A y \in S : ~ (<<y, x>> \in OpToRel(<, Nat))
  BY NatLessThanWellFounded, WFMin, Zenon
<1>2. \E i \in S : \A j \in S : i <= j
  <2>1. PICK x \in S : \A y \in S : ~ (<<y, x>> \in OpToRel(<, Nat))
    BY <1>1, Zenon
  <2>2. ASSUME NEW y \in S PROVE x <= y
    <3>1. x \in Nat /\ y \in Nat
      BY Zenon
    <3>2. ~ (y < x)
      BY <2>1, <3>1, Zenon DEF OpToRel
    <3> QED
      BY <3>1, <3>2
  <2> QED
    BY <2>2, Zenon
<1> QED
  BY <1>2, Zenon DEF Lowest

\* The free peer slot a new socket gets.
LEMMA FreshPeer ==
  ASSUME open \subseteq Peers, open # Peers
  PROVE  Lowest(Peers \ open) \in Peers \ open
<1>1. Peers \ open \in SUBSET Nat
  BY SizesAssumption DEF Peers
<1> QED
  BY <1>1, LowestIsMember, Zenon

\* The live entries of a connection table can be counted.
LEMMA LiveIsFinite ==
  ASSUME NEW cs, NEW T \in SUBSET Live(cs)
  PROVE  IsFiniteSet(T) /\ Cardinality(T) \in Nat
<1>1. IsFiniteSet(Slots)
  BY SizesAssumption, FS_Interval DEF Slots
<1>2. T \in SUBSET Slots
  BY Zenon DEF Live
<1> QED
  BY <1>1, <1>2, FS_Subset, FS_CardinalityType, Zenon

-----------------------------------------------------------------------------
(* The address table *)

\* Learning an address moves it: the table stays typed, owned by active nodes and
\* without a second owner.
LEMMA AddAddrKeepsOwners ==
  ASSUME HubInv, NEW nd \in NodeIds \cup {None}, nd # None => nd \in active,
         NEW tx \in Addrs
  PROVE  LET as == node_add_addr(addrs, nd, tx)
         IN  /\ as \in [NodeIds -> SUBSET Addrs]
             /\ \A n \in NodeIds : as[n] # {} => n \in active
             /\ \A n, m \in NodeIds : as[n] \cap as[m] # {} => n = m
<1> DEFINE as == node_add_addr(addrs, nd, tx)
<1>0. /\ addrs \in [NodeIds -> SUBSET Addrs] /\ active \subseteq NodeIds
      /\ \A n \in NodeIds : addrs[n] # {} => n \in active
      /\ \A n, m \in NodeIds : addrs[n] \cap addrs[m] # {} => n = m
  BY Zenon DEF HubInv, TypeOK, OwnersAreActive, AddressHasOneOwner
<1>1. CASE nd = None \/ tx = ZeroAddr \/ tx \in addrs[nd]
  BY <1>0, <1>1, Zenon DEF node_add_addr
<1>2. CASE ~(nd = None \/ tx = ZeroAddr \/ tx \in addrs[nd])
  <2>1. /\ as \in [NodeIds -> SUBSET Addrs]
        /\ \A n \in NodeIds : n # nd => as[n] = addrs[n] \ {tx}
        /\ as[nd] \subseteq addrs[nd] \cup {tx}
    BY <1>0, <1>2, Zenon DEF node_add_addr
  <2>2. \A n \in NodeIds : as[n] # {} => n \in active
    BY <1>0, <1>2, <2>1, Zenon
  <2>3. \A n, m \in NodeIds : as[n] \cap as[m] # {} => n = m
    BY <1>0, <1>2, <2>1
  <2> QED
    BY <2>1, <2>2, <2>3, Zenon
<1> QED
  BY <1>1, <1>2, Zenon

\* A lookup returns a node of the table or none.
LEMMA FoundNodeType ==
  ASSUME active \subseteq NodeIds, NEW as, NEW addr
  PROVE  find_node_by_addr(as, addr) \in NodeIds \cup {None}
BY Zenon DEF find_node_by_addr, Owners

-----------------------------------------------------------------------------
(* The connection table.  RoutesOK is what HubInv says of it, for a table  *)
(* that a CONNECT_IND is about to change.                                  *)

RoutesOK(cs) ==
  /\ cs \in [Slots -> Conn]
  /\ \A i, j \in Live(cs) : cs[i].access_addr = cs[j].access_addr => i = j
  /\ \A i \in Live(cs) : cs[i].node_a # None =>
       /\ peer_idx[cs[i].node_a] \in open
       /\ node_idx[peer_idx[cs[i].node_a]] = cs[i].node_a

\* The hub's own table is one of these.
LEMMA HubRoutesOK == HubInv => RoutesOK(conns)
BY Zenon DEF HubInv, TypeOK, AccessAddressIsUnique, InitiatorIsOnline, RoutesOK

\* find_conn finds the live entry of an Access Address if there is one.
LEMMA FoundConn ==
  ASSUME NEW cs, NEW aa
  PROVE  \/ /\ find_conn(cs, aa) = NoSlot
            /\ \A i \in Live(cs) : cs[i].access_addr # aa
         \/ find_conn(cs, aa) \in Live(cs) /\ cs[find_conn(cs, aa)].access_addr = aa
<1> DEFINE hits == {i \in Live(cs) : cs[i].access_addr = aa}
<1>1. hits \in SUBSET Nat
  BY SizesAssumption DEF Live, Slots
<1>2. CASE hits = {}
  BY <1>2, Zenon DEF find_conn
<1>3. CASE hits # {}
  <2>1. Lowest(hits) \in hits
    BY <1>1, <1>3, LowestIsMember, Zenon
  <2>2. find_conn(cs, aa) = Lowest(hits)
    BY <1>3, Zenon DEF find_conn
  <2> QED
    BY <2>1, <2>2, Zenon
<1> QED
  BY <1>2, <1>3, Zenon

\* conn_alloc returns a slot that is not in use, or none.
LEMMA AllocatedConn ==
  ASSUME NEW cs
  PROVE  conn_alloc(cs) = NoSlot \/ conn_alloc(cs) \in Slots \ Live(cs)
<1>1. Slots \ Live(cs) \in SUBSET Nat
  BY SizesAssumption DEF Slots
<1> QED
  BY <1>1, LowestIsMember, Zenon DEF conn_alloc

\* A CONNECT_IND rewrites the entry of its Access Address or fills a free one; the
\* table keeps its invariant because the initiator is the node that is speaking.
LEMMA ConnectIndKeepsRoutes ==
  ASSUME HubInv, NEW a \in NodeIds \cup {None}, NEW b \in NodeIds \cup {None},
         NEW aa \in AAs \cup {NoAA},
         a # None => peer_idx[a] \in open /\ node_idx[peer_idx[a]] = a
  PROVE  LET cs == observe_connect_ind(conns, a, b, aa)
         IN  /\ RoutesOK(cs)
             /\ Cardinality(Live(cs)) = Cardinality(Live(conns))
                  + (IF Live(cs) = Live(conns) THEN 0 ELSE 1)
<1> DEFINE cs == observe_connect_ind(conns, a, b, aa)
           k  == RouteSlot(conns, aa)
           c  == [access_addr |-> aa, node_a |-> a, node_b |-> b]
<1>0. RoutesOK(conns) /\ Cardinality(Live(conns)) \in Nat /\ IsFiniteSet(Live(conns))
  BY HubRoutesOK, LiveIsFinite, Zenon
<1>1. CASE aa = NoAA \/ k = NoSlot
  <2>1. cs = conns
    BY <1>1, Zenon DEF observe_connect_ind
  <2> QED
    BY <1>0, <2>1
<1>2. CASE ~(aa = NoAA \/ k = NoSlot)
  <2>1. cs = [conns EXCEPT ![k] = c]
    BY <1>2, Zenon DEF observe_connect_ind
  <2>2. \/ k \in Live(conns) /\ conns[k].access_addr = aa
        \/ /\ k \in Slots \ Live(conns)
           /\ \A i \in Live(conns) : conns[i].access_addr # aa
    <3>1. \/ /\ find_conn(conns, aa) = NoSlot
             /\ \A i \in Live(conns) : conns[i].access_addr # aa
          \/ /\ find_conn(conns, aa) \in Live(conns)
             /\ conns[find_conn(conns, aa)].access_addr = aa
      BY FoundConn, Zenon
    <3>2. conn_alloc(conns) = NoSlot \/ conn_alloc(conns) \in Slots \ Live(conns)
      BY AllocatedConn, Zenon
    <3>3. k = IF find_conn(conns, aa) # NoSlot THEN find_conn(conns, aa) ELSE conn_alloc(conns)
      BY Zenon DEF RouteSlot
    <3>4. k # NoSlot
      BY <1>2, Zenon
    <3> HIDE DEF k
    <3>5. CASE find_conn(conns, aa) = NoSlot
      <4>1. k \in Slots \ Live(conns)
        BY <3>2, <3>3, <3>4, <3>5, Zenon
      <4>2. NoSlot \notin Live(conns)
        BY SizesAssumption DEF Live, Slots, NoSlot
      <4> QED
        BY <3>1, <3>5, <4>1, <4>2, Zenon
    <3>6. CASE find_conn(conns, aa) # NoSlot
      BY <3>1, <3>3, <3>6, Zenon
    <3> QED
      BY <3>5, <3>6, Zenon
  <2>3. k \in Slots
    BY <2>2, Zenon DEF Live
  <2>4. c \in Conn /\ c.access_addr # NoAA /\ conns \in [Slots -> Conn]
    BY <1>0, <1>2, Zenon DEF Conn, RoutesOK
  <2>5. /\ cs \in [Slots -> Conn] /\ cs[k] = c
        /\ \A i \in Slots : i # k => cs[i] = conns[i]
    BY <2>1, <2>3, <2>4, Zenon
  <2>6. Live(cs) = Live(conns) \cup {k}
    BY <2>3, <2>4, <2>5, Zenon DEF Live
  <2>7. \A i \in Live(cs) : i \in Slots
    BY Zenon DEF Live
  <2>8. \A i, j \in Live(cs) : cs[i].access_addr = cs[j].access_addr => i = j
    <3> SUFFICES ASSUME NEW i \in Live(cs), NEW j \in Live(cs),
                        cs[i].access_addr = cs[j].access_addr, i # j
                 PROVE  FALSE
      BY Zenon
    <3>1. \A m, l \in Live(conns) : conns[m].access_addr = conns[l].access_addr => m = l
      BY <1>0, Zenon DEF RoutesOK
    <3>2. \A m \in Live(conns) : m # k => conns[m].access_addr # aa
      BY <2>2, <3>1, Zenon
    <3>3. c.access_addr = aa
      BY Zenon
    <3> QED
      BY <2>5, <2>6, <2>7, <3>1, <3>2, <3>3
  <2>9. \A i \in Live(cs) : cs[i].node_a # None =>
          /\ peer_idx[cs[i].node_a] \in open
          /\ node_idx[peer_idx[cs[i].node_a]] = cs[i].node_a
    <3> SUFFICES ASSUME NEW i \in Live(cs), cs[i].node_a # None
                 PROVE  /\ peer_idx[cs[i].node_a] \in open
                        /\ node_idx[peer_idx[cs[i].node_a]] = cs[i].node_a
      BY Zenon
    <3>1. CASE i = k
      BY <3>1, <2>5
    <3>2. CASE i # k
      BY <3>2, <1>0, <2>5, <2>6, <2>7 DEF RoutesOK
    <3> QED
      BY <3>1, <3>2, Zenon
  <2>10. Cardinality(Live(cs)) = Cardinality(Live(conns))
            + (IF Live(cs) = Live(conns) THEN 0 ELSE 1)
    <3>1. Cardinality(Live(conns) \cup {k}) =
            IF k \in Live(conns) THEN Cardinality(Live(conns)) ELSE Cardinality(Live(conns)) + 1
      BY <1>0, FS_AddElement, Zenon
    <3>2. Live(cs) = Live(conns) <=> k \in Live(conns)
      BY <2>6, Zenon
    <3> QED
      BY <1>0, <2>6, <3>1, <3>2
  <2> QED
    BY <2>5, <2>8, <2>9, <2>10, Zenon DEF RoutesOK
<1> QED
  BY <1>1, <1>2, Zenon

-----------------------------------------------------------------------------
(* peer_close *)

\* Closing any set of sockets at once keeps the two indices between sockets and
\* nodes in agreement.
LEMMA CloseKeepsBinding ==
  ASSUME HubInv, NEW S \in SUBSET Peers, NEW cs, peer_close(S, cs), active' = active
  PROVE  /\ open' \subseteq Peers /\ is_bridge' \subseteq open' /\ is_monitor' \subseteq open'
         /\ node_idx' \in [Peers -> NodeIds \cup {None}]
         /\ peer_idx' \in [NodeIds -> Peers \cup {NoPeer}]
         /\ BoundSocketIsCurrent'
         /\ OnlineNodeIsBound'
<1>0. /\ open \subseteq Peers /\ is_bridge \subseteq open /\ is_monitor \subseteq open
      /\ node_idx \in [Peers -> NodeIds \cup {None}] /\ active \subseteq NodeIds
      /\ peer_idx \in [NodeIds -> Peers \cup {NoPeer}]
      /\ BoundSocketIsCurrent /\ OnlineNodeIsBound
  BY Zenon DEF HubInv, TypeOK
<1>1. /\ open' = open \ S /\ is_bridge' = is_bridge \ S /\ is_monitor' = is_monitor \ S
      /\ node_idx' = [p \in Peers |-> IF p \in S THEN None ELSE node_idx[p]]
      /\ peer_idx' = [n \in NodeIds |-> IF Unbound(S, n) THEN NoPeer ELSE peer_idx[n]]
  BY Zenon DEF peer_close
<1>2. /\ open' \subseteq Peers /\ is_bridge' \subseteq open' /\ is_monitor' \subseteq open'
      /\ node_idx' \in [Peers -> NodeIds \cup {None}]
      /\ peer_idx' \in [NodeIds -> Peers \cup {NoPeer}]
  BY <1>0, <1>1, Zenon
<1>3. BoundSocketIsCurrent'
  <2> SUFFICES ASSUME NEW p \in Peers, node_idx'[p] # None
               PROVE  /\ p \in open' \ (is_bridge' \cup is_monitor')
                      /\ node_idx'[p] \in active'
                      /\ peer_idx'[node_idx'[p]] = p
    BY Zenon DEF BoundSocketIsCurrent
  <2>1. p \notin S /\ node_idx'[p] = node_idx[p] /\ node_idx[p] # None
    BY <1>1, Zenon
  <2>2. /\ p \in open \ (is_bridge \cup is_monitor)
        /\ node_idx[p] \in active /\ peer_idx[node_idx[p]] = p
    BY <1>0, <2>1, Zenon DEF BoundSocketIsCurrent
  <2>3. ~Unbound(S, node_idx[p])
    BY <2>1, <2>2, Zenon DEF Unbound
  <2> QED
    BY <1>0, <1>1, <2>1, <2>2, <2>3, Zenon
<1>4. OnlineNodeIsBound'
  <2> SUFFICES ASSUME NEW n \in NodeIds, peer_idx'[n] # NoPeer
               PROVE  n \in active' /\ node_idx'[peer_idx'[n]] = n
    BY Zenon DEF OnlineNodeIsBound
  <2>1. ~Unbound(S, n) /\ peer_idx'[n] = peer_idx[n] /\ peer_idx[n] # NoPeer
    BY <1>1, Zenon
  <2>2. n \in active /\ node_idx[peer_idx[n]] = n /\ peer_idx[n] \in Peers
    BY <1>0, <2>1, Zenon DEF OnlineNodeIsBound
  <2>3. peer_idx[n] \notin S
    BY <2>1, <2>2, Zenon DEF Unbound
  <2> QED
    BY <1>1, <2>1, <2>2, <2>3, Zenon
<1> QED
  BY <1>2, <1>3, <1>4, Zenon

\* The connections of the nodes that depart are dropped and counted; every other
\* one keeps its endpoints and its initiator stays online.
LEMMA CloseKeepsRoutes ==
  ASSUME HubInv, NEW S \in SUBSET Peers, NEW cs, RoutesOK(cs), peer_close(S, cs)
  PROVE  /\ conns' \in [Slots -> Conn] /\ closed' \in Nat
         /\ AccessAddressIsUnique'
         /\ InitiatorIsOnline'
         /\ Cardinality(Live(conns')) = Cardinality(Live(cs)) - (closed' - closed)
<1> DEFINE gone == {i \in Live(cs) : Touches(cs[i], Departing(S))}
<1>0. /\ node_idx \in [Peers -> NodeIds \cup {None}] /\ closed \in Nat
      /\ peer_idx \in [NodeIds -> Peers \cup {NoPeer}] /\ open \subseteq Peers
      /\ cs \in [Slots -> Conn]
  BY Zenon DEF HubInv, TypeOK, RoutesOK
<1>1. /\ conns' = conns_drop_node(cs, Departing(S))
      /\ closed' = closed + Cardinality(gone)
      /\ open' = open \ S
      /\ node_idx' = [p \in Peers |-> IF p \in S THEN None ELSE node_idx[p]]
      /\ peer_idx' = [n \in NodeIds |-> IF Unbound(S, n) THEN NoPeer ELSE peer_idx[n]]
  BY Zenon DEF peer_close
<1>2. FreeConn \in Conn /\ FreeConn.access_addr = NoAA
  BY Zenon DEF FreeConn, Conn
<1>3. \A i \in Slots : conns'[i] = IF Touches(cs[i], Departing(S)) THEN FreeConn ELSE cs[i]
  BY <1>1, Zenon DEF conns_drop_node
<1>4. conns' \in [Slots -> Conn]
  BY <1>0, <1>1, <1>2, Zenon DEF conns_drop_node
<1>5. Live(conns') = Live(cs) \ gone
  BY <1>2, <1>3, Zenon DEF Live
<1>6. \A i \in Live(conns') : i \in Slots /\ i \in Live(cs) /\ conns'[i] = cs[i]
                            /\ ~Touches(cs[i], Departing(S))
  BY <1>3, <1>5, Zenon DEF Live
<1>7. closed' \in Nat /\ Cardinality(Live(conns')) = Cardinality(Live(cs)) - (closed' - closed)
  <2>1. gone \in SUBSET Live(cs) /\ Live(cs) \in SUBSET Live(cs)
    BY Zenon
  <2>2. /\ IsFiniteSet(Live(cs)) /\ Cardinality(Live(cs)) \in Nat
        /\ Cardinality(gone) \in Nat
    BY <2>1, LiveIsFinite, Zenon
  <2>3. Cardinality(Live(cs) \ gone) = Cardinality(Live(cs)) - Cardinality(Live(cs) \cap gone)
    BY <2>2, FS_Difference, Zenon
  <2>4. Live(cs) \cap gone = gone
    BY Zenon
  <2>5. Cardinality(Live(conns')) = Cardinality(Live(cs)) - Cardinality(gone)
    BY <1>5, <2>3, <2>4, Zenon
  <2>6. closed' = closed + Cardinality(gone) /\ closed \in Nat
    BY <1>0, <1>1, Zenon
  <2> HIDE DEF gone
  <2> QED
    BY <2>2, <2>5, <2>6
<1>8. AccessAddressIsUnique'
  BY <1>6, Zenon DEF AccessAddressIsUnique, RoutesOK
<1>9. InitiatorIsOnline'
  <2> SUFFICES ASSUME NEW i \in Live(conns'), conns'[i].node_a # None
               PROVE  /\ peer_idx'[conns'[i].node_a] \in open'
                      /\ node_idx'[peer_idx'[conns'[i].node_a]] = conns'[i].node_a
    BY Zenon DEF InitiatorIsOnline
  <2> DEFINE n == cs[i].node_a
             p == peer_idx[n]
  <2>1. i \in Live(cs) /\ i \in Slots /\ conns'[i].node_a = n /\ n # None
        /\ n \notin Departing(S)
    BY <1>6, Zenon DEF Touches
  <2>2. n \in NodeIds
    BY <1>0, <2>1, Zenon DEF Conn
  <2>3. p \in open /\ node_idx[p] = n
    BY <2>1, Zenon DEF RoutesOK
  <2> HIDE DEF n
  <2>4. p \notin S
    BY <2>1, <2>3, Zenon DEF Departing
  <2>5. ~Unbound(S, n)
    BY <2>4, Zenon DEF Unbound
  <2> QED
    BY <1>0, <1>1, <2>1, <2>2, <2>3, <2>4, <2>5, Zenon
<1> QED
  BY <1>4, <1>7, <1>8, <1>9, Zenon

\* A trunk that is closed is marked for reconnection, the others stay open trunks.
LEMMA CloseKeepsUpstream ==
  ASSUME HubInv, NEW S \in SUBSET Peers, NEW cs, peer_close(S, cs)
  PROVE  upstream' \in [Upstreams -> Peers \cup {NoPeer}] /\ UpstreamIsOpenTrunk'
<1>1. /\ upstream \in [Upstreams -> Peers \cup {NoPeer}] /\ UpstreamIsOpenTrunk
      /\ is_bridge' = is_bridge \ S
      /\ upstream' = [u \in Upstreams |-> IF upstream[u] \in S THEN NoPeer ELSE upstream[u]]
  BY Zenon DEF HubInv, TypeOK, peer_close, Redial
<1>2. NoPeer \notin Peers
  BY SizesAssumption DEF NoPeer, Peers
<1> QED
  BY <1>1, <1>2, Zenon DEF UpstreamIsOpenTrunk

-----------------------------------------------------------------------------
(* One lemma per kind of step *)

\* The empty tables main() starts with satisfy the invariant.
LEMMA InitHubInv == Init => HubInv
<1> SUFFICES ASSUME Init PROVE HubInv
  BY Zenon
<1>1. FreeConn \in Conn /\ Live(conns) = {}
  BY Zenon DEF Init, FreeConn, Conn, Live
<1>2. TypeOK
  BY <1>1, SizesAssumption DEF Init, TypeOK, NoFrame, Frame, NoAA
<1>3. StatsBalance
  BY <1>1, FS_EmptySet DEF Init, StatsBalance
<1>4. AccessAddressIsUnique /\ InitiatorIsOnline
  BY <1>1, Zenon DEF AccessAddressIsUnique, InitiatorIsOnline
<1>5. BoundSocketIsCurrent /\ OnlineNodeIsBound /\ OwnersAreActive /\ AddressHasOneOwner
  BY Zenon DEF Init, BoundSocketIsCurrent, OnlineNodeIsBound, OwnersAreActive, AddressHasOneOwner
<1>6. UpstreamIsOpenTrunk
  BY Zenon DEF Init, UpstreamIsOpenTrunk
<1> QED
  BY <1>2, <1>3, <1>4, <1>5, <1>6, Zenon DEF HubInv

\* The empty frame is a frame.
LEMMA NoFrameType == NoFrame \in Frame
BY SizesAssumption DEF NoFrame, Frame, NoAA

\* accept_unix, accept_tcp and upstream_connect: a slot that was free speaks for
\* nobody and is nobody's trunk yet.
LEMMA AllocHubInv ==
  ASSUME HubInv, NEW bridge \in BOOLEAN, peer_alloc(bridge),
         \/ UNCHANGED upstream
         \/ \E u \in Upstreams : /\ bridge
                                 /\ upstream' = [upstream EXCEPT ![u] = Lowest(Peers \ open)]
  PROVE  HubInv'
<1> DEFINE q == Lowest(Peers \ open)
<1>1. q \in Peers \ open
  BY FreshPeer, Zenon DEF HubInv, TypeOK, peer_alloc
<1>2. NoPeer \notin Peers
  BY SizesAssumption DEF NoPeer, Peers
<1>3. /\ open' = open \cup {q}
      /\ is_bridge' = IF bridge THEN is_bridge \cup {q} ELSE is_bridge
      /\ wire' = NoFrame /\ is_monitor' = is_monitor /\ node_idx' = node_idx
      /\ active' = active /\ peer_idx' = peer_idx /\ addrs' = addrs
      /\ next_auto_id' = next_auto_id /\ conns' = conns /\ opened' = opened /\ closed' = closed
      /\ \/ upstream' = upstream
         \/ \E u \in Upstreams : bridge /\ upstream' = [upstream EXCEPT ![u] = q]
  BY Zenon DEF peer_alloc, nodeVars, connVars
<1> HIDE DEF q
<1>4. TypeOK'
  BY <1>1, <1>3, NoFrameType DEF HubInv, TypeOK
<1>5. BoundSocketIsCurrent'
  BY <1>1, <1>3 DEF HubInv, TypeOK, BoundSocketIsCurrent
<1>6. OnlineNodeIsBound' /\ OwnersAreActive' /\ AddressHasOneOwner'
  BY <1>3, Zenon DEF HubInv, OnlineNodeIsBound, OwnersAreActive, AddressHasOneOwner
<1>7. AccessAddressIsUnique' /\ InitiatorIsOnline' /\ StatsBalance'
  BY <1>3, Zenon DEF HubInv, AccessAddressIsUnique, InitiatorIsOnline, StatsBalance
<1>8. UpstreamIsOpenTrunk'
  <2>1. /\ UpstreamIsOpenTrunk /\ upstream \in [Upstreams -> Peers \cup {NoPeer}]
        /\ is_bridge \subseteq open
    BY Zenon DEF HubInv, TypeOK
  <2>2. \A u \in Upstreams : upstream[u] # q
    BY <1>1, <1>2, <2>1, Zenon DEF UpstreamIsOpenTrunk
  <2> QED
    BY <1>1, <1>2, <1>3, <2>1, <2>2 DEF UpstreamIsOpenTrunk
<1> QED
  BY <1>4, <1>5, <1>6, <1>7, <1>8, Zenon DEF HubInv

\* PeerClose: one socket goes, with the connections of the node it speaks for.
LEMMA PeerCloseHubInv ==
  ASSUME HubInv, NEW p \in Peers, PeerClose(p)
  PROVE  HubInv'
<1>1. /\ peer_close({p}, conns) /\ wire' = NoFrame /\ active' = active /\ addrs' = addrs
      /\ next_auto_id' = next_auto_id /\ opened' = opened
  BY Zenon DEF PeerClose
<1>2. /\ open' \subseteq Peers /\ is_bridge' \subseteq open' /\ is_monitor' \subseteq open'
      /\ node_idx' \in [Peers -> NodeIds \cup {None}]
      /\ peer_idx' \in [NodeIds -> Peers \cup {NoPeer}]
      /\ BoundSocketIsCurrent' /\ OnlineNodeIsBound'
  BY <1>1, CloseKeepsBinding, Zenon
<1>3. /\ conns' \in [Slots -> Conn] /\ closed' \in Nat
      /\ AccessAddressIsUnique' /\ InitiatorIsOnline'
      /\ Cardinality(Live(conns')) = Cardinality(Live(conns)) - (closed' - closed)
  BY <1>1, CloseKeepsRoutes, HubRoutesOK, Zenon
<1>4. upstream' \in [Upstreams -> Peers \cup {NoPeer}] /\ UpstreamIsOpenTrunk'
  BY <1>1, CloseKeepsUpstream, Zenon
<1>5. TypeOK'
  BY <1>1, <1>2, <1>3, <1>4, NoFrameType, Zenon DEF HubInv, TypeOK
<1>6. OwnersAreActive' /\ AddressHasOneOwner'
  BY <1>1, Zenon DEF HubInv, OwnersAreActive, AddressHasOneOwner
<1>7. StatsBalance'
  BY <1>1, <1>3 DEF HubInv, TypeOK, StatsBalance
<1> QED
  BY <1>2, <1>3, <1>4, <1>5, <1>6, <1>7, Zenon DEF HubInv

\* HelloNode and HelloAnonymous: the newest socket takes the name over from the one
\* that had it, and nobody else is touched.
LEMMA BindHubInv ==
  ASSUME HubInv, NEW p \in Peers, NEW nid \in NodeIds, Greeter(p), bind_peer_node(p, nid),
         wire' = NoFrame, next_auto_id' \in Nat,
         UNCHANGED <<open, is_bridge, is_monitor, addrs, conns, opened, closed, upstream>>
  PROVE  HubInv'
<1>0. /\ TypeOK /\ BoundSocketIsCurrent /\ OnlineNodeIsBound /\ InitiatorIsOnline
      /\ node_idx \in [Peers -> NodeIds \cup {None}] /\ active \subseteq NodeIds
      /\ peer_idx \in [NodeIds -> Peers \cup {NoPeer}] /\ None \notin NodeIds
      /\ node_idx[p] = None /\ p \in open \ (is_bridge \cup is_monitor)
  BY NamesAssumption, Zenon DEF HubInv, TypeOK, Greeter
<1>1. UpstreamIsOpenTrunk' /\ AddressHasOneOwner' /\ AccessAddressIsUnique' /\ StatsBalance'
  BY Zenon DEF HubInv, UpstreamIsOpenTrunk, AddressHasOneOwner, AccessAddressIsUnique, StatsBalance
<1>2. CASE Refused(nid)
  <2>1. active' = active /\ node_idx' = node_idx /\ peer_idx' = peer_idx
    BY <1>2, Zenon DEF bind_peer_node
  <2>2. TypeOK'
    BY <2>1, NoFrameType, Zenon DEF HubInv, TypeOK
  <2>3. BoundSocketIsCurrent' /\ OnlineNodeIsBound' /\ OwnersAreActive' /\ InitiatorIsOnline'
    BY <2>1, Zenon DEF HubInv, BoundSocketIsCurrent, OnlineNodeIsBound, OwnersAreActive, InitiatorIsOnline
  <2> QED
    BY <1>1, <2>2, <2>3, Zenon DEF HubInv
<1>3. CASE ~Refused(nid)
  <2>1. /\ active' = active \cup {nid}
        /\ node_idx' = [q \in Peers |-> IF q = p THEN nid
                                        ELSE IF q = Replaced(nid) THEN None ELSE node_idx[q]]
        /\ peer_idx' = [peer_idx EXCEPT ![nid] = p]
    BY <1>3, Zenon DEF bind_peer_node
  <2>2. \A q \in Peers : node_idx[q] = nid => q = Replaced(nid)
    BY <1>0, Zenon DEF BoundSocketIsCurrent, Replaced
  <2>3. Replaced(nid) \in Peers => node_idx[Replaced(nid)] = nid
    <3>1. NoPeer \notin Peers
      BY SizesAssumption DEF NoPeer, Peers
    <3> QED
      BY <1>0, <3>1, Zenon DEF OnlineNodeIsBound, Replaced
  <2>4. TypeOK'
    BY <1>0, <2>1, NoFrameType, Zenon DEF TypeOK
  <2>5. BoundSocketIsCurrent'
    <3> SUFFICES ASSUME NEW q \in Peers, node_idx'[q] # None
                 PROVE  /\ q \in open \ (is_bridge \cup is_monitor)
                        /\ node_idx'[q] \in active'
                        /\ peer_idx'[node_idx'[q]] = q
      BY Zenon DEF BoundSocketIsCurrent
    <3>1. CASE q = p
      BY <1>0, <2>1, <3>1, Zenon
    <3>2. CASE q # p
      <4>1. node_idx'[q] = node_idx[q] /\ node_idx[q] # nid /\ node_idx[q] # None
        BY <2>1, <2>2, <3>2, Zenon
      <4> QED
        BY <1>0, <2>1, <4>1, Zenon DEF BoundSocketIsCurrent
    <3> QED
      BY <3>1, <3>2, Zenon
  <2>6. \A n \in NodeIds : n # nid /\ peer_idx[n] \in Peers /\ node_idx[peer_idx[n]] = n =>
          /\ peer_idx'[n] = peer_idx[n] /\ node_idx'[peer_idx[n]] = n
    BY <1>0, <2>1, <2>3, Zenon
  <2>7. peer_idx'[nid] = p /\ node_idx'[p] = nid
    BY <1>0, <2>1, Zenon
  <2>8. OnlineNodeIsBound'
    <3> SUFFICES ASSUME NEW n \in NodeIds, peer_idx'[n] # NoPeer
                 PROVE  n \in active' /\ node_idx'[peer_idx'[n]] = n
      BY Zenon DEF OnlineNodeIsBound
    <3>1. CASE n = nid
      BY <2>1, <2>7, <3>1, Zenon
    <3>2. CASE n # nid
      <4>1. peer_idx[n] # NoPeer /\ peer_idx[n] \in Peers
        BY <1>0, <2>1, <3>2, Zenon
      <4>2. n \in active /\ node_idx[peer_idx[n]] = n
        BY <1>0, <4>1, Zenon DEF OnlineNodeIsBound
      <4> QED
        BY <2>1, <2>6, <3>2, <4>1, <4>2, Zenon
    <3> QED
      BY <3>1, <3>2, Zenon
  <2>9. OwnersAreActive'
    BY <2>1, Zenon DEF HubInv, OwnersAreActive
  <2>10. InitiatorIsOnline'
    <3> SUFFICES ASSUME NEW i \in Live(conns), conns[i].node_a # None
                 PROVE  /\ peer_idx'[conns[i].node_a] \in open
                        /\ node_idx'[peer_idx'[conns[i].node_a]] = conns[i].node_a
      BY Zenon DEF InitiatorIsOnline
    <3> DEFINE n == conns[i].node_a
    <3>1. n \in NodeIds /\ peer_idx[n] \in open /\ node_idx[peer_idx[n]] = n
          /\ open \subseteq Peers
      BY <1>0, Zenon DEF InitiatorIsOnline, TypeOK, Live, Conn
    <3> HIDE DEF n
    <3>2. CASE n = nid
      BY <1>0, <2>7, <3>2, Zenon DEF n
    <3>3. CASE n # nid
      BY <2>6, <3>1, <3>3, Zenon DEF n
    <3> QED
      BY <3>2, <3>3, Zenon
  <2> QED
    BY <1>1, <2>4, <2>5, <2>8, <2>9, <2>10, Zenon DEF HubInv
<1> QED
  BY <1>2, <1>3, Zenon

\* HelloMonitor: an open socket that speaks for nobody becomes a tap.
LEMMA MonitorHubInv ==
  ASSUME HubInv, NEW p \in Peers, NEW anonymous \in BOOLEAN, HelloMonitor(p, anonymous)
  PROVE  HubInv'
<1>1. /\ p \in open /\ node_idx[p] = None /\ is_monitor' = is_monitor \cup {p}
      /\ next_auto_id' \in Nat /\ wire' = NoFrame
      /\ UNCHANGED <<open, is_bridge, node_idx, active, peer_idx, addrs, conns, opened, closed, upstream>>
  BY DEF HelloMonitor, Greeter, connVars, HubInv, TypeOK
<1>2. TypeOK'
  BY <1>1, NoFrameType, Zenon DEF HubInv, TypeOK
<1>3. BoundSocketIsCurrent' /\ OnlineNodeIsBound' /\ OwnersAreActive' /\ AddressHasOneOwner'
  BY <1>1 DEF HubInv, BoundSocketIsCurrent, OnlineNodeIsBound, OwnersAreActive, AddressHasOneOwner
<1>4. AccessAddressIsUnique' /\ InitiatorIsOnline' /\ StatsBalance' /\ UpstreamIsOpenTrunk'
  BY <1>1, Zenon DEF HubInv, AccessAddressIsUnique, InitiatorIsOnline, StatsBalance, UpstreamIsOpenTrunk
<1> QED
  BY <1>2, <1>3, <1>4, Zenon DEF HubInv

\* CtlNode: the node a control command creates is offline and owns no address.
LEMMA CtlNodeHubInv ==
  ASSUME HubInv, NEW nid \in NodeIds, CtlNode(nid)
  PROVE  HubInv'
<1>1. /\ active' = active \cup {nid} /\ wire' = NoFrame
      /\ UNCHANGED <<open, is_bridge, is_monitor, node_idx, peer_idx, addrs, next_auto_id,
                     conns, opened, closed, upstream>>
  BY Zenon DEF CtlNode, peerVars, connVars
<1>2. TypeOK'
  BY <1>1, NoFrameType, Zenon DEF HubInv, TypeOK
<1>3. BoundSocketIsCurrent' /\ OnlineNodeIsBound' /\ OwnersAreActive' /\ AddressHasOneOwner'
  BY <1>1, Zenon DEF HubInv, BoundSocketIsCurrent, OnlineNodeIsBound, OwnersAreActive, AddressHasOneOwner
<1>4. AccessAddressIsUnique' /\ InitiatorIsOnline' /\ StatsBalance' /\ UpstreamIsOpenTrunk'
  BY <1>1, Zenon DEF HubInv, AccessAddressIsUnique, InitiatorIsOnline, StatsBalance, UpstreamIsOpenTrunk
<1> QED
  BY <1>2, <1>3, <1>4, Zenon DEF HubInv

\* forward_frame, whatever its audience, the connection table it left and the
\* sockets that failed on the way.
LEMMA ForwardHubInv ==
  ASSUME HubInv, NEW p \in Peers, NEW type \in {"adv", "data"}, NEW aa \in AAs \cup {NoAA},
         NEW tx \in Addrs, NEW ttl \in 0 .. FreshTTL, NEW hears \in SUBSET Peers,
         NEW cs, RoutesOK(cs), Admitted(p, ttl), Forward(p, type, aa, tx, ttl, hears, cs),
         opened' \in Nat, opened' - closed = Cardinality(Live(cs))
  PROVE  HubInv'
<1>0. /\ is_monitor \subseteq Peers /\ is_bridge \subseteq Peers
      /\ node_idx[p] \in NodeIds \cup {None}
      /\ node_idx[p] # None => node_idx[p] \in active
  BY Zenon DEF HubInv, TypeOK, BoundSocketIsCurrent
<1>1. PICK failed \in HardErrors(p, hears) :
        /\ peer_close(failed, cs)
        /\ addrs' = node_add_addr(addrs, node_idx[p], tx)
        /\ wire' = [type |-> type, src |-> p, from |-> node_idx[p], aa |-> aa,
                    ttl |-> NextTTL(p, ttl), taps |-> Taps(p) \ failed,
                    hears |-> hears \ failed, trunks |-> Trunks(p) \ failed]
        /\ active' = active /\ next_auto_id' = next_auto_id
  BY Zenon DEF Forward
<1>2. /\ failed \in SUBSET Peers /\ Taps(p) \in SUBSET Peers /\ Trunks(p) \in SUBSET Peers
  BY <1>0, Zenon DEF HardErrors, Taps, Trunks
<1>3. NextTTL(p, ttl) \in 0 .. FreshTTL
  BY SizesAssumption DEF NextTTL, Admitted
<1>4. wire' \in Frame
  BY <1>0, <1>1, <1>2, <1>3, Zenon DEF Frame
<1>5. /\ open' \subseteq Peers /\ is_bridge' \subseteq open' /\ is_monitor' \subseteq open'
      /\ node_idx' \in [Peers -> NodeIds \cup {None}]
      /\ peer_idx' \in [NodeIds -> Peers \cup {NoPeer}]
      /\ BoundSocketIsCurrent' /\ OnlineNodeIsBound'
  BY <1>1, <1>2, CloseKeepsBinding, Zenon
<1>6. /\ conns' \in [Slots -> Conn] /\ closed' \in Nat
      /\ AccessAddressIsUnique' /\ InitiatorIsOnline'
      /\ Cardinality(Live(conns')) = Cardinality(Live(cs)) - (closed' - closed)
  BY <1>1, <1>2, CloseKeepsRoutes, Zenon
<1>7. upstream' \in [Upstreams -> Peers \cup {NoPeer}] /\ UpstreamIsOpenTrunk'
  BY <1>1, <1>2, CloseKeepsUpstream, Zenon
<1>8. /\ addrs' \in [NodeIds -> SUBSET Addrs]
      /\ \A n \in NodeIds : addrs'[n] # {} => n \in active
      /\ \A n, m \in NodeIds : addrs'[n] \cap addrs'[m] # {} => n = m
  BY <1>0, <1>1, AddAddrKeepsOwners, Zenon
<1>9. OwnersAreActive' /\ AddressHasOneOwner'
  BY <1>1, <1>8, Zenon DEF OwnersAreActive, AddressHasOneOwner
<1>10. TypeOK'
  BY <1>1, <1>4, <1>5, <1>6, <1>7, <1>8, Zenon DEF HubInv, TypeOK
<1>11. StatsBalance'
  <2>1. closed \in Nat /\ Cardinality(Live(cs)) \in Nat
    BY LiveIsFinite, Zenon DEF HubInv, TypeOK
  <2>2. opened' - closed' = Cardinality(Live(conns'))
    BY <1>6, <2>1
  <2> QED
    BY <2>2, Zenon DEF StatsBalance
<1> QED
  BY <1>5, <1>6, <1>7, <1>9, <1>10, <1>11, Zenon DEF HubInv

\* The endpoint a data PDU goes to is reached through one socket slot, or none.
LEMMA DataHearsType ==
  ASSUME HubInv, NEW p, NEW aa
  PROVE  DataHears(p, aa) \in SUBSET Peers
BY Zenon DEF DataHears, HubInv, TypeOK

\* Every step of the hub preserves the invariant.
LEMMA NextHubInv == HubInv /\ [Next]_vars => HubInv'
<1> SUFFICES ASSUME HubInv, [Next]_vars PROVE HubInv'
  BY Zenon
<1>1. CASE accept_unix
  BY <1>1, AllocHubInv, Zenon DEF accept_unix
<1>2. CASE accept_tcp
  BY <1>2, AllocHubInv, Zenon DEF accept_tcp
<1>3. ASSUME NEW u \in Upstreams, upstream_connect(u) PROVE HubInv'
  BY <1>3, AllocHubInv, Zenon DEF upstream_connect
<1>4. ASSUME NEW p \in Peers, PeerClose(p) PROVE HubInv'
  BY <1>4, PeerCloseHubInv, Zenon
<1>5. ASSUME NEW p \in Peers, NEW nid \in NodeIds, HelloNode(p, nid) PROVE HubInv'
  <2>1. next_auto_id' \in Nat
    BY <1>5, Zenon DEF HelloNode, HubInv, TypeOK
  <2> QED
    BY <1>5, <2>1, BindHubInv, Zenon DEF HelloNode, connVars
<1>6. ASSUME NEW p \in Peers, HelloAnonymous(p) PROVE HubInv'
  <2>1. next_auto_id' \in Nat /\ AutoName[next_auto_id] \in NodeIds
    BY <1>6, NamesAssumption DEF HelloAnonymous, HubInv, TypeOK
  <2> QED
    BY <1>6, <2>1, BindHubInv, Zenon DEF HelloAnonymous, connVars
<1>7. ASSUME NEW p \in Peers, NEW anonymous \in BOOLEAN, HelloMonitor(p, anonymous)
      PROVE  HubInv'
  BY <1>7, MonitorHubInv, Zenon
<1>8. ASSUME NEW nid \in NodeIds, CtlNode(nid) PROVE HubInv'
  BY <1>8, CtlNodeHubInv, Zenon
<1>9. ASSUME NEW p \in Peers, NEW tx \in Addrs, NEW ttl \in 0 .. FreshTTL,
             ForwardAdv(p, tx, ttl)
      PROVE  HubInv'
  <2>1. /\ Listeners(p) \in SUBSET Peers /\ RoutesOK(conns)
        /\ opened' \in Nat /\ opened' - closed = Cardinality(Live(conns))
    BY <1>9, HubRoutesOK, Zenon DEF ForwardAdv, Listeners, HubInv, TypeOK, StatsBalance
  <2>2. Admitted(p, ttl) /\ Forward(p, "adv", NoAA, tx, ttl, Listeners(p), conns)
    BY <1>9, Zenon DEF ForwardAdv
  <2> QED
    BY <2>1, <2>2, ForwardHubInv, Zenon
<1>10. ASSUME NEW p \in Peers, NEW tx \in Addrs, NEW ttl \in 0 .. FreshTTL,
              NEW aa \in AAs \cup {NoAA}, NEW adva \in Addrs,
              ForwardConnectInd(p, tx, adva, aa, ttl)
       PROVE  HubInv'
  <2> DEFINE as == node_add_addr(addrs, node_idx[p], tx)
             b  == find_node_by_addr(as, adva)
             cs == observe_connect_ind(conns, node_idx[p], b, aa)
  <2>1. /\ Admitted(p, ttl) /\ Forward(p, "adv", aa, tx, ttl, Listeners(p), cs)
        /\ opened' = IF Live(cs) = Live(conns) THEN opened ELSE opened + 1
    BY <1>10, Zenon DEF ForwardConnectInd
  <2>2. /\ node_idx[p] \in NodeIds \cup {None} /\ b \in NodeIds \cup {None}
        /\ node_idx[p] # None =>
             /\ peer_idx[node_idx[p]] \in open
             /\ node_idx[peer_idx[node_idx[p]]] = node_idx[p]
    <3>1. active \subseteq NodeIds /\ node_idx[p] \in NodeIds \cup {None}
      BY Zenon DEF HubInv, TypeOK
    <3>2. b \in NodeIds \cup {None}
      BY <3>1, FoundNodeType, Zenon
    <3> QED
      BY <3>1, <3>2, Zenon DEF HubInv, BoundSocketIsCurrent
  <2> HIDE DEF as, b
  <2>3. /\ RoutesOK(cs)
        /\ Cardinality(Live(cs)) = Cardinality(Live(conns))
             + (IF Live(cs) = Live(conns) THEN 0 ELSE 1)
    BY <2>2, ConnectIndKeepsRoutes, Zenon
  <2>4. /\ opened \in Nat /\ closed \in Nat /\ opened - closed = Cardinality(Live(conns))
        /\ Listeners(p) \in SUBSET Peers
    BY Zenon DEF HubInv, TypeOK, StatsBalance, Listeners
  <2> HIDE DEF cs
  <2>5. opened' \in Nat /\ opened' - closed = Cardinality(Live(cs))
    BY <2>1, <2>3, <2>4
  <2> QED
    BY <2>1, <2>3, <2>4, <2>5, ForwardHubInv, Zenon
<1>11. ASSUME NEW p \in Peers, NEW tx \in Addrs, NEW ttl \in 0 .. FreshTTL,
              NEW aa \in AAs \cup {NoAA}, ForwardData(p, tx, aa, ttl)
       PROVE  HubInv'
  <2>1. /\ DataHears(p, aa) \in SUBSET Peers /\ RoutesOK(conns)
        /\ opened' \in Nat /\ opened' - closed = Cardinality(Live(conns))
    BY <1>11, HubRoutesOK, DataHearsType, Zenon DEF ForwardData, HubInv, TypeOK, StatsBalance
  <2>2. Admitted(p, ttl) /\ Forward(p, "data", aa, tx, ttl, DataHears(p, aa), conns)
    BY <1>11, Zenon DEF ForwardData
  <2> QED
    BY <2>1, <2>2, ForwardHubInv, Zenon
<1>12. CASE UNCHANGED vars
  BY <1>12, Zenon DEF vars, peerVars, nodeVars, connVars, HubInv, TypeOK, BoundSocketIsCurrent,
               OnlineNodeIsBound, OwnersAreActive, AddressHasOneOwner, AccessAddressIsUnique,
               InitiatorIsOnline, StatsBalance, UpstreamIsOpenTrunk
<1> QED
  BY <1>1, <1>2, <1>3, <1>4, <1>5, <1>6, <1>7, <1>8, <1>9, <1>10, <1>11, <1>12, Zenon DEF Next

-----------------------------------------------------------------------------
(* Theorems *)

\* Every reachable state of the hub satisfies the inductive invariant.
THEOREM HubInvariant == Spec => []HubInv
BY InitHubInv, NextHubInv, PTL DEF Spec

\* The tables of the hub keep their types, for every size of the tables.
THEOREM HubTypes == Spec => []TypeOK
<1>1. HubInv => TypeOK
  BY Zenon DEF HubInv
<1> QED
  BY <1>1, HubInvariant, PTL

\* bind_peer_node and peer_close keep sockets and nodes bound to each other: a
\* socket that speaks for a node is open and the node's current one.
THEOREM SocketsSpeakForTheirNodes == Spec => []BoundSocketIsCurrent
<1>1. HubInv => BoundSocketIsCurrent
  BY Zenon DEF HubInv
<1> QED
  BY <1>1, HubInvariant, PTL

\* The socket a node is reached through speaks for that node: no reuse of a peer
\* slot can divert its data.
THEOREM NodesAreReachedThroughTheirSockets == Spec => []OnlineNodeIsBound
<1>1. HubInv => OnlineNodeIsBound
  BY Zenon DEF HubInv
<1> QED
  BY <1>1, HubInvariant, PTL

\* node_add_addr: no two nodes ever own one device address.
THEOREM AddressesAreUnambiguous == Spec => []AddressHasOneOwner
<1>1. HubInv => AddressHasOneOwner
  BY Zenon DEF HubInv
<1> QED
  BY <1>1, HubInvariant, PTL

\* observe_connect_ind: no two live entries have one Access Address.
THEOREM AccessAddressesAreUnambiguous == Spec => []AccessAddressIsUnique
<1>1. HubInv => AccessAddressIsUnique
  BY Zenon DEF HubInv
<1> QED
  BY <1>1, HubInvariant, PTL

\* conns_drop_node: the initiator of a live connection is online.
THEOREM InitiatorsAreOnline == Spec => []InitiatorIsOnline
<1>1. HubInv => InitiatorIsOnline
  BY Zenon DEF HubInv
<1> QED
  BY <1>1, HubInvariant, PTL

\* The STATS counters always account for the connection table.
THEOREM StatsAreBalanced == Spec => []StatsBalance
<1>1. HubInv => StatsBalance
  BY Zenon DEF HubInv
<1> QED
  BY <1>1, HubInvariant, PTL

\* upstream_tick: the socket recorded for an outbound trunk is an open trunk.
THEOREM UpstreamsAreOpenTrunks == Spec => []UpstreamIsOpenTrunk
<1>1. HubInv => UpstreamIsOpenTrunk
  BY Zenon DEF HubInv
<1> QED
  BY <1>1, HubInvariant, PTL

-----------------------------------------------------------------------------
(* What forward_frame does with a frame.  The three properties speak of the frame
   forwarded last, so each is shown for the steps that forward one; every other step
   leaves NoFrame. *)

\* Taps and trunks speak for nobody, so losing them drops no connection.
LEMMA SilentSockets ==
  ASSUME HubInv, NEW S \in SUBSET (is_monitor \cup is_bridge)
  PROVE  Departing(S) = {}
BY DEF HubInv, TypeOK, BoundSocketIsCurrent, Departing

\* What a data PDU does: the audience is the current socket of the other endpoint of
\* its live entry, or empty.
LEMMA DataAudience ==
  ASSUME HubInv, NEW p \in Peers, NEW aa
  PROVE  \/ DataHears(p, aa) = {}
         \/ \E i \in Live(conns), q \in open :
              /\ conns[i].access_addr = aa
              /\ DataHears(p, aa) = {q}
              /\ node_idx[q] = Other(conns[i], node_idx[p]) /\ node_idx[q] # None
<1> DEFINE i == find_conn(conns, aa)
           other == Other(conns[i], node_idx[p])
<1>1. CASE i = NoSlot
  BY <1>1, Zenon DEF DataHears
<1>2. CASE i # NoSlot /\ other \in active /\ peer_idx[other] \in open
  <2>1. i \in Live(conns) /\ conns[i].access_addr = aa
    BY <1>2, FoundConn, Zenon
  <2>2. DataHears(p, aa) = {peer_idx[other]}
    BY <1>2, Zenon DEF DataHears
  <2>3. other \in NodeIds /\ peer_idx[other] \in Peers /\ NoPeer \notin Peers
    BY <1>2, SizesAssumption DEF HubInv, TypeOK, NoPeer, Peers
  <2>4. node_idx[peer_idx[other]] = other /\ other # None
    BY <2>3, NamesAssumption, Zenon DEF HubInv, OnlineNodeIsBound
  <2> QED
    BY <1>2, <2>1, <2>2, <2>4, Zenon
<1>3. CASE i # NoSlot /\ ~(other \in active /\ peer_idx[other] \in open)
  BY <1>3, Zenon DEF DataHears
<1> QED
  BY <1>1, <1>2, <1>3, Zenon

\* The endpoint a PDU goes to is one of the two of the entry.
LEMMA OtherIsEndpoint ==
  ASSUME NEW c, NEW src
  PROVE  Other(c, src) \in {c.node_a, c.node_b}
BY Zenon DEF Other

\* The step that forwards a data PDU, with the sockets that failed on the way.
LEMMA DataStep ==
  ASSUME NEW p \in Peers, NEW tx, NEW aa, NEW ttl, ForwardData(p, tx, aa, ttl)
  PROVE  \E failed \in SUBSET ((is_monitor \cup is_bridge \cup DataHears(p, aa)) \ {p}) :
           /\ peer_close(failed, conns)
           /\ wire'.src = p /\ wire'.from = node_idx[p] /\ wire'.aa = aa
           /\ wire'.taps \subseteq is_monitor \ {p} /\ wire'.trunks \subseteq is_bridge \ {p}
           /\ wire'.hears = DataHears(p, aa) \ failed
<1>1. PICK failed \in HardErrors(p, DataHears(p, aa)) :
        /\ peer_close(failed, conns)
        /\ wire' = [type |-> "data", src |-> p, from |-> node_idx[p], aa |-> aa,
                    ttl |-> NextTTL(p, ttl), taps |-> Taps(p) \ failed,
                    hears |-> DataHears(p, aa) \ failed, trunks |-> Trunks(p) \ failed]
  BY Zenon DEF ForwardData, Forward
<1>2. failed \in SUBSET ((is_monitor \cup is_bridge \cup DataHears(p, aa)) \ {p})
  BY <1>1, Zenon DEF HardErrors, Taps, Trunks
<1> QED
  BY <1>1, <1>2, Zenon DEF Taps, Trunks

\* A connection survives the loss of taps and trunks.
LEMMA LiveSurvives ==
  ASSUME HubInv, NEW S \in SUBSET (is_monitor \cup is_bridge), peer_close(S, conns),
         NEW i \in Live(conns)
  PROVE  i \in Live(conns') /\ conns'[i] = conns[i]
<1>1. Departing(S) = {} /\ conns' = conns_drop_node(conns, Departing(S)) /\ i \in Slots
  BY SilentSockets, Zenon DEF peer_close, Live
<1>2. conns'[i] = conns[i]
  BY <1>1, Zenon DEF conns_drop_node, Touches
<1> QED
  BY <1>1, <1>2, Zenon DEF Live

\* The entry of an Access Address is the one find_conn finds.
LEMMA EntryIsFound ==
  ASSUME HubInv, NEW i \in Live(conns)
  PROVE  find_conn(conns, conns[i].access_addr) = i
<1> DEFINE aa == conns[i].access_addr
           j  == find_conn(conns, aa)
<1>1. j # NoSlot /\ j \in Live(conns) /\ conns[j].access_addr = aa
  <2>1. i \in {k \in Live(conns) : conns[k].access_addr = aa}
    BY Zenon
  <2>2. {k \in Live(conns) : conns[k].access_addr = aa} \subseteq Slots
    BY Zenon DEF Live
  <2>3. Slots \subseteq Int /\ \A k \in Slots : k >= 0
    BY SizesAssumption DEF Slots
  <2>4. j = Lowest({k \in Live(conns) : conns[k].access_addr = aa})
    BY <2>1, Zenon DEF find_conn
  <2>5. j \in {k \in Live(conns) : conns[k].access_addr = aa}
    BY <2>1, <2>2, <2>4, LowestIsMember, SizesAssumption DEF Slots
  <2> QED
    BY <2>2, <2>3, <2>5 DEF NoSlot
<1> QED
  BY <1>1, Zenon DEF HubInv, AccessAddressIsUnique

\* Only ForwardData leaves a data PDU on the wire, and only the forwarding steps
\* leave any frame.
LEMMA WireStep ==
  ASSUME Next
  PROVE  \/ wire' = NoFrame
         \/ \E p \in Peers, tx \in Addrs, ttl \in 0 .. FreshTTL, aa \in AAs \cup {NoAA} :
              ForwardData(p, tx, aa, ttl)
         \/ \E p \in Peers, aa \in AAs \cup {NoAA}, ttl \in 0 .. FreshTTL :
              \E failed \in HardErrors(p, Listeners(p)) :
              wire' = [type |-> "adv", src |-> p, from |-> node_idx[p], aa |-> aa,
                       ttl |-> NextTTL(p, ttl), taps |-> Taps(p) \ failed,
                       hears |-> Listeners(p) \ failed, trunks |-> Trunks(p) \ failed]
<1>1. CASE accept_unix \/ accept_tcp \/ \E u \in Upstreams : upstream_connect(u)
  BY <1>1, Zenon DEF accept_unix, accept_tcp, upstream_connect, peer_alloc
<1>2. CASE \/ \E p \in Peers : PeerClose(p)
           \/ \E p \in Peers, nid \in NodeIds : HelloNode(p, nid)
           \/ \E p \in Peers : HelloAnonymous(p)
           \/ \E p \in Peers, anonymous \in BOOLEAN : HelloMonitor(p, anonymous)
           \/ \E nid \in NodeIds : CtlNode(nid)
  BY <1>2, Zenon DEF PeerClose, HelloNode, HelloAnonymous, HelloMonitor, CtlNode
<1>3. CASE \E p \in Peers, tx \in Addrs, ttl \in 0 .. FreshTTL : ForwardAdv(p, tx, ttl)
  BY <1>3, Zenon DEF ForwardAdv, Forward
<1>4. CASE \E p \in Peers, tx \in Addrs, ttl \in 0 .. FreshTTL, aa \in AAs \cup {NoAA},
              adva \in Addrs : ForwardConnectInd(p, tx, adva, aa, ttl)
  <2>1. PICK p \in Peers, tx \in Addrs, ttl \in 0 .. FreshTTL, aa \in AAs \cup {NoAA} :
          \E cs : Forward(p, "adv", aa, tx, ttl, Listeners(p), cs)
    BY <1>4 DEF ForwardConnectInd
  <2> QED
    BY <2>1, Zenon DEF Forward
<1>5. CASE \E p \in Peers, tx \in Addrs, ttl \in 0 .. FreshTTL, aa \in AAs \cup {NoAA} :
             ForwardData(p, tx, aa, ttl)
  BY <1>5, Zenon
<1> QED
  BY <1>1, <1>2, <1>3, <1>4, <1>5, Zenon DEF Next

-----------------------------------------------------------------------------
(* DataReachesOneEndpoint *)

\* The PDU just routed reaches the other endpoint's current socket; the taps and
\* trunks that failed meanwhile took no connection with them.
LEMMA DataStepReaches ==
  ASSUME HubInv, NEW p \in Peers, NEW tx, NEW aa, NEW ttl, ForwardData(p, tx, aa, ttl)
  PROVE  DataReachesOneEndpoint'
<1>1. PICK failed \in SUBSET ((is_monitor \cup is_bridge \cup DataHears(p, aa)) \ {p}) :
        /\ peer_close(failed, conns)
        /\ wire'.aa = aa /\ wire'.hears = DataHears(p, aa) \ failed
  BY DataStep
<1>2. CASE wire'.hears = {}
  BY <1>2, FS_EmptySet DEF DataReachesOneEndpoint
<1>3. CASE wire'.hears # {}
  <2>1. PICK i \in Live(conns), q \in open :
          /\ conns[i].access_addr = aa /\ DataHears(p, aa) = {q}
          /\ node_idx[q] = Other(conns[i], node_idx[p]) /\ node_idx[q] # None
    BY <1>1, <1>3, DataAudience
  <2>2. wire'.hears = {q} /\ q \notin failed /\ failed \in SUBSET (is_monitor \cup is_bridge)
    BY <1>1, <1>3, <2>1
  <2>3. i \in Live(conns)' /\ conns'[i] = conns[i]
    BY <1>1, <2>2, LiveSurvives, Zenon
  <2>4. q \in Peers /\ node_idx'[q] = node_idx[q]
    BY <1>1, <2>2, Zenon DEF peer_close, HubInv, TypeOK
  <2>5. Cardinality(wire'.hears) = 1
    BY <2>2, FS_Singleton, Zenon
  <2>6. node_idx[q] \in {conns[i].node_a, conns[i].node_b}
    BY <2>1, OtherIsEndpoint, Zenon
  <2>7. /\ conns'[i].access_addr = wire'.aa
        /\ node_idx'[q] \in {conns'[i].node_a, conns'[i].node_b} \ {None}
    BY <1>1, <2>1, <2>3, <2>4, <2>6, Zenon
  <2> QED
    BY <2>2, <2>3, <2>5, <2>7 DEF DataReachesOneEndpoint
<1> QED
  BY <1>2, <1>3, Zenon

\* A data PDU is delivered to at most one node, an endpoint of its connection, for
\* any number of sockets, nodes and connections and any set of failing sockets.
THEOREM DataIsPointToPoint == Spec => []DataReachesOneEndpoint
<1>1. Init => DataReachesOneEndpoint
  BY DEF Init, NoFrame, DataReachesOneEndpoint
<1>2. HubInv /\ DataReachesOneEndpoint /\ [Next]_vars => DataReachesOneEndpoint'
  <2> SUFFICES ASSUME HubInv, DataReachesOneEndpoint, [Next]_vars
               PROVE  DataReachesOneEndpoint'
    BY Zenon
  <2>1. CASE UNCHANGED vars
    BY <2>1 DEF vars, peerVars, connVars, DataReachesOneEndpoint, Live
  <2>2. CASE Next
    <3>1. CASE wire'.type # "data"
      BY <3>1, Zenon DEF DataReachesOneEndpoint
    <3>2. CASE wire'.type = "data"
      <4>1. \E p \in Peers, tx \in Addrs, ttl \in 0 .. FreshTTL, aa \in AAs \cup {NoAA} :
              ForwardData(p, tx, aa, ttl)
        BY <2>2, <3>2, WireStep DEF NoFrame
      <4> QED
        BY <4>1, DataStepReaches, Zenon
    <3> QED
      BY <3>1, <3>2, Zenon
  <2> QED
    BY <2>1, <2>2, Zenon
<1> QED
  BY <1>1, <1>2, HubInvariant, PTL DEF Spec

-----------------------------------------------------------------------------
(* DataFollowsReconnect *)

\* The sockets a data PDU is offered to are looked up when it is routed, so they
\* are the current ones; a node whose socket fails on the way goes offline.
LEMMA DataStepFollows ==
  ASSUME HubInv, NEW p \in Peers, NEW tx, NEW aa, NEW ttl, ForwardData(p, tx, aa, ttl)
  PROVE  DataFollowsReconnect'
<1>1. PICK failed \in SUBSET ((is_monitor \cup is_bridge \cup DataHears(p, aa)) \ {p}) :
        /\ peer_close(failed, conns)
        /\ wire'.from = node_idx[p] /\ wire'.aa = aa
        /\ wire'.hears = DataHears(p, aa) \ failed
  BY DataStep, Zenon
<1>2. SUFFICES ASSUME NEW i \in Live(conns)', NEW other,
                      conns'[i].access_addr = aa,
                      conns'[i].node_a # None, conns'[i].node_b # None,
                      conns'[i].node_a # conns'[i].node_b,
                      node_idx[p] \in {conns'[i].node_a, conns'[i].node_b},
                      other = (IF node_idx[p] = conns'[i].node_a
                               THEN conns'[i].node_b ELSE conns'[i].node_a),
                      peer_idx'[other] # NoPeer
               PROVE  wire'.hears = {peer_idx'[other]}
  BY <1>1, Zenon DEF DataFollowsReconnect
<1>3. i \in Live(conns) /\ conns'[i] = conns[i]
  BY <1>1, Zenon DEF peer_close, conns_drop_node, Live, FreeConn
<1>4. find_conn(conns, aa) = i /\ i # NoSlot
  BY <1>2, <1>3, EntryIsFound, SizesAssumption DEF Live, Slots, NoSlot
<1>5. other = Other(conns[i], node_idx[p]) /\ other \in NodeIds
  BY <1>2, <1>3, Zenon DEF Other, HubInv, TypeOK, Conn, Live
<1>6. peer_idx'[other] = peer_idx[other] /\ ~Unbound(failed, other)
  BY <1>1, <1>2, <1>5, Zenon DEF peer_close
<1>7. other \in active /\ node_idx[peer_idx[other]] = other /\ peer_idx[other] \in Peers
  BY <1>2, <1>5, <1>6, Zenon DEF HubInv, TypeOK, OnlineNodeIsBound
<1>8. peer_idx[other] \in open /\ peer_idx[other] \notin failed
  BY <1>5, <1>6, <1>7, NamesAssumption, Zenon DEF HubInv, BoundSocketIsCurrent, Unbound
<1>9. DataHears(p, aa) = {peer_idx[other]}
  BY <1>4, <1>5, <1>7, <1>8, Zenon DEF DataHears
<1> QED
  BY <1>1, <1>6, <1>8, <1>9, Zenon

\* Data follows a node that has reconnected: the hub never writes to a socket the
\* peer was reached through earlier, and never skips one that is online.
THEOREM DataGoesToTheCurrentSocket == Spec => []DataFollowsReconnect
<1>1. Init => DataFollowsReconnect
  BY DEF Init, NoFrame, DataFollowsReconnect
<1>2. HubInv /\ DataFollowsReconnect /\ [Next]_vars => DataFollowsReconnect'
  <2> SUFFICES ASSUME HubInv, DataFollowsReconnect, [Next]_vars
               PROVE  DataFollowsReconnect'
    BY Zenon
  <2>1. CASE UNCHANGED vars
    BY <2>1 DEF vars, nodeVars, connVars, DataFollowsReconnect, Live
  <2>2. CASE Next
    <3>1. CASE wire'.type # "data"
      BY <3>1, Zenon DEF DataFollowsReconnect
    <3>2. CASE wire'.type = "data"
      <4>1. \E p \in Peers, tx \in Addrs, ttl \in 0 .. FreshTTL, aa \in AAs \cup {NoAA} :
              ForwardData(p, tx, aa, ttl)
        BY <2>2, <3>2, WireStep DEF NoFrame
      <4> QED
        BY <4>1, DataStepFollows, Zenon
    <3> QED
      BY <3>1, <3>2, Zenon
  <2> QED
    BY <2>1, <2>2, Zenon
<1> QED
  BY <1>1, <1>2, HubInvariant, PTL DEF Spec

-----------------------------------------------------------------------------
(* NoEcho *)

\* A data PDU comes back only to a node that is both endpoints of the entry.
LEMMA DataStepNoEcho ==
  ASSUME HubInv, NEW p \in Peers, NEW tx, NEW aa, NEW ttl, ForwardData(p, tx, aa, ttl)
  PROVE  NoEcho'
<1>1. PICK failed \in SUBSET ((is_monitor \cup is_bridge \cup DataHears(p, aa)) \ {p}) :
        /\ peer_close(failed, conns)
        /\ wire'.src = p
        /\ wire'.taps \subseteq is_monitor \ {p} /\ wire'.trunks \subseteq is_bridge \ {p}
        /\ wire'.hears = DataHears(p, aa) \ failed
  BY DataStep, Zenon
<1>2. CASE p \notin wire'.hears
  BY <1>1, <1>2, Zenon DEF NoEcho
<1>3. CASE p \in wire'.hears
  <2>1. PICK i \in Live(conns) :
          /\ DataHears(p, aa) = {p}
          /\ node_idx[p] = Other(conns[i], node_idx[p]) /\ node_idx[p] # None
    BY <1>1, <1>3, DataAudience
  <2>2. conns[i].node_a = conns[i].node_b
    BY <2>1, Zenon DEF Other
  <2>3. i \in Live(conns)' /\ conns'[i] = conns[i]
    BY <1>1, <2>1, LiveSurvives, Zenon
  <2> QED
    BY <1>1, <2>2, <2>3, Zenon DEF NoEcho
<1> QED
  BY <1>2, <1>3, Zenon

\* forward_frame never returns a frame to the socket it came from.
THEOREM FramesAreNotEchoed == Spec => []NoEcho
<1>1. Init => NoEcho
  BY DEF Init, NoFrame, NoEcho
<1>2. HubInv /\ NoEcho /\ [Next]_vars => NoEcho'
  <2> SUFFICES ASSUME HubInv, NoEcho, [Next]_vars
               PROVE  NoEcho'
    BY Zenon
  <2>1. CASE UNCHANGED vars
    BY <2>1, Zenon DEF vars, connVars, NoEcho, Live
  <2>2. CASE wire' = NoFrame
    BY <2>2, Zenon DEF NoEcho, NoFrame
  <2>3. CASE \E p \in Peers, tx \in Addrs, ttl \in 0 .. FreshTTL, aa \in AAs \cup {NoAA} :
               ForwardData(p, tx, aa, ttl)
    BY <2>3, DataStepNoEcho, Zenon
  <2>4. ASSUME NEW p \in Peers, NEW failed, NEW aa, NEW ttl,
               wire' = [type |-> "adv", src |-> p, from |-> node_idx[p], aa |-> aa,
                        ttl |-> NextTTL(p, ttl), taps |-> Taps(p) \ failed,
                        hears |-> Listeners(p) \ failed, trunks |-> Trunks(p) \ failed]
        PROVE  NoEcho'
    BY <2>4, Zenon DEF NoEcho, Taps, Trunks, Listeners
  <2> QED
    BY <2>1, <2>2, <2>3, <2>4, WireStep, Zenon
<1> QED
  BY <1>1, <1>2, HubInvariant, PTL DEF Spec
=============================================================================
