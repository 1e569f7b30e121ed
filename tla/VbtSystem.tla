------------------------------ MODULE VbtSystem ------------------------------
(***************************************************************************)
(* Controllers around one hub.  Every node is a process with a controller  *)
(* core (VbtLL) and a unix stream socket to the hub (VbtMedium); the hub   *)
(* handles one frame per step, the nodes one HCI packet, one received      *)
(* frame or one tick.  Stream sockets keep order and lose nothing while    *)
(* both ends are open.                                                     *)
(*   up[p], down[p]  bytes in flight on socket slot p, as frames           *)
(*   inbox[n]        ACL packets handed to the host of n, each with the    *)
(*                   peer the host knows for that connection               *)
(*   acls[n]         Access Addresses of the ACL packets the host of n     *)
(*                   sent, in order                                        *)
(*   ltk             LTK requests a host has not answered                  *)
(*   keys            Access Addresses for which a host supplied a key      *)
(* Hosts are well behaved: they command the handles they know, initiate    *)
(* once at a time and answer each LTK request once, with a key or without. *)
(* There are no trunks and no taps here.                                   *)
(***************************************************************************)
EXTENDS VbtMedium, Sequences

CONSTANTS
  Centrals,      \* nodes whose host initiates
  Peripherals,   \* nodes whose host advertises
  BdAddr,        \* public address of each node
  MaxConn, Draw(_, _), AdvChannels, Payloads,    \* of VbtLL
  MaxDraws,      \* bound: connections one incarnation of a node initiates
  MaxAcl,        \* bound: ACL packets the host of each node sends
  MaxChan,       \* bound: frames a host or a tick leaves unread in a socket
  MaxCrashes,    \* bound: crashes in a behaviour
  Mortal,        \* nodes that may crash
  HubMortal,     \* may the hub crash?
  HostStops,     \* do hosts cancel initiations, stop advertising and disconnect?
  HostEncrypts   \* do hosts encrypt connections?

L == INSTANCE VbtLL

ASSUME SystemAssumption ==
  /\ Centrals \cup Peripherals \subseteq NodeIds
  /\ BdAddr \in [NodeIds -> Addrs \ {ZeroAddr}]
  /\ \A m, n \in NodeIds : BdAddr[m] = BdAddr[n] => m = n

VARIABLES ll, sock, up, down, inbox, ltk, keys, acls, crashes

nodeSide == <<ll, sock, up, down, inbox, ltk, keys, acls, crashes>>
hubVars  == vars
sysVars  == <<hubVars, nodeSide>>

SysInit ==
  /\ Init
  /\ ll = [n \in NodeIds |-> L!vbt_ll_new(BdAddr[n])]
  /\ sock = [n \in NodeIds |-> NoPeer]
  /\ up = [p \in Peers |-> <<>>] /\ down = [p \in Peers |-> <<>>]
  /\ inbox = [n \in NodeIds |-> <<>>]
  /\ ltk = {} /\ keys = {}
  /\ acls = [n \in NodeIds |-> <<>>]
  /\ crashes = 0

Hello(n)  == L!Pdu("HELLO", None, None, None, n)
Owned     == {sock[n] : n \in NodeIds}

\* The hub is idle in a step of a node.
HubIdle ==
  /\ wire' = NoFrame
  /\ UNCHANGED <<peerVars, nodeVars, connVars, upstream>>

-----------------------------------------------------------------------------
(* Transport: connect_medium, accept_unix and the hello *)

\* What a process that died before this one connected has not got read by now is
\* lost: the poll() that reports the new connection reports POLLHUP for the dead
\* socket, and that is looked at before POLLIN.
Attach(n) ==
  LET p == Lowest(Peers \ open)
  IN  /\ sock[n] = NoPeer
      /\ accept_unix
      /\ sock' = [sock EXCEPT ![n] = p]
      /\ up' = [q \in Peers |-> IF q = p THEN <<Hello(n)>>
                               ELSE IF q \in Owned THEN up[q] ELSE <<>>]
      /\ down' = [down EXCEPT ![p] = <<>>]
      /\ UNCHANGED <<ll, inbox, ltk, keys, acls, crashes>>

\* A node process dies and is started again: a new core, no socket.
Crash(n) ==
  /\ n \in Mortal /\ crashes < MaxCrashes
  /\ sock[n] # NoPeer
  /\ ll' = [ll EXCEPT ![n] = L!vbt_ll_new(BdAddr[n])]
  /\ sock' = [sock EXCEPT ![n] = NoPeer]
  /\ inbox' = [inbox EXCEPT ![n] = <<>>]
  /\ ltk' = {e \in ltk : e[1] # n}
  /\ crashes' = crashes + 1
  /\ HubIdle
  /\ UNCHANGED <<up, down, keys, acls>>

\* The hub finds the socket of a dead process closed.
HubSeesClose(p) ==
  /\ p \notin Owned
  /\ PeerClose(p)
  /\ up' = [up EXCEPT ![p] = <<>>] /\ down' = [down EXCEPT ![p] = <<>>]
  /\ UNCHANGED <<ll, sock, inbox, ltk, keys, acls, crashes>>

\* The hub's process dies and is started again, with empty tables.  The nodes lose
\* their sockets and what is on them, keep their controllers, and connect again.
HubRestart ==
  /\ HubMortal /\ crashes < MaxCrashes /\ crashes' = crashes + 1
  /\ open' = {} /\ is_bridge' = {} /\ is_monitor' = {} /\ node_idx' = [p \in Peers |-> None]
  /\ active' = {} /\ peer_idx' = [n \in NodeIds |-> NoPeer]
  /\ addrs' = [n \in NodeIds |-> {}] /\ next_auto_id' = 0
  /\ conns' = [i \in Slots |-> FreeConn] /\ opened' = 0 /\ closed' = 0
  /\ upstream' = [u \in Upstreams |-> NoPeer] /\ wire' = NoFrame
  /\ sock' = [n \in NodeIds |-> NoPeer]
  /\ up' = [p \in Peers |-> <<>>] /\ down' = [p \in Peers |-> <<>>]
  /\ UNCHANGED <<ll, inbox, ltk, keys, acls>>

-----------------------------------------------------------------------------
(* Controllers.  r is what a call of the core returned: its PDUs go to the *)
(* socket (nowhere without one), its events to the host.                   *)

Apply(n, r, answered) ==
  /\ ll' = [ll EXCEPT ![n] = r.ll]
  /\ ltk' = {e \in ltk \ answered : e[1] = n => r.ll.conns[e[2]].active} \cup
            {<<n, r.hci[i].handle>> : i \in {j \in DOMAIN r.hci : r.hci[j].evt = "ltk"}}
  /\ inbox' = IF r.hci # <<>> /\ r.hci[1].evt = "acl"
              THEN [inbox EXCEPT ![n] = Append(@, [peer |-> r.ll.conns[r.hci[1].handle].peer_addr,
                                                   body |-> r.hci[1].arg])]
              ELSE inbox
  /\ HubIdle
  /\ UNCHANGED <<sock, crashes>>

Sent(n, air) == IF sock[n] = NoPeer THEN up ELSE [up EXCEPT ![sock[n]] = @ \o air]

Receive(n) ==
  /\ sock[n] # NoPeer
  /\ down[sock[n]] # <<>>
  /\ LET r == L!vbt_ll_pdu_from_medium(ll[n], Head(down[sock[n]]))
     IN  Apply(n, r, {}) /\ up' = Sent(n, r.air)
  /\ down' = [down EXCEPT ![sock[n]] = Tail(@)]
  /\ UNCHANGED <<keys, acls>>

\* A host command or a tick, held back while the socket has frames to read.
Answer(n, r, answered) ==
  /\ sock[n] # NoPeer => Len(up[sock[n]]) + Len(r.air) <= MaxChan
  /\ Apply(n, r, answered)
  /\ up' = Sent(n, r.air)
  /\ UNCHANGED down

Call(n, r) == Answer(n, r, {}) /\ UNCHANGED keys

HostCreateConn(n, peer) ==
  /\ n \in Centrals /\ ll[n].state # "INITIATING" /\ ll[n].draws < MaxDraws
  /\ Call(n, L!handle_le_create_conn(ll[n], BdAddr[peer], 0)) /\ UNCHANGED acls

HostCancel(n) ==
  /\ HostStops
  /\ \/ ll[n].state = "INITIATING" /\ Call(n, L!CreateConnCancel(ll[n]))
     \/ ll[n].adv_enabled /\ Call(n, L!SetAdvEnable(ll[n], FALSE))
  /\ UNCHANGED acls

HostAdvertise(n) ==
  /\ n \in Peripherals /\ ~ll[n].adv_enabled
  /\ Call(n, L!SetAdvEnable(ll[n], TRUE)) /\ UNCHANGED acls

HostDisconnect(n, h) ==
  /\ HostStops /\ h \in L!Active(ll[n])
  /\ Call(n, L!Disconnect(ll[n], h)) /\ UNCHANGED acls

HostSend(n, h) ==
  /\ h \in L!Active(ll[n]) /\ Len(acls[n]) < MaxAcl[n]
  /\ acls' = [acls EXCEPT ![n] = Append(@, ll[n].conns[h].access_addr)]
  /\ Call(n, L!handle_acl_from_host(ll[n], h,
       [from |-> n, to |-> ll[n].conns[h].peer_addr, num |-> Len(acls[n]) + 1]))

HostEncrypt(n, h) ==
  /\ HostEncrypts /\ UNCHANGED acls
  /\ h \in L!Active(ll[n]) /\ ll[n].conns[h].role = "central" /\ ~ll[n].conns[h].encrypting
  /\ Call(n, L!StartEncryption(ll[n], h))

HostLtkReply(n, h) ==
  /\ <<n, h>> \in ltk
  /\ Answer(n, L!LtkReply(ll[n], h), {<<n, h>>})
  /\ keys' = keys \cup {ll[n].conns[h].access_addr} /\ UNCHANGED acls

\* Nothing tells the central that the host has no key.
HostLtkRefuse(n, h) ==
  /\ <<n, h>> \in ltk
  /\ Answer(n, L!LtkNegReply(ll[n], h), {<<n, h>>}) /\ UNCHANGED <<keys, acls>>

\* An advertiser beacons when its last beacon has been taken off the air.
Tick(n) ==
  /\ ll[n].adv_enabled /\ sock[n] # NoPeer
  /\ up[sock[n]] = <<>> /\ \A m \in NodeIds : sock[m] # NoPeer => down[sock[m]] = <<>>
  /\ Call(n, L!vbt_ll_tick(ll[n])) /\ UNCHANGED acls

-----------------------------------------------------------------------------
(* The hub reads a frame.  Writes fail hard only towards dead processes.   *)

Route(p, f) ==
  \/ f.type = "HELLO" /\ HelloNode(p, f.body)
  \/ f.type = "CONNECT_IND" /\ ForwardConnectInd(p, f.tx, f.to, f.aa, FreshTTL)
  \/ f.type \in L!DataPdus /\ ForwardData(p, f.tx, f.aa, FreshTTL)
  \/ f.type \in L!AdvPdus \cup {"SCAN_REQ", "SCAN_RSP"} /\ ForwardAdv(p, f.tx, FreshTTL)

HubReads(p) ==
  /\ p \in open /\ up[p] # <<>>
  /\ Route(p, Head(up[p]))
  /\ (open \ open') \cap Owned = {}
  /\ up' = [q \in Peers |-> IF q = p THEN Tail(up[p]) ELSE IF q \in open' THEN up[q] ELSE <<>>]
  /\ down' = [q \in Peers |-> IF q \in wire'.hears \cap Owned THEN Append(down[q], Head(up[p])) ELSE down[q]]
  /\ UNCHANGED <<ll, sock, inbox, ltk, keys, acls, crashes>>

SysNext ==
  \/ \E n \in NodeIds :
       \/ Attach(n) \/ Crash(n) \/ Receive(n) \/ Tick(n)
       \/ HostCancel(n) \/ HostAdvertise(n)
       \/ \E peer \in Peripherals \ {n} : HostCreateConn(n, peer)
       \/ \E h \in L!Handles : HostDisconnect(n, h) \/ HostSend(n, h)
                               \/ HostEncrypt(n, h) \/ HostLtkReply(n, h)
                               \/ HostLtkRefuse(n, h)
  \/ \E p \in Peers : HubReads(p) \/ HubSeesClose(p)
  \/ HubRestart

SysSpec == SysInit /\ [][SysNext]_sysVars

\* Nothing a node or the hub has received stays unhandled forever: poll() reports
\* a readable socket until it is read, and every loop serves all of them.  Every
\* transport calls the tick every few milliseconds.
Fairness ==
  /\ \A n \in NodeIds : WF_sysVars(Receive(n)) /\ WF_sysVars(Tick(n))
  /\ \A p \in Peers : WF_sysVars(HubReads(p)) /\ WF_sysVars(HubSeesClose(p))

FairSpec == SysSpec /\ Fairness

-----------------------------------------------------------------------------
(* Properties *)

Ends(aa, role) ==
  {n \in NodeIds : \E h \in L!Active(ll[n]) :
     ll[n].conns[h].access_addr = aa /\ ll[n].conns[h].role = role}

\* Every node is attached and nothing is in flight.
Quiet ==
  /\ \A n \in NodeIds : sock[n] # NoPeer
  /\ open \subseteq Owned
  /\ \A p \in open : up[p] = <<>> /\ down[p] = <<>>

\* A node whose hello the hub has read is reached through the socket of its living
\* process: no restart leaves it deaf, however late the hub notices that the old
\* socket is gone, and nothing for it is written to another process's socket.
AttachedNodeIsReachable ==
  \A n \in NodeIds :
    /\ sock[n] # NoPeer /\ Hello(n) \notin {up[sock[n]][i] : i \in DOMAIN up[sock[n]]}
         => peer_idx[n] = sock[n]
    /\ peer_idx[n] \in Owned => peer_idx[n] \in {NoPeer, sock[n]}

\* An Access Address joins at most two nodes, one in each role: of several
\* initiators that heard the same advertisement, at most one is accepted
\* (adv_enabled is cleared by the first CONNECT_IND), on its own Access Address.
LinkHasTwoEnds ==
  \A aa \in AAs : Cardinality(Ends(aa, "central")) <= 1 /\ Cardinality(Ends(aa, "peripheral")) <= 1

\* An ACL packet reaches the host of the node it was sent to, on a connection whose
\* peer is the sender, and never overtakes or repeats another.
AclIsPointToPoint ==
  \A n \in NodeIds : \A i \in DOMAIN inbox[n] :
    LET b == inbox[n][i].body
    IN  /\ BdAddr[b.from] = inbox[n][i].peer /\ b.to = BdAddr[n]
        /\ \A j \in 1 .. i - 1 :
             inbox[n][j].body.from = b.from => inbox[n][j].body.num < b.num

\* While both ends of a connection are up and nothing is in flight, every ACL
\* packet that was sent on it has arrived where it was sent to.
AclIsDelivered ==
  Quiet => \A n \in NodeIds : \A k \in DOMAIN acls[n] :
    Ends(acls[n][k], "central") # {} /\ Ends(acls[n][k], "peripheral") # {} =>
      \E m \in NodeIds : \E i \in DOMAIN inbox[m] :
        LET b == inbox[m][i].body IN b.from = n /\ b.num = k /\ b.to = BdAddr[m]

\* A peripheral's connection has its central, unless a termination or the death of
\* the central is still on its way.
NoOrphan ==
  Quiet => \A aa \in AAs : Ends(aa, "peripheral") # {} => Ends(aa, "central") # {}

Sees(aa, role, field) ==
  \E n \in Ends(aa, role) : \E h \in L!Active(ll[n]) :
    ll[n].conns[h].access_addr = aa /\ ll[n].conns[h][field]

\* The encryption handshake ends with both ends of the link in agreement; and no end
\* takes the link for encrypted unless the peripheral's host supplied a key.
EncryptionAgrees ==
  \A aa \in AAs : Ends(aa, "central") # {} /\ Ends(aa, "peripheral") # {} =>
    /\ Sees(aa, "peripheral", "encrypted") => Sees(aa, "central", "encrypted")
    /\ Sees(aa, "central", "encrypted") => Sees(aa, "peripheral", "encrypting") /\ aa \in keys
    /\ Quiet /\ aa \in keys => Sees(aa, "central", "encrypted") /\ Sees(aa, "peripheral", "encrypted")

\* A peripheral does not keep a connection its central no longer has.  Under
\* FairSpec without crashes: a disconnection reaches the other side (tests/README:
\* "Disconnect -> Disconnection Complete on both sides").  With crashes it says what
\* vbt_ll.h says of the tick, that it drives "connection supervision", and fails.
PeripheralFollowsCentral ==
  \A aa \in AAs :
    Ends(aa, "peripheral") # {} /\ Ends(aa, "central") = {} ~> Ends(aa, "peripheral") = {}

Seeks(n, m) == ll[n].state = "INITIATING" /\ ll[n].init_peer_addr = BdAddr[m]

\* An initiation towards a node that advertises and keeps advertising succeeds.
InitiatorConnects ==
  \A n \in Centrals, m \in Peripherals :
    Seeks(n, m) /\ ll[m].adv_enabled /\ sock[n] # NoPeer /\ sock[m] # NoPeer
      ~> ~Seeks(n, m) \/ ~ll[m].adv_enabled
=============================================================================
