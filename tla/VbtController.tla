---------------------------- MODULE VbtController ----------------------------
(***************************************************************************)
(* One controller core between a host that issues any HCI command and a    *)
(* medium that delivers any well-formed PDU, in any order.  host is what   *)
(* the stream of HCI events has told the host so far (the state a host     *)
(* stack such as BlueZ keeps): the connections it knows, and whether it    *)
(* still waits for the outcome of an LE Create Connection.                 *)
(***************************************************************************)
EXTENDS VbtLL, FiniteSets

CONSTANTS
  BdAddr,       \* the core's public address
  OwnTypes,     \* own address types the host uses
  HostAdvTypes, \* advertising types the host uses
  HostScanTypes, \* scan types the host uses (0 passive, 1 active)
  HostRandoms,  \* random addresses the host sets
  MaxDraws      \* bound on the random numbers one behaviour draws

ASSUME ControllerAssumption ==
  /\ MaxConn \in Nat /\ AdvChannels \in Nat /\ MaxDraws \in Nat
  /\ BdAddr \in Addrs /\ None \notin Addrs \cup AAs \cup Payloads
  /\ OwnTypes \subseteq {0, 1} /\ HostAdvTypes \subseteq AdvTypes
  /\ HostScanTypes \subseteq {0, 1}
  /\ HostRandoms \subseteq Addrs
ASSUME DrawAssumption ==
  /\ \A k \in 1 .. MaxDraws : Draw(BdAddr, k) \in AAs
  /\ \A j, k \in 1 .. MaxDraws : Draw(BdAddr, j) = Draw(BdAddr, k) => j = k

VARIABLES
  ll,        \* struct vbt_ll
  host       \* the host's view: known connections, and a pending initiation

vars == <<ll, host>>

Unknown  == [role |-> "none", peer |-> None, encrypted |-> FALSE]
HostConn == [role : {"none", "central", "peripheral"}, peer : Addrs \cup {None},
             encrypted : BOOLEAN]

Says(hci, evt, h) == \E i \in DOMAIN hci : hci[i].evt = evt /\ hci[i].handle = h

\* What the host knows after the packets hci.
Told(view, hci) ==
  [h \in Handles |->
     IF Says(hci, "disconn", h) THEN Unknown
     ELSE IF Says(hci, "conn", h)
     THEN LET i == CHOOSE j \in DOMAIN hci : hci[j].evt = "conn" /\ hci[j].handle = h
          IN  [role |-> hci[i].arg.role, peer |-> hci[i].arg.peer, encrypted |-> FALSE]
     ELSE IF Says(hci, "encrypted", h) THEN [view[h] EXCEPT !.encrypted = TRUE]
     ELSE view[h]]

\* LE Connection Complete in the central role ends an initiation.
Connected(hci) == \E i \in DOMAIN hci : hci[i].evt = "conn" /\ hci[i].arg.role = "central"

Init ==
  /\ ll = vbt_ll_new(BdAddr)
  /\ host = [conns |-> [h \in Handles |-> Unknown], pending |-> FALSE]

Step(r) ==
  /\ r.ll.draws <= MaxDraws
  /\ ll' = r.ll
  /\ host' = [conns |-> Told(host.conns, r.hci), pending |-> host.pending /\ ~Connected(r.hci)]

-----------------------------------------------------------------------------
(* Host commands.  Reset drops the host's connections along with the       *)
(* controller's.                                                           *)

HostReset ==
  /\ ll' = Reset(ll).ll
  /\ host' = [conns |-> [h \in Handles |-> Unknown], pending |-> FALSE]

HostCreateConn(peer, own) ==
  /\ ll' = handle_le_create_conn(ll, peer, own).ll
  /\ host' = [host EXCEPT !.pending = TRUE]

HostAddresses ==
  \/ \E a \in HostRandoms : Step(SetRandomAddress(ll, a))
  \/ \E t \in HostAdvTypes, own \in OwnTypes : Step(SetAdvParameters(ll, t, own))
  \/ \E t \in HostScanTypes, own \in OwnTypes : Step(SetScanParameters(ll, t, own))

HostEnables ==
  \/ \E on \in BOOLEAN : Step(SetAdvEnable(ll, on))
  \/ \E on \in BOOLEAN : Step(SetScanEnable(ll, on))
  \/ Step(CreateConnCancel(ll))

HostOnHandle(h) ==
  \/ Step(StartEncryption(ll, h))
  \/ Step(LtkReply(ll, h))
  \/ Step(LtkNegReply(ll, h))
  \/ Step(Disconnect(ll, h))
  \/ \E body \in Payloads : Step(handle_acl_from_host(ll, h, body))

\* Anything the medium may deliver; nothing depends on the sender of a data PDU.
AirPdus ==
  {Pdu(t, a, None, None, None) : t \in AdvPdus \cup {"SCAN_RSP"}, a \in Addrs} \cup
  {Pdu("SCAN_REQ", a, b, None, None) : a, b \in Addrs} \cup
  {Pdu("CONNECT_IND", a, b, aa, None) : a, b \in Addrs, aa \in AAs} \cup
  {Pdu("CONTROL", None, None, aa, op) : aa \in AAs, op \in Controls} \cup
  {Pdu("ACL", None, None, aa, body) : aa \in AAs, body \in Payloads}

Next ==
  \/ HostReset
  \/ \E peer \in Addrs, own \in OwnTypes : HostCreateConn(peer, own)
  \/ HostAddresses
  \/ HostEnables
  \/ Step(LERand(ll))
  \/ \E h \in Handles : HostOnHandle(h)
  \/ \E pdu \in AirPdus : Step(vbt_ll_pdu_from_medium(ll, pdu))
  \/ Step(vbt_ll_tick(ll))

Spec == Init /\ [][Next]_vars

-----------------------------------------------------------------------------
(* Properties *)

\* The controller and the host's view are of their types, and no more random
\* numbers were drawn than the bound allows.
TypeOK ==
  /\ ll \in LL /\ ll.public_addr = BdAddr /\ ll.draws <= MaxDraws
  /\ host \in [conns : [Handles -> HostConn], pending : BOOLEAN]

\* The events are complete and truthful: the connections the host knows of, with
\* their roles, peers and encryption, are the ones in conns[], through handle
\* reuse, late PDUs, commands on unknown handles and Reset.
HostViewAgrees ==
  \A h \in Handles :
    LET c == ll.conns[h]
    IN  host.conns[h] = IF c.active
                        THEN [role |-> c.role, peer |-> c.peer_addr, encrypted |-> c.encrypted]
                        ELSE Unknown

\* The one state variable does not contradict the two enable flags, and the core
\* initiates only while its host waits for an LE Connection Complete, whatever order
\* advertising, scanning and initiating are switched in.  (The converse fails: a
\* cancelled or displaced initiation leaves the host waiting.)
StateMatchesEnables ==
  /\ ll.state = "ADVERTISING" => ll.adv_enabled
  /\ ll.state = "SCANNING" => ll.scan_enabled
  /\ ll.state = "INITIATING" => host.pending

\* Connections this core initiated have different Access Addresses (ll_rand32), so
\* conn_by_aa never confuses two of them.
OwnAccessAddressesDiffer ==
  \A g, h \in Active(ll) :
    /\ ll.conns[g].role = "central" /\ ll.conns[h].role = "central"
    /\ ll.conns[g].access_addr = ll.conns[h].access_addr
    => g = h

\* A handle in use is never handed to another connection: conn_alloc, incoming and
\* outgoing setup leave live entries alone.
HandleIsStable ==
  [][\A h \in Handles : ll.conns[h].active /\ ll'.conns[h].active =>
       /\ ll'.conns[h].access_addr = ll.conns[h].access_addr
       /\ ll'.conns[h].role = ll.conns[h].role
       /\ ll'.conns[h].peer_addr = ll.conns[h].peer_addr]_vars

=============================================================================
