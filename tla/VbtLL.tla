-------------------------------- MODULE VbtLL --------------------------------
(***************************************************************************)
(* The controller core, vbt_ll.c: the Link Layer and HCI state machine     *)
(* that every transport (vhci daemon, vhost-user, QEMU device) embeds.     *)
(*                                                                         *)
(* The core does no I/O: each entry point is a function of the controller  *)
(* (struct vbt_ll) and its input.  An operator below is one entry point,   *)
(* or one command of dispatch_command; it returns the controller, the HCI  *)
(* packets handed to the host and the PDUs put on the medium, in order.    *)
(* Payloads, advertising data, intervals and event masks are left out: no  *)
(* branch depends on them.                                                 *)
(***************************************************************************)
EXTENDS Integers, Sequences

CONSTANTS
  MaxConn,      \* VBT_LL_MAX_CONN
  Addrs,        \* device addresses
  AAs,          \* Access Addresses
  Draw(_, _),   \* Draw(a, k): what a core with public address a makes of its k-th random number
  AdvChannels,  \* primary channels an advertisement is sent on (3)
  Payloads,     \* ACL payloads
  None

Handles  == 0 .. MaxConn - 1     \* handle - BASE_CONN_HANDLE
NoHandle == -1

AdvPdus  == {"ADV_IND", "ADV_DIRECT_IND", "ADV_NONCONN_IND", "ADV_SCAN_IND"}
AdvTypes == 0 .. 6               \* Advertising_Type of LE Set Advertising Parameters
Controls == {"TERMINATE_IND", "VERSION_IND", "FEATURE_REQ", "FEATURE_RSP",
             "ENC_REQ", "ENC_RSP", "START_ENC_REQ", "START_ENC_RSP"}
States   == {"IDLE", "ADVERTISING", "SCANNING", "INITIATING"}

FreeConn == [active |-> FALSE, access_addr |-> None, role |-> "none", peer_addr |-> None,
             encrypting |-> FALSE, encrypted |-> FALSE]
LLConn   == [active : BOOLEAN, access_addr : AAs \cup {None},
             role : {"none", "central", "peripheral"}, peer_addr : Addrs \cup {None},
             encrypting : BOOLEAN, encrypted : BOOLEAN]
LL       == [public_addr : Addrs, random_addr : Addrs \cup {None}, state : States,
             adv_enabled : BOOLEAN, adv_type : AdvTypes, adv_own_addr_type : {0, 1},
             scan_enabled : BOOLEAN, scan_type : {0, 1}, scan_own_addr_type : {0, 1},
             init_peer_addr : Addrs \cup {None}, init_own_addr_type : {0, 1},
             conns : [Handles -> LLConn], draws : Nat]

\* The k-th call of ll_rand32 only depends on the address the core was created
\* with: a restarted controller draws the same Access Addresses again.
vbt_ll_new(bdaddr) ==
  [public_addr |-> bdaddr, random_addr |-> None, state |-> "IDLE",
   adv_enabled |-> FALSE, adv_type |-> 0, adv_own_addr_type |-> 0,
   scan_enabled |-> FALSE, scan_type |-> 0, scan_own_addr_type |-> 0,
   init_peer_addr |-> None, init_own_addr_type |-> 0,
   conns |-> [h \in Handles |-> FreeConn], draws |-> 0]

-----------------------------------------------------------------------------
(* Helpers *)

\* Mutant: the generator is seeded anew for every number.
ll_rand32_Reseeded(ll) == 1

\* The number of the next random number.
ll_rand32(ll) == ll.draws + 1

Result(ll, hci, air) == [ll |-> ll, hci |-> hci, air |-> air]
Ignore(ll)           == Result(ll, <<>>, <<>>)

own_source_addr(ll, type) ==
  IF type = 1 /\ ll.random_addr # None THEN ll.random_addr ELSE ll.public_addr

Active(ll)     == {h \in Handles : ll.conns[h].active}
Lowest(S)      == IF S = {} THEN NoHandle ELSE CHOOSE h \in S : \A g \in S : h <= g

\* Mutant: the first slot is taken whether it is in use or not.
conn_alloc_First(ll) == Lowest(Handles)

conn_alloc(ll) == Lowest(Handles \ Active(ll))
conn_by_aa(ll, aa) == Lowest({h \in Active(ll) : ll.conns[h].access_addr = aa})

\* HCI packets to the host.  Replied is the Command Complete or Command Status
\* that acknowledges a command.
Event(evt, h, arg)  == [evt |-> evt, handle |-> h, arg |-> arg]
Replied             == Event("cmd", NoHandle, None)
evt_disconn_complete(h) == Event("disconn", h, None)
evt_num_completed(h)    == Event("completed", h, None)
evt_encrypt_change(h)   == Event("encrypted", h, None)
evt_le_ltk_request(h)   == Event("ltk", h, None)
acl_to_host(h, body)    == Event("acl", h, body)
report_adv(adva)        == Event("report", NoHandle, adva)
evt_le_conn_complete(h, role, peer) ==
  Event("conn", h, [role |-> role, peer |-> peer])

\* PDUs: tx is the header's tx_addr (AdvA of an advertisement, ScanA or InitA of
\* a request), to the AdvA a request is aimed at.  Types ACL and CONTROL are the
\* two kinds of data PDU (by LLID); body is the ACL payload or the LL opcode.
Pdu(type, tx, to, aa, body) ==
  [type |-> type, tx |-> tx, to |-> to, aa |-> aa, body |-> body]

DataPdus == {"ACL", "CONTROL"}

send_data_pdu(ll, c, llid, body) ==
  Pdu(llid, own_source_addr(ll, IF c.role = "peripheral" THEN ll.adv_own_addr_type
                                  ELSE ll.init_own_addr_type),
      None, c.access_addr, body)

send_ll_control(ll, c, op) == send_data_pdu(ll, c, "CONTROL", op)

\* Mutant: connectable advertising is sent as non-connectable.
AdvPdu_NonConn(adv_type) == IF adv_type = 6 THEN "ADV_SCAN_IND" ELSE "ADV_NONCONN_IND"

AdvPdu(adv_type) == IF adv_type \in {2, 3} THEN "ADV_NONCONN_IND"
                    ELSE IF adv_type = 6 THEN "ADV_SCAN_IND" ELSE "ADV_IND"

emit_advertisement(ll) ==
  [i \in 1 .. AdvChannels |->
     Pdu(AdvPdu(ll.adv_type), own_source_addr(ll, ll.adv_own_addr_type), None, None, None)]

-----------------------------------------------------------------------------
(* dispatch_command.  A command is well formed; the ones that only read    *)
(* constants or set masks and lists (Other) leave the controller alone.    *)

Other(ll) == Result(ll, <<Replied>>, <<>>)

Reset(ll) ==
  Result([ll EXCEPT !.conns = [h \in Handles |-> FreeConn], !.state = "IDLE",
                    !.adv_enabled = FALSE, !.scan_enabled = FALSE], <<Replied>>, <<>>)

SetRandomAddress(ll, a) == Result([ll EXCEPT !.random_addr = a], <<Replied>>, <<>>)

SetAdvParameters(ll, adv_type, own) ==
  Result([ll EXCEPT !.adv_type = adv_type, !.adv_own_addr_type = own], <<Replied>>, <<>>)

\* Mutant: switching advertising off leaves the state alone.
SetAdvEnable_Flag(ll, on) ==
  Result([ll EXCEPT !.adv_enabled = on, !.state = IF on THEN "ADVERTISING" ELSE @],
         <<Replied>>, <<>>)

SetAdvEnable(ll, on) ==
  Result([ll EXCEPT !.adv_enabled = on,
                    !.state = IF on THEN "ADVERTISING"
                              ELSE IF @ = "ADVERTISING" THEN "IDLE" ELSE @],
         <<Replied>>, <<>>)

SetScanParameters(ll, scan_type, own) ==
  Result([ll EXCEPT !.scan_type = scan_type, !.scan_own_addr_type = own], <<Replied>>, <<>>)

SetScanEnable(ll, on) ==
  Result([ll EXCEPT !.scan_enabled = on,
                    !.state = IF on THEN "SCANNING"
                              ELSE IF @ = "SCANNING" THEN "IDLE" ELSE @],
         <<Replied>>, <<>>)

handle_le_create_conn(ll, peer, own) ==
  Result([ll EXCEPT !.init_peer_addr = peer, !.init_own_addr_type = own,
                    !.state = "INITIATING"], <<Replied>>, <<>>)

CreateConnCancel(ll) ==
  Result([ll EXCEPT !.state = IF @ = "INITIATING" THEN "IDLE" ELSE @], <<Replied>>, <<>>)

LERand(ll) == Result([ll EXCEPT !.draws = @ + 2], <<Replied>>, <<>>)

\* Commands on a connection handle; an unknown handle is acknowledged and ignored.
OnHandle(ll, h, then) == IF h \in Active(ll) THEN then ELSE Other(ll)

\* Mutant: the central counts the link as encrypted at once.
StartEncryption_Early(ll, h) ==
  OnHandle(ll, h, Result([ll EXCEPT !.conns[h].encrypted = TRUE], <<Replied>>,
                         <<send_ll_control(ll, ll.conns[h], "ENC_REQ")>>))

StartEncryption(ll, h) ==
  OnHandle(ll, h, Result([ll EXCEPT !.conns[h].encrypting = TRUE], <<Replied>>,
                         <<send_ll_control(ll, ll.conns[h], "ENC_REQ")>>))

LtkReply(ll, h) ==
  OnHandle(ll, h, Result(ll, <<Replied>>, <<send_ll_control(ll, ll.conns[h], "START_ENC_REQ")>>))

LtkNegReply(ll, h) == Other(ll)

\* Mutants: the peer, or the host, is not told.
Disconnect_Silent(ll, h) ==
  OnHandle(ll, h, Result([ll EXCEPT !.conns[h] = FreeConn],
                         <<Replied, evt_disconn_complete(h)>>, <<>>))
Disconnect_NoEvent(ll, h) ==
  OnHandle(ll, h, Result([ll EXCEPT !.conns[h] = FreeConn], <<Replied>>,
                         <<send_ll_control(ll, ll.conns[h], "TERMINATE_IND")>>))

Disconnect(ll, h) ==
  OnHandle(ll, h, Result([ll EXCEPT !.conns[h] = FreeConn],
                         <<Replied, evt_disconn_complete(h)>>,
                         <<send_ll_control(ll, ll.conns[h], "TERMINATE_IND")>>))

handle_acl_from_host(ll, h, body) ==
  IF h \in Active(ll)
  THEN Result(ll, <<evt_num_completed(h)>>, <<send_data_pdu(ll, ll.conns[h], "ACL", body)>>)
  ELSE Ignore(ll)

-----------------------------------------------------------------------------
(* vbt_ll_pdu_from_medium, by PDU type *)

\* The Access Address is drawn, the CONNECT_IND sent and the connection reported
\* without waiting for any sign of life from the advertiser.
Initiate(ll, adva) ==
  LET h == conn_alloc(ll)
      c == [FreeConn EXCEPT !.active = TRUE, !.role = "central", !.peer_addr = adva,
                            !.access_addr = Draw(ll.public_addr, ll_rand32(ll))]
  IN  IF h = NoHandle THEN Ignore(ll)
      ELSE Result([ll EXCEPT !.conns[h] = c, !.draws = ll_rand32(ll), !.state = "IDLE",
                             !.scan_enabled = FALSE],
                  <<evt_le_conn_complete(h, "central", adva)>>,
                  <<Pdu("CONNECT_IND", own_source_addr(ll, ll.init_own_addr_type),
                        adva, c.access_addr, None)>>)

ScanReport(ll, pdu) ==
  IF ~ll.scan_enabled THEN Ignore(ll)
  ELSE Result(ll, <<report_adv(pdu.tx)>>,
              IF ll.scan_type = 1 /\ pdu.type \in {"ADV_IND", "ADV_SCAN_IND"}
              THEN <<Pdu("SCAN_REQ", own_source_addr(ll, ll.scan_own_addr_type),
                         pdu.tx, None, None)>>
              ELSE <<>>)

AdvReceived(ll, pdu) ==
  IF /\ ll.state = "INITIATING"
     /\ pdu.type \in {"ADV_IND", "ADV_DIRECT_IND"}
     /\ pdu.tx = ll.init_peer_addr
  THEN Initiate(ll, pdu.tx)
  ELSE ScanReport(ll, pdu)

\* Mutant: the target address is not compared.
Targets_Any(ll, pdu) == ll.adv_enabled

\* Is the request aimed at us, while we advertise?
Targets(ll, pdu) == ll.adv_enabled /\ pdu.to = own_source_addr(ll, ll.adv_own_addr_type)

ScanReqReceived(ll, pdu) ==
  IF Targets(ll, pdu)
  THEN Result(ll, <<>>, <<Pdu("SCAN_RSP", own_source_addr(ll, ll.adv_own_addr_type),
                              None, None, None)>>)
  ELSE Ignore(ll)

ScanRspReceived(ll, pdu) ==
  IF ll.scan_enabled THEN Result(ll, <<report_adv(pdu.tx)>>, <<>>) ELSE Ignore(ll)

ConnectIndReceived(ll, pdu) ==
  LET h == conn_alloc(ll)
      c == [FreeConn EXCEPT !.active = TRUE, !.role = "peripheral", !.peer_addr = pdu.tx,
                            !.access_addr = pdu.aa]
  IN  IF ~Targets(ll, pdu) \/ h = NoHandle THEN Ignore(ll)
      ELSE Result([ll EXCEPT !.conns[h] = c, !.adv_enabled = FALSE, !.state = "IDLE"],
                  <<evt_le_conn_complete(h, "peripheral", pdu.tx)>>, <<>>)

\* The link counts as encrypted from here on; the host hears of it once.
Encrypted(ll, h) == [ll EXCEPT !.conns[h].encrypted = TRUE]

\* Mutant: the host is not told.
EncryptedEvents_None(c, h) == <<>>

EncryptedEvents(c, h) == IF c.encrypted THEN <<>> ELSE <<evt_encrypt_change(h)>>

handle_ll_control(ll, h, op) ==
  LET c == ll.conns[h]
      Send(ctl) == <<send_ll_control(ll, c, ctl)>>
  IN  CASE op = "TERMINATE_IND" ->
             Result([ll EXCEPT !.conns[h] = FreeConn], <<evt_disconn_complete(h)>>, <<>>)
        [] op = "VERSION_IND"   -> Result(ll, <<>>, Send("VERSION_IND"))
        [] op = "FEATURE_REQ"   -> Result(ll, <<>>, Send("FEATURE_RSP"))
        [] op = "ENC_REQ"       ->
             Result([ll EXCEPT !.conns[h].encrypting = TRUE],
                    <<evt_le_ltk_request(h)>>, Send("ENC_RSP"))
        [] op = "START_ENC_REQ" ->
             Result(Encrypted(ll, h), EncryptedEvents(c, h), Send("START_ENC_RSP"))
        [] op = "START_ENC_RSP" -> Result(Encrypted(ll, h), EncryptedEvents(c, h), <<>>)
        [] OTHER                -> Ignore(ll)

DataReceived(ll, pdu) ==
  LET h == conn_by_aa(ll, pdu.aa)
  IN  IF h = NoHandle THEN Ignore(ll)
      ELSE IF pdu.type = "CONTROL" THEN handle_ll_control(ll, h, pdu.body)
      ELSE Result(ll, <<acl_to_host(h, pdu.body)>>, <<>>)

vbt_ll_pdu_from_medium(ll, pdu) ==
  CASE pdu.type \in AdvPdus      -> AdvReceived(ll, pdu)
    [] pdu.type = "SCAN_REQ"     -> ScanReqReceived(ll, pdu)
    [] pdu.type = "SCAN_RSP"     -> ScanRspReceived(ll, pdu)
    [] pdu.type = "CONNECT_IND"  -> ConnectIndReceived(ll, pdu)
    [] pdu.type \in DataPdus     -> DataReceived(ll, pdu)

vbt_ll_tick(ll) ==
  IF ll.adv_enabled THEN Result(ll, <<>>, emit_advertisement(ll)) ELSE Ignore(ll)
=============================================================================
