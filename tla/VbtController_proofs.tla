------------------------- MODULE VbtController_proofs --------------------------
(***************************************************************************)
(* Proofs about one controller core, for every number of connections,      *)
(* every set of addresses and every order of commands and PDUs.  A call of *)
(* the core does one of five things to conns[] (Effect); the invariant is  *)
(* then shown for these, and each entry point is shown to be one of them.  *)
(***************************************************************************)
EXTENDS VbtController, WellFoundedInduction, TLAPS

-----------------------------------------------------------------------------
(* The invariant *)

\* The Access Address of a connection this core initiated is a number it has drawn.
CentralsAreDrawn ==
  \A h \in Active(ll) : ll.conns[h].role = "central" =>
    \E k \in 1 .. ll.draws : ll.conns[h].access_addr = Draw(BdAddr, k)

ControllerInv ==
  /\ TypeOK /\ HostViewAgrees /\ StateMatchesEnables
  /\ CentralsAreDrawn /\ OwnAccessAddressesDiffer

-----------------------------------------------------------------------------
(* What a call of the core does.  l is the controller before the call, r   *)
(* its result.                                                             *)

News == {"conn", "disconn", "encrypted"}

Silent(hci) == \A i \in DOMAIN hci : hci[i].evt \notin News

\* The call leaves the connections alone.
Keeps(l, r) == r.ll.conns = l.conns /\ r.ll.draws >= l.draws /\ Silent(r.hci)

\* It opens connection c on the free handle h and reports it.
Opens(l, r, h, c) ==
  /\ h \in Handles /\ ~l.conns[h].active
  /\ c.active /\ ~c.encrypted
  /\ r.ll.conns = [l.conns EXCEPT ![h] = c]
  /\ r.hci = <<evt_le_conn_complete(h, c.role, c.peer_addr)>>
  /\ \/ c.role = "peripheral" /\ r.ll.draws = l.draws
     \/ c.role = "central" /\ r.ll.draws = l.draws + 1 /\ c.access_addr = Draw(BdAddr, l.draws + 1)

\* It closes the connection of handle h and reports that.
Closes(l, r, h) ==
  /\ h \in Handles /\ l.conns[h].active
  /\ r.ll.conns = [l.conns EXCEPT ![h] = FreeConn] /\ r.ll.draws = l.draws
  /\ \/ r.hci = <<evt_disconn_complete(h)>>
     \/ r.hci = <<Replied, evt_disconn_complete(h)>>

\* It notes a handshake on handle h.
Shakes(l, r, h) ==
  /\ h \in Handles /\ l.conns[h].active
  /\ r.ll.conns = [l.conns EXCEPT ![h].encrypting = TRUE] /\ r.ll.draws = l.draws
  /\ Silent(r.hci)

\* It completes the handshake and reports that once.
Encrypts(l, r, h) ==
  /\ h \in Handles /\ l.conns[h].active
  /\ r.ll.conns = [l.conns EXCEPT ![h].encrypted = TRUE] /\ r.ll.draws = l.draws
  /\ r.hci = EncryptedEvents(l.conns[h], h)

Effect(l, r) ==
  \/ Keeps(l, r)
  \/ \E h \in Handles : (\E c \in LLConn : Opens(l, r, h, c)) \/ Closes(l, r, h)
                        \/ Shakes(l, r, h) \/ Encrypts(l, r, h)

\* The states an initiation, a scan or an advertising is left in.
States_OK(l, r) ==
  /\ r.ll.state = "ADVERTISING" => r.ll.adv_enabled
  /\ r.ll.state = "SCANNING" => r.ll.scan_enabled
  /\ r.ll.state = "INITIATING" => l.state = "INITIATING" /\ ~Connected(r.hci)

\* All a proof needs to know of a call.
Sound(l, r) ==
  r.ll.draws <= MaxDraws =>
    r.ll \in LL /\ r.ll.public_addr = l.public_addr /\ Effect(l, r) /\ States_OK(l, r)

\* A controller a call may be made on.
Good(l) ==
  /\ l \in LL /\ l.public_addr = BdAddr
  /\ l.state = "ADVERTISING" => l.adv_enabled
  /\ l.state = "SCANNING" => l.scan_enabled

-----------------------------------------------------------------------------
(* Every entry point is sound. *)

\* conn_alloc and conn_by_aa return a handle of the set they search, or none.
LEMMA LowestIsMember ==
  ASSUME NEW S \in SUBSET Handles
  PROVE  Lowest(S) \in S \/ (S = {} /\ Lowest(S) = NoHandle)
<1>1. CASE S = {}
  BY <1>1 DEF Lowest
<1>2. CASE S # {}
  <2>1. S \in SUBSET Nat
    BY ControllerAssumption DEF Handles
  <2>2. PICK h \in S : \A g \in S : ~ (<<g, h>> \in OpToRel(<, Nat))
    BY <1>2, <2>1, NatLessThanWellFounded, WFMin, Zenon
  <2>3. ASSUME NEW g \in S PROVE h <= g
    <3>1. g \in Nat /\ h \in Nat /\ ~ (g < h)
      BY <2>1, <2>2, Zenon DEF OpToRel
    <3> QED
      BY <3>1
  <2> QED
    BY <1>2, <2>3 DEF Lowest
<1> QED
  BY <1>1, <1>2

LEMMA AllocIsFree ==
  ASSUME NEW l, conn_alloc(l) # NoHandle
  PROVE  conn_alloc(l) \in Handles /\ ~l.conns[conn_alloc(l)].active
BY LowestIsMember DEF conn_alloc, Active

LEMMA FoundIsActive ==
  ASSUME NEW l, NEW aa, conn_by_aa(l, aa) # NoHandle
  PROVE  conn_by_aa(l, aa) \in Handles /\ l.conns[conn_by_aa(l, aa)].active
<1>1. {h \in Active(l) : l.conns[h].access_addr = aa} \in SUBSET Handles
  BY DEF Active
<1> QED
  BY <1>1, LowestIsMember DEF conn_by_aa, Active

\* A call that leaves conns[] and the number of draws alone, and whose packets bring no
\* news of a connection.
LEMMA PlainIsSound ==
  ASSUME NEW l, Good(l), NEW r, r.ll \in LL, r.ll.public_addr = l.public_addr,
         r.ll.conns = l.conns, r.ll.draws >= l.draws, Silent(r.hci),
         r.ll.state = "ADVERTISING" => r.ll.adv_enabled,
         r.ll.state = "SCANNING" => r.ll.scan_enabled,
         r.ll.state = "INITIATING" => l.state = "INITIATING"
  PROVE  Sound(l, r)
BY DEF Sound, Effect, Keeps, States_OK, Connected, Silent, News

LEMMA IgnoreIsSound ==
  ASSUME NEW l, Good(l), NEW air, NEW hci, Silent(hci)
  PROVE  Sound(l, Result(l, hci, air))
<1>1. l.draws \in Nat
  BY DEF Good, LL
<1> QED
  BY <1>1, PlainIsSound DEF Good, Result

LEMMA OneSilent ==
  ASSUME NEW e, e.evt \notin News
  PROVE  Silent(<<e>>) /\ Silent(<<>>)
BY DEF Silent

LEMMA RepliedIsSilent == Silent(<<Replied>>) /\ Silent(<<>>)
BY DEF Silent, Replied, Event, News

\* Commands that set the addresses, types and enables, or only answer.
LEMMA SettersAreSound ==
  ASSUME NEW l, Good(l), NEW a \in Addrs, NEW t \in AdvTypes, NEW u \in {0, 1},
         NEW own \in {0, 1}, NEW on \in BOOLEAN
  PROVE  /\ Sound(l, SetRandomAddress(l, a))
         /\ Sound(l, SetAdvParameters(l, t, own))
         /\ Sound(l, SetScanParameters(l, u, own))
         /\ Sound(l, SetAdvEnable(l, on))
         /\ Sound(l, SetScanEnable(l, on))
         /\ Sound(l, CreateConnCancel(l))
         /\ Sound(l, LERand(l))
         /\ Sound(l, Other(l))
<1> l.draws \in Nat
  BY DEF Good, LL
<1>1. Sound(l, SetRandomAddress(l, a))
  BY PlainIsSound, RepliedIsSilent DEF SetRandomAddress, Result, Good, LL
<1>2. Sound(l, SetAdvParameters(l, t, own))
  <2> DEFINE r == SetAdvParameters(l, t, own)
  <2>1. r.ll \in LL
    BY Zenon DEF SetAdvParameters, Result, Good, LL, States
  <2>2. r.ll.public_addr = l.public_addr /\ r.ll.conns = l.conns
    BY Zenon DEF SetAdvParameters, Result, Good, LL
  <2>3. r.ll.draws = l.draws
    BY Zenon DEF SetAdvParameters, Result, Good, LL
  <2>4. Silent(r.hci)
    BY RepliedIsSilent DEF SetAdvParameters, Result
  <2>5. r.ll.state = "ADVERTISING" => r.ll.adv_enabled
    BY Zenon DEF SetAdvParameters, Result, Good, LL
  <2>6. r.ll.state = "SCANNING" => r.ll.scan_enabled
    BY Zenon DEF SetAdvParameters, Result, Good, LL
  <2>7. r.ll.state = "INITIATING" => l.state = "INITIATING"
    BY Zenon DEF SetAdvParameters, Result, Good, LL
  <2> QED
    BY <2>1, <2>2, <2>3, <2>4, <2>5, <2>6, <2>7, PlainIsSound
<1>3. Sound(l, SetScanParameters(l, u, own))
  <2> DEFINE r == SetScanParameters(l, u, own)
  <2>1. r.ll \in LL
    BY Zenon DEF SetScanParameters, Result, Good, LL, States
  <2>2. r.ll.public_addr = l.public_addr /\ r.ll.conns = l.conns
    BY Zenon DEF SetScanParameters, Result, Good, LL
  <2>3. r.ll.draws = l.draws
    BY Zenon DEF SetScanParameters, Result, Good, LL
  <2>4. Silent(r.hci)
    BY RepliedIsSilent DEF SetScanParameters, Result
  <2>5. r.ll.state = "ADVERTISING" => r.ll.adv_enabled
    BY Zenon DEF SetScanParameters, Result, Good, LL
  <2>6. r.ll.state = "SCANNING" => r.ll.scan_enabled
    BY Zenon DEF SetScanParameters, Result, Good, LL
  <2>7. r.ll.state = "INITIATING" => l.state = "INITIATING"
    BY Zenon DEF SetScanParameters, Result, Good, LL
  <2> QED
    BY <2>1, <2>2, <2>3, <2>4, <2>5, <2>6, <2>7, PlainIsSound
<1>4. Sound(l, SetAdvEnable(l, on))
  <2> DEFINE r == SetAdvEnable(l, on)
  <2>1. r.ll \in LL
    BY DEF SetAdvEnable, Result, Good, LL, States
  <2>2. r.ll.public_addr = l.public_addr /\ r.ll.conns = l.conns
    BY Zenon DEF SetAdvEnable, Result, Good, LL
  <2>3. r.ll.draws = l.draws
    BY Zenon DEF SetAdvEnable, Result, Good, LL
  <2>4. Silent(r.hci)
    BY RepliedIsSilent DEF SetAdvEnable, Result
  <2>5. r.ll.state = "ADVERTISING" => r.ll.adv_enabled
    BY Zenon DEF SetAdvEnable, Result, Good, LL
  <2>6. r.ll.state = "SCANNING" => r.ll.scan_enabled
    BY Zenon DEF SetAdvEnable, Result, Good, LL
  <2>7. r.ll.state = "INITIATING" => l.state = "INITIATING"
    BY Zenon DEF SetAdvEnable, Result, Good, LL
  <2> QED
    BY <2>1, <2>2, <2>3, <2>4, <2>5, <2>6, <2>7, PlainIsSound
<1>5. Sound(l, SetScanEnable(l, on))
  <2> DEFINE r == SetScanEnable(l, on)
  <2>1. r.ll \in LL
    BY DEF SetScanEnable, Result, Good, LL, States
  <2>2. r.ll.public_addr = l.public_addr /\ r.ll.conns = l.conns
    BY Zenon DEF SetScanEnable, Result, Good, LL
  <2>3. r.ll.draws = l.draws
    BY Zenon DEF SetScanEnable, Result, Good, LL
  <2>4. Silent(r.hci)
    BY RepliedIsSilent DEF SetScanEnable, Result
  <2>5. r.ll.state = "ADVERTISING" => r.ll.adv_enabled
    BY Zenon DEF SetScanEnable, Result, Good, LL
  <2>6. r.ll.state = "SCANNING" => r.ll.scan_enabled
    BY Zenon DEF SetScanEnable, Result, Good, LL
  <2>7. r.ll.state = "INITIATING" => l.state = "INITIATING"
    BY Zenon DEF SetScanEnable, Result, Good, LL
  <2> QED
    BY <2>1, <2>2, <2>3, <2>4, <2>5, <2>6, <2>7, PlainIsSound
<1>6. Sound(l, CreateConnCancel(l))
  <2> DEFINE r == CreateConnCancel(l)
  <2>1. r.ll \in LL
    BY DEF CreateConnCancel, Result, Good, LL, States
  <2>2. r.ll.public_addr = l.public_addr /\ r.ll.conns = l.conns
    BY DEF CreateConnCancel, Result, Good, LL
  <2>3. r.ll.draws = l.draws
    BY DEF CreateConnCancel, Result, Good, LL
  <2>4. Silent(r.hci)
    BY RepliedIsSilent DEF CreateConnCancel, Result
  <2>5. r.ll.state = "ADVERTISING" => r.ll.adv_enabled
    BY DEF CreateConnCancel, Result, Good, LL
  <2>6. r.ll.state = "SCANNING" => r.ll.scan_enabled
    BY DEF CreateConnCancel, Result, Good, LL
  <2>7. r.ll.state = "INITIATING" => l.state = "INITIATING"
    BY DEF CreateConnCancel, Result, Good, LL
  <2> QED
    BY <2>1, <2>2, <2>3, <2>4, <2>5, <2>6, <2>7, PlainIsSound
<1>7. Sound(l, LERand(l))
  <2> DEFINE r == LERand(l)
  <2>1. r.ll \in LL
    BY DEF LERand, Result, Good, LL, States
  <2>2. r.ll.public_addr = l.public_addr /\ r.ll.conns = l.conns
    BY DEF LERand, Result, Good, LL
  <2>3. r.ll.draws >= l.draws
    BY DEF LERand, Result, Good, LL
  <2>4. Silent(r.hci)
    BY RepliedIsSilent DEF LERand, Result
  <2>5. r.ll.state = "ADVERTISING" => r.ll.adv_enabled
    BY DEF LERand, Result, Good, LL
  <2>6. r.ll.state = "SCANNING" => r.ll.scan_enabled
    BY DEF LERand, Result, Good, LL
  <2>7. r.ll.state = "INITIATING" => l.state = "INITIATING"
    BY DEF LERand, Result, Good, LL
  <2> QED
    BY <2>1, <2>2, <2>3, <2>4, <2>5, <2>6, <2>7, PlainIsSound
<1>8. Sound(l, Other(l))
  BY IgnoreIsSound, RepliedIsSilent DEF Other
<1> QED
  BY <1>1, <1>2, <1>3, <1>4, <1>5, <1>6, <1>7, <1>8

\* A change of one entry of conns[] alone.
LEMMA EntryChange ==
  ASSUME NEW l, Good(l), NEW h \in Handles, NEW c \in LLConn
  PROVE  /\ [l EXCEPT !.conns[h] = c] \in LL
         /\ [l EXCEPT !.conns[h] = c].conns = [l.conns EXCEPT ![h] = c]
         /\ [l EXCEPT !.conns[h] = c].draws = l.draws
         /\ [l EXCEPT !.conns[h] = c].state = l.state
         /\ [l EXCEPT !.conns[h] = c].adv_enabled = l.adv_enabled
         /\ [l EXCEPT !.conns[h] = c].scan_enabled = l.scan_enabled
         /\ [l EXCEPT !.conns[h] = c].public_addr = l.public_addr
BY DEF Good, LL

LEMMA FreeIsConn == FreeConn \in LLConn
BY DEF FreeConn, LLConn

LEMMA DisconnectIsSound ==
  ASSUME NEW l, Good(l), NEW h \in Handles, l.conns[h].active, NEW hci, NEW air,
         hci = <<evt_disconn_complete(h)>> \/ hci = <<Replied, evt_disconn_complete(h)>>
  PROVE  Sound(l, Result([l EXCEPT !.conns[h] = FreeConn], hci, air))
<1> DEFINE r == Result([l EXCEPT !.conns[h] = FreeConn], hci, air)
<1>1. r.ll = [l EXCEPT !.conns[h] = FreeConn] /\ r.hci = hci
  BY DEF Result
<1> HIDE DEF r
<1>2. Closes(l, r, h)
  BY <1>1, EntryChange, FreeIsConn DEF Closes
<1>3. ~Connected(r.hci)
  BY <1>1 DEF Connected, evt_disconn_complete, Replied, Event
<1>4. States_OK(l, r)
  BY <1>1, <1>3, EntryChange, FreeIsConn DEF States_OK, Good
<1>5. Sound(l, r)
  BY <1>1, <1>2, <1>4, EntryChange, FreeIsConn DEF Sound, Effect
<1> QED
  BY <1>5 DEF r

LEMMA HandshakeIsSound ==
  ASSUME NEW l, Good(l), NEW h \in Handles, l.conns[h].active, NEW hci, NEW air, Silent(hci)
  PROVE  Sound(l, Result([l EXCEPT !.conns[h].encrypting = TRUE], hci, air))
<1> DEFINE r == Result([l EXCEPT !.conns[h].encrypting = TRUE], hci, air)
           c == [l.conns[h] EXCEPT !.encrypting = TRUE]
<1>1. c \in LLConn
  <2>1. l.conns[h] \in LLConn
    BY DEF Good, LL
  <2> QED
    BY <2>1, Zenon DEF LLConn
<1>2. r.ll = [l EXCEPT !.conns[h] = c] /\ r.hci = hci
  BY DEF Result, Good, LL
<1>3. [l.conns EXCEPT ![h].encrypting = TRUE] = [l.conns EXCEPT ![h] = c]
  BY DEF Good, LL
<1> HIDE DEF c, r
<1>4. Shakes(l, r, h)
  BY <1>1, <1>2, <1>3, EntryChange DEF Shakes
<1>5. ~Connected(r.hci)
  BY <1>2 DEF Connected, Silent, News
<1>6. States_OK(l, r)
  BY <1>1, <1>2, <1>5, EntryChange DEF States_OK, Good
<1>7. Sound(l, r)
  BY <1>1, <1>2, <1>4, <1>6, EntryChange DEF Sound, Effect
<1> QED
  BY <1>7 DEF r

LEMMA EncryptedIsSound ==
  ASSUME NEW l, Good(l), NEW h \in Handles, l.conns[h].active, NEW air
  PROVE  Sound(l, Result(Encrypted(l, h), EncryptedEvents(l.conns[h], h), air))
<1> DEFINE r == Result(Encrypted(l, h), EncryptedEvents(l.conns[h], h), air)
           c == [l.conns[h] EXCEPT !.encrypted = TRUE]
<1>1. c \in LLConn
  <2>1. l.conns[h] \in LLConn
    BY DEF Good, LL
  <2> QED
    BY <2>1, Zenon DEF LLConn
<1>2. r.ll = [l EXCEPT !.conns[h] = c] /\ r.hci = EncryptedEvents(l.conns[h], h)
  BY DEF Result, Good, LL, Encrypted
<1>3. [l.conns EXCEPT ![h].encrypted = TRUE] = [l.conns EXCEPT ![h] = c]
  BY DEF Good, LL
<1> HIDE DEF c, r
<1>4. Encrypts(l, r, h)
  BY <1>1, <1>2, <1>3, EntryChange DEF Encrypts
<1>5. ~Connected(r.hci)
  BY <1>2 DEF Connected, EncryptedEvents, evt_encrypt_change, Event
<1>6. States_OK(l, r)
  BY <1>1, <1>2, <1>5, EntryChange DEF States_OK, Good
<1>7. Sound(l, r)
  BY <1>1, <1>2, <1>4, <1>6, EntryChange DEF Sound, Effect
<1> QED
  BY <1>7 DEF r

\* Commands on a handle, known or not.
LEMMA HandleCommandsAreSound ==
  ASSUME NEW l, Good(l), NEW h \in Handles, NEW body
  PROVE  /\ Sound(l, StartEncryption(l, h))
         /\ Sound(l, LtkReply(l, h))
         /\ Sound(l, LtkNegReply(l, h))
         /\ Sound(l, Disconnect(l, h))
         /\ Sound(l, handle_acl_from_host(l, h, body))
<1>1. Sound(l, Other(l)) /\ Sound(l, Ignore(l))
  BY IgnoreIsSound, RepliedIsSilent DEF Other, Ignore
<1>2. h \in Active(l) => l.conns[h].active
  BY DEF Active
<1>3. Sound(l, StartEncryption(l, h))
  BY <1>1, <1>2, HandshakeIsSound, RepliedIsSilent DEF StartEncryption, OnHandle
<1>4. Sound(l, LtkReply(l, h)) /\ Sound(l, LtkNegReply(l, h))
  BY <1>1, IgnoreIsSound, RepliedIsSilent DEF LtkReply, LtkNegReply, OnHandle
<1>5. Sound(l, Disconnect(l, h))
  BY <1>1, <1>2, DisconnectIsSound DEF Disconnect, OnHandle
<1>6. Silent(<<evt_num_completed(h)>>)
  BY DEF Silent, evt_num_completed, Event, News
<1>7. Sound(l, handle_acl_from_host(l, h, body))
  BY <1>1, <1>6, IgnoreIsSound DEF handle_acl_from_host
<1> QED
  BY <1>3, <1>4, <1>5, <1>7

-----------------------------------------------------------------------------
(* PDUs *)

\* A connection that is opened, whatever else the call sets.
LEMMA OpeningIsSound ==
  ASSUME NEW l, Good(l), NEW h \in Handles, ~l.conns[h].active,
         NEW c \in LLConn, c.active, ~c.encrypted,
         NEW r, r.ll \in LL, r.ll.public_addr = l.public_addr,
         r.ll.conns = [l.conns EXCEPT ![h] = c], r.ll.state = "IDLE",
         r.hci = <<evt_le_conn_complete(h, c.role, c.peer_addr)>>,
         \/ c.role = "peripheral" /\ r.ll.draws = l.draws
         \/ /\ c.role = "central" /\ r.ll.draws = l.draws + 1
            /\ c.access_addr = Draw(BdAddr, l.draws + 1)
  PROVE  Sound(l, r)
<1>1. Opens(l, r, h, c)
  BY DEF Opens
<1> QED
  BY <1>1 DEF Sound, Effect, States_OK

LEMMA InitiateIsSound ==
  ASSUME NEW l, Good(l), NEW adva \in Addrs
  PROVE  Sound(l, Initiate(l, adva))
<1> DEFINE h == conn_alloc(l)
           c == [FreeConn EXCEPT !.active = TRUE, !.role = "central", !.peer_addr = adva,
                                 !.access_addr = Draw(l.public_addr, ll_rand32(l))]
           n == [l EXCEPT !.conns[h] = c, !.draws = ll_rand32(l), !.state = "IDLE",
                          !.scan_enabled = FALSE]
           r == Initiate(l, adva)
<1>1. CASE h = NoHandle
  BY <1>1, IgnoreIsSound, RepliedIsSilent DEF Initiate, Ignore
<1>2. CASE h # NoHandle
  <2>1. SUFFICES ASSUME r.ll.draws <= MaxDraws PROVE Sound(l, r)
    BY DEF Sound
  <2>2. r.ll = n /\ r.hci = <<evt_le_conn_complete(h, "central", adva)>>
    BY <1>2 DEF Initiate, Result
  <2>3. l.draws \in Nat /\ ll_rand32(l) = l.draws + 1 /\ l.public_addr = BdAddr
    BY DEF Good, LL, ll_rand32
  <2>4. h \in Handles /\ ~l.conns[h].active
    BY <1>2, AllocIsFree
  <2>5. /\ c.active /\ ~c.encrypted /\ c.role = "central" /\ c.peer_addr = adva
        /\ c.access_addr = Draw(BdAddr, l.draws + 1)
    BY <2>3 DEF FreeConn
  <2>6. n.draws = l.draws + 1
    BY <2>3 DEF Good, LL
  <2>7. Draw(BdAddr, l.draws + 1) \in AAs
    BY <2>1, <2>2, <2>3, <2>6, ControllerAssumption, DrawAssumption
  <2>8. c \in LLConn
    BY <2>3, <2>7, Zenon DEF FreeConn, LLConn
  <2> HIDE DEF c, h
  <2>9. n.public_addr = l.public_addr /\ n.conns = [l.conns EXCEPT ![h] = c] /\ n.state = "IDLE"
    BY DEF Good, LL
  <2>10. n \in LL
    <3>1. [l.conns EXCEPT ![h] = c] \in [Handles -> LLConn]
      BY <2>4, <2>8 DEF Good, LL
    <3>2. ll_rand32(l) \in Nat
      BY <2>3
    <3> QED
      BY <3>1, <3>2, Zenon DEF Good, LL, States
  <2> HIDE DEF n, r
  <2> QED
    BY <2>2, <2>4, <2>5, <2>6, <2>8, <2>9, <2>10, OpeningIsSound
<1> QED
  BY <1>1, <1>2

LEMMA ConnectIndIsSound ==
  ASSUME NEW l, Good(l), NEW pdu, pdu.tx \in Addrs, pdu.aa \in AAs
  PROVE  Sound(l, ConnectIndReceived(l, pdu))
<1> DEFINE h == conn_alloc(l)
           c == [FreeConn EXCEPT !.active = TRUE, !.role = "peripheral", !.peer_addr = pdu.tx,
                                 !.access_addr = pdu.aa]
           n == [l EXCEPT !.conns[h] = c, !.adv_enabled = FALSE, !.state = "IDLE"]
           r == ConnectIndReceived(l, pdu)
<1>1. CASE ~Targets(l, pdu) \/ h = NoHandle
  BY <1>1, IgnoreIsSound, RepliedIsSilent DEF ConnectIndReceived, Ignore
<1>2. CASE Targets(l, pdu) /\ h # NoHandle
  <2>1. r.ll = n /\ r.hci = <<evt_le_conn_complete(h, "peripheral", pdu.tx)>>
    BY <1>2 DEF ConnectIndReceived, Result
  <2>2. h \in Handles /\ ~l.conns[h].active
    BY <1>2, AllocIsFree
  <2>3. c.active /\ ~c.encrypted /\ c.role = "peripheral" /\ c.peer_addr = pdu.tx
    BY DEF FreeConn
  <2>4. c \in LLConn
    BY Zenon DEF FreeConn, LLConn
  <2> HIDE DEF c, h
  <2>5. /\ n.public_addr = l.public_addr /\ n.conns = [l.conns EXCEPT ![h] = c]
        /\ n.state = "IDLE" /\ n.draws = l.draws
    BY DEF Good, LL
  <2>6. n \in LL
    BY <2>2, <2>4, Zenon DEF Good, LL, States
  <2> HIDE DEF n, r
  <2>7. r.hci = <<evt_le_conn_complete(h, c.role, c.peer_addr)>>
    BY <2>1, <2>3
  <2>8. r.ll.conns = [l.conns EXCEPT ![h] = c] /\ r.ll.draws = l.draws /\ r.ll \in LL
    BY <2>1, <2>5, <2>6
  <2>9. Sound(l, r)
    BY <2>1, <2>2, <2>3, <2>4, <2>5, <2>7, <2>8, OpeningIsSound
  <2> QED
    BY <2>9 DEF r
<1> QED
  BY <1>1, <1>2

LEMMA ControlIsSound ==
  ASSUME NEW l, Good(l), NEW h \in Handles, l.conns[h].active, NEW op
  PROVE  Sound(l, handle_ll_control(l, h, op))
<1>1. Silent(<<evt_le_ltk_request(h)>>)
  BY DEF Silent, evt_le_ltk_request, Event, News
<1>2. CASE op = "TERMINATE_IND"
  BY <1>2, DisconnectIsSound DEF handle_ll_control
<1>3. CASE op = "VERSION_IND"
  BY <1>3, IgnoreIsSound, RepliedIsSilent DEF handle_ll_control
<1>4. CASE op = "FEATURE_REQ"
  BY <1>4, IgnoreIsSound, RepliedIsSilent DEF handle_ll_control
<1>5. CASE op = "ENC_REQ"
  BY <1>1, <1>5, HandshakeIsSound DEF handle_ll_control
<1>6. CASE op \in {"START_ENC_REQ", "START_ENC_RSP"}
  BY <1>6, EncryptedIsSound, Zenon DEF handle_ll_control
<1>7. CASE op \notin {"TERMINATE_IND", "VERSION_IND", "FEATURE_REQ", "ENC_REQ",
                      "START_ENC_REQ", "START_ENC_RSP"}
  BY <1>7, IgnoreIsSound, RepliedIsSilent DEF handle_ll_control, Ignore
<1> QED
  BY <1>2, <1>3, <1>4, <1>5, <1>6, <1>7

LEMMA PduIsSound ==
  ASSUME NEW l, Good(l), NEW pdu \in AirPdus
  PROVE  Sound(l, vbt_ll_pdu_from_medium(l, pdu))
<1> USE IgnoreIsSound, RepliedIsSilent
<1>1. Sound(l, Ignore(l))
  BY DEF Ignore
<1>2. ASSUME NEW a PROVE Silent(<<report_adv(a)>>)
  BY DEF Silent, report_adv, Event, News
<1>3. CASE \E t \in AdvPdus \cup {"SCAN_RSP"}, a \in Addrs : pdu = Pdu(t, a, None, None, None)
  <2>1. PICK t \in AdvPdus \cup {"SCAN_RSP"}, a \in Addrs : pdu = Pdu(t, a, None, None, None)
    BY <1>3
  <2>2. pdu.type = t /\ pdu.tx = a
    BY <2>1 DEF Pdu
  <2>3. Sound(l, ScanReport(l, pdu)) /\ Sound(l, ScanRspReceived(l, pdu))
    BY <1>1, <1>2 DEF ScanReport, ScanRspReceived
  <2>4. Sound(l, AdvReceived(l, pdu))
    BY <2>2, <2>3, InitiateIsSound DEF AdvReceived
  <2> QED
    BY <2>2, <2>3, <2>4 DEF vbt_ll_pdu_from_medium, AdvPdus, DataPdus
<1>4. CASE \E a, b \in Addrs : pdu = Pdu("SCAN_REQ", a, b, None, None)
  <2>1. pdu.type = "SCAN_REQ"
    BY <1>4 DEF Pdu
  <2>2. Sound(l, ScanReqReceived(l, pdu))
    BY <1>1 DEF ScanReqReceived
  <2> QED
    BY <2>1, <2>2 DEF vbt_ll_pdu_from_medium, AdvPdus, DataPdus
<1>5. CASE \E a, b \in Addrs, aa \in AAs : pdu = Pdu("CONNECT_IND", a, b, aa, None)
  <2>1. pdu.type = "CONNECT_IND" /\ pdu.tx \in Addrs /\ pdu.aa \in AAs
    BY <1>5 DEF Pdu
  <2>2. Sound(l, ConnectIndReceived(l, pdu))
    BY <2>1, ConnectIndIsSound
  <2> QED
    BY <2>1, <2>2 DEF vbt_ll_pdu_from_medium, AdvPdus, DataPdus
<1>6. CASE pdu.type \in DataPdus
  <2> DEFINE h == conn_by_aa(l, pdu.aa)
  <2>1. CASE h = NoHandle
    BY <1>1, <1>6, <2>1 DEF vbt_ll_pdu_from_medium, AdvPdus, DataPdus, DataReceived
  <2>2. CASE h # NoHandle
    <3>1. h \in Handles /\ l.conns[h].active
      BY <2>2, FoundIsActive
    <3>2. Silent(<<acl_to_host(h, pdu.body)>>)
      BY DEF Silent, acl_to_host, Event, News
    <3>3. Sound(l, DataReceived(l, pdu))
      BY <2>2, <3>1, <3>2, ControlIsSound DEF DataReceived
    <3> QED
      BY <1>6, <3>3 DEF vbt_ll_pdu_from_medium, AdvPdus, DataPdus
  <2> QED
    BY <2>1, <2>2
<1>7. \/ \E t \in AdvPdus \cup {"SCAN_RSP"}, a \in Addrs : pdu = Pdu(t, a, None, None, None)
      \/ \E a, b \in Addrs : pdu = Pdu("SCAN_REQ", a, b, None, None)
      \/ \E a, b \in Addrs, aa \in AAs : pdu = Pdu("CONNECT_IND", a, b, aa, None)
      \/ pdu.type \in DataPdus
  BY DEF AirPdus, DataPdus, Pdu
<1> QED
  BY <1>3, <1>4, <1>5, <1>6, <1>7

LEMMA TickIsSound ==
  ASSUME NEW l, Good(l)
  PROVE  Sound(l, vbt_ll_tick(l))
BY IgnoreIsSound, RepliedIsSilent DEF vbt_ll_tick, Ignore

-----------------------------------------------------------------------------
(* What the host makes of the events. *)

\* What the host should know of an entry.
View(c) == IF c.active THEN [role |-> c.role, peer |-> c.peer_addr, encrypted |-> c.encrypted]
                       ELSE Unknown

LEMMA ToldNothing ==
  ASSUME NEW view \in [Handles -> HostConn], NEW hci, Silent(hci)
  PROVE  Told(view, hci) = view
<1>1. ASSUME NEW h \in Handles, NEW e \in News PROVE ~Says(hci, e, h)
  BY DEF Says, Silent
<1>2. ASSUME NEW h \in Handles PROVE Told(view, hci)[h] = view[h]
  BY <1>1 DEF Told, News
<1> QED
  BY <1>2, Zenon DEF Told

LEMMA ToldConnected ==
  ASSUME NEW view \in [Handles -> HostConn], NEW h \in Handles, NEW v \in HostConn,
         ~v.encrypted
  PROVE  Told(view, <<evt_le_conn_complete(h, v.role, v.peer)>>) = [view EXCEPT ![h] = v]
<1> DEFINE hci == <<evt_le_conn_complete(h, v.role, v.peer)>>
<1>0. v = [role |-> v.role, peer |-> v.peer, encrypted |-> FALSE]
  BY DEF HostConn
<1>1. /\ DOMAIN hci = {1} /\ hci[1].evt = "conn" /\ hci[1].handle = h
      /\ hci[1].arg.role = v.role /\ hci[1].arg.peer = v.peer
  BY DEF evt_le_conn_complete, Event
<1> HIDE DEF hci
<1>2. ASSUME NEW g \in Handles
      PROVE  /\ ~Says(hci, "disconn", g) /\ ~Says(hci, "encrypted", g)
             /\ Says(hci, "conn", g) <=> g = h
  BY <1>1 DEF Says
<1>3. (CHOOSE j \in DOMAIN hci : hci[j].evt = "conn" /\ hci[j].handle = h) = 1
  BY <1>1
<1>4. Told(view, hci)[h] = v
  BY <1>0, <1>1, <1>2, <1>3 DEF Told
<1>5. ASSUME NEW g \in Handles, g # h PROVE Told(view, hci)[g] = view[g]
  BY <1>2, <1>5 DEF Told
<1> DEFINE told == Told(view, hci)
<1>6. told = [g \in Handles |-> told[g]]
  BY DEF Told
<1> HIDE DEF told
<1>7. told = [view EXCEPT ![h] = v]
  BY <1>4, <1>5, <1>6, Zenon DEF told
<1> QED
  BY <1>7 DEF told, hci

LEMMA ToldDisconnected ==
  ASSUME NEW view \in [Handles -> HostConn], NEW h \in Handles, NEW hci,
         hci = <<evt_disconn_complete(h)>> \/ hci = <<Replied, evt_disconn_complete(h)>>
  PROVE  Told(view, hci) = [view EXCEPT ![h] = Unknown] /\ ~Connected(hci)
<1>1. ASSUME NEW g \in Handles
      PROVE  /\ ~Says(hci, "conn", g) /\ ~Says(hci, "encrypted", g)
             /\ Says(hci, "disconn", g) <=> g = h
  BY DEF Says, evt_disconn_complete, Replied, Event
<1>2. ASSUME NEW g \in Handles
      PROVE  Told(view, hci)[g] = IF g = h THEN Unknown ELSE view[g]
  BY <1>1 DEF Told
<1>3. ~Connected(hci)
  BY DEF Connected, evt_disconn_complete, Replied, Event
<1> QED
  BY <1>2, <1>3, Zenon DEF Told

LEMMA ToldEncrypted ==
  ASSUME NEW view \in [Handles -> HostConn], NEW h \in Handles, NEW c,
         ~c.encrypted \/ view[h].encrypted, c.encrypted \in BOOLEAN
  PROVE  /\ Told(view, EncryptedEvents(c, h)) = [view EXCEPT ![h].encrypted = TRUE]
         /\ ~Connected(EncryptedEvents(c, h))
<1>1. CASE c.encrypted
  <2>1. EncryptedEvents(c, h) = <<>> /\ Silent(<<>>)
    BY <1>1 DEF EncryptedEvents, Silent
  <2>2. [view EXCEPT ![h].encrypted = TRUE] = view
    BY <1>1 DEF HostConn
  <2> QED
    BY <2>1, <2>2, ToldNothing DEF Connected
<1>2. CASE ~c.encrypted
  <2> DEFINE hci == <<evt_encrypt_change(h)>>
  <2>1. EncryptedEvents(c, h) = hci
    BY <1>2 DEF EncryptedEvents
  <2>2. ASSUME NEW g \in Handles
        PROVE  /\ ~Says(hci, "conn", g) /\ ~Says(hci, "disconn", g)
               /\ Says(hci, "encrypted", g) <=> g = h
    BY DEF Says, evt_encrypt_change, Event
  <2>3. ~Connected(hci)
    BY DEF Connected, evt_encrypt_change, Event
  <2> HIDE DEF hci
  <2>4. ASSUME NEW g \in Handles
        PROVE  Told(view, hci)[g] =
                 IF g = h THEN [view[g] EXCEPT !.encrypted = TRUE] ELSE view[g]
    BY <2>2 DEF Told
  <2> QED
    BY <2>1, <2>3, <2>4, Zenon DEF Told
<1> QED
  BY <1>1, <1>2

-----------------------------------------------------------------------------
(* A sound call preserves the invariant. *)

\* The connections before and after a step agree wherever both are open.
Stable(old, new) ==
  \A h \in Handles : old[h].active /\ new[h].active =>
    /\ new[h].access_addr = old[h].access_addr
    /\ new[h].role = old[h].role
    /\ new[h].peer_addr = old[h].peer_addr

\* The part of the invariant about the entries, which an effect on conns[] disturbs.
Entries(conns, draws, known) ==
  /\ \A h \in Handles : known[h] = View(conns[h])
  /\ \A h \in Handles : conns[h].active /\ conns[h].role = "central" =>
       \E k \in 1 .. draws : conns[h].access_addr = Draw(BdAddr, k)
  /\ \A g, h \in Handles :
       /\ conns[g].active /\ conns[h].active
       /\ conns[g].role = "central" /\ conns[h].role = "central"
       /\ conns[g].access_addr = conns[h].access_addr
       => g = h

LEMMA InvByEntries ==
  ControllerInv <=> TypeOK /\ StateMatchesEnables /\ Entries(ll.conns, ll.draws, host.conns)
BY DEF ControllerInv, Entries, HostViewAgrees, CentralsAreDrawn, OwnAccessAddressesDiffer,
       Active, View

LEMMA InvByEntriesPrime ==
  ControllerInv' <=> TypeOK' /\ StateMatchesEnables' /\ Entries(ll'.conns, ll'.draws, host'.conns)
BY DEF ControllerInv, Entries, HostViewAgrees, CentralsAreDrawn, OwnAccessAddressesDiffer,
       Active, View

LEMMA EffectKeepsEntries ==
  ASSUME NEW l \in LL, NEW known \in [Handles -> HostConn], NEW r, r.ll \in LL,
         r.ll.draws <= MaxDraws, Effect(l, r), Entries(l.conns, l.draws, known)
  PROVE  /\ Told(known, r.hci) \in [Handles -> HostConn]
         /\ Entries(r.ll.conns, r.ll.draws, Told(known, r.hci))
         /\ Stable(l.conns, r.ll.conns)
<1> DEFINE goal == /\ Told(known, r.hci) \in [Handles -> HostConn]
                   /\ Entries(r.ll.conns, r.ll.draws, Told(known, r.hci))
                   /\ Stable(l.conns, r.ll.conns)
<1>0. /\ l.conns \in [Handles -> LLConn] /\ r.ll.conns \in [Handles -> LLConn]
      /\ l.draws \in Nat /\ r.ll.draws \in Nat
  BY DEF LL
<1>1. CASE Keeps(l, r)
  <2>1. Told(known, r.hci) = known
    BY <1>1, ToldNothing DEF Keeps
  <2> QED
    BY <1>0, <1>1, <2>1 DEF Keeps, Entries, Stable
<1>2. ASSUME NEW h \in Handles, NEW c \in LLConn, Opens(l, r, h, c) PROVE goal
  <2>1. View(c) = [role |-> c.role, peer |-> c.peer_addr, encrypted |-> c.encrypted]
    BY <1>2 DEF Opens, View
  <2>2. View(c) \in HostConn /\ Told(known, r.hci) = [known EXCEPT ![h] = View(c)]
    <3> DEFINE v == View(c)
    <3>1. v \in HostConn
      BY <2>1 DEF HostConn, LLConn
    <3>2. v.role = c.role /\ v.peer = c.peer_addr
      BY <2>1
    <3>3. ~v.encrypted
      BY <1>2, <2>1 DEF Opens
    <3>4. r.hci = <<evt_le_conn_complete(h, c.role, c.peer_addr)>>
      BY <1>2 DEF Opens
    <3> HIDE DEF v
    <3>5. Told(known, <<evt_le_conn_complete(h, v.role, v.peer)>>) = [known EXCEPT ![h] = v]
      BY <3>1, <3>3, ToldConnected, Zenon
    <3>6. Told(known, r.hci) = [known EXCEPT ![h] = v]
      BY <3>2, <3>4, <3>5
    <3> QED
      BY <3>1, <3>6 DEF v
  <2>3. /\ r.ll.conns = [l.conns EXCEPT ![h] = c] /\ ~l.conns[h].active /\ c.active
        /\ \/ c.role = "peripheral" /\ r.ll.draws = l.draws
           \/ c.role = "central" /\ r.ll.draws = l.draws + 1
              /\ c.access_addr = Draw(BdAddr, l.draws + 1)
    BY <1>2 DEF Opens
  <2>4. \A g \in Handles : Told(known, r.hci)[g] = View(r.ll.conns[g])
    BY <1>0, <2>2, <2>3 DEF Entries
  <2>5. \A g \in Handles : r.ll.conns[g].active /\ r.ll.conns[g].role = "central" =>
          \E k \in 1 .. r.ll.draws : r.ll.conns[g].access_addr = Draw(BdAddr, k)
    BY <1>0, <2>3 DEF Entries
  <2>6. ASSUME NEW g \in Handles, g # h, l.conns[g].active, l.conns[g].role = "central",
               c.role = "central"
        PROVE  l.conns[g].access_addr # c.access_addr
    <3>1. PICK k \in 1 .. l.draws : l.conns[g].access_addr = Draw(BdAddr, k)
      BY <2>6 DEF Entries
    <3>2. c.access_addr = Draw(BdAddr, l.draws + 1) /\ l.draws + 1 <= MaxDraws
      BY <2>3, <2>6
    <3>3. k \in 1 .. MaxDraws /\ l.draws + 1 \in 1 .. MaxDraws /\ k # l.draws + 1
      BY <1>0, <3>2, ControllerAssumption
    <3> QED
      BY <3>1, <3>2, <3>3, DrawAssumption
  <2>7. ASSUME NEW f \in Handles, NEW g \in Handles,
               r.ll.conns[f].active, r.ll.conns[g].active,
               r.ll.conns[f].role = "central", r.ll.conns[g].role = "central",
               r.ll.conns[f].access_addr = r.ll.conns[g].access_addr
        PROVE  f = g
    BY <1>0, <2>3, <2>6, <2>7 DEF Entries
  <2> QED
    BY <1>0, <2>2, <2>3, <2>4, <2>5, <2>7 DEF Entries, Stable
<1>3. ASSUME NEW h \in Handles, Closes(l, r, h) PROVE goal
  <2>1. Told(known, r.hci) = [known EXCEPT ![h] = View(FreeConn)]
    BY <1>3, ToldDisconnected, Zenon DEF Closes, View, FreeConn
  <2>2. r.ll.conns = [l.conns EXCEPT ![h] = FreeConn] /\ r.ll.draws = l.draws
    BY <1>3 DEF Closes
  <2>3. View(FreeConn) \in HostConn /\ ~FreeConn.active
    BY DEF View, FreeConn, Unknown, HostConn
  <2> QED
    BY <1>0, <2>1, <2>2, <2>3 DEF Entries, Stable
<1>4. ASSUME NEW h \in Handles, Shakes(l, r, h) PROVE goal
  <2>1. Told(known, r.hci) = known
    BY <1>4, ToldNothing DEF Shakes
  <2> DEFINE d == [l.conns[h] EXCEPT !.encrypting = TRUE]
  <2>2. r.ll.conns = [l.conns EXCEPT ![h] = d] /\ r.ll.draws = l.draws
    BY <1>4 DEF Shakes
  <2>3. /\ d.active = l.conns[h].active /\ d.role = l.conns[h].role
        /\ d.peer_addr = l.conns[h].peer_addr /\ d.access_addr = l.conns[h].access_addr
        /\ d.encrypted = l.conns[h].encrypted
    BY <1>0 DEF LLConn
  <2>4. View(d) = View(l.conns[h])
    BY <2>3 DEF View
  <2> HIDE DEF d
  <2> QED
    BY <1>0, <2>1, <2>2, <2>3, <2>4 DEF Entries, Stable
<1>5. ASSUME NEW h \in Handles, Encrypts(l, r, h) PROVE goal
  <2> DEFINE d == [l.conns[h] EXCEPT !.encrypted = TRUE]
  <2>1. /\ r.ll.conns = [l.conns EXCEPT ![h] = d] /\ r.ll.draws = l.draws /\ l.conns[h].active
        /\ r.hci = EncryptedEvents(l.conns[h], h)
    BY <1>5 DEF Encrypts
  <2>2. /\ d.active = l.conns[h].active /\ d.role = l.conns[h].role
        /\ d.peer_addr = l.conns[h].peer_addr /\ d.access_addr = l.conns[h].access_addr
        /\ d.encrypted = TRUE /\ l.conns[h].encrypted \in BOOLEAN
    BY <1>0 DEF LLConn
  <2> HIDE DEF d
  <2>3. known[h] = [role |-> l.conns[h].role, peer |-> l.conns[h].peer_addr,
                    encrypted |-> l.conns[h].encrypted]
    BY <2>1 DEF Entries, View
  <2>4. Told(known, r.hci) = [known EXCEPT ![h].encrypted = TRUE]
    <3>1. known[h].encrypted = l.conns[h].encrypted
      BY <2>3
    <3>2. ~l.conns[h].encrypted \/ known[h].encrypted
      BY <2>2, <3>1
    <3> DEFINE e == l.conns[h]
    <3>3. e.encrypted \in BOOLEAN /\ (~e.encrypted \/ known[h].encrypted)
      BY <2>2, <3>2
    <3> HIDE DEF e
    <3>4. Told(known, EncryptedEvents(e, h)) = [known EXCEPT ![h].encrypted = TRUE]
      BY <3>3, ToldEncrypted
    <3> QED
      BY <2>1, <3>4 DEF e
  <2>5. View(d) \in HostConn /\ [known[h] EXCEPT !.encrypted = TRUE] = View(d)
    <3> DEFINE v == [known[h] EXCEPT !.encrypted = TRUE]
    <3>1. v \in HostConn
      BY Zenon DEF HostConn
    <3>2. v.encrypted = TRUE
      BY DEF HostConn
    <3>3. v.role = l.conns[h].role /\ v.peer = l.conns[h].peer_addr
      BY <2>3
    <3>4. d.active /\ d \in LLConn
      BY <1>0, <2>1, <2>2
    <3>5. View(d) = [role |-> d.role, peer |-> d.peer_addr, encrypted |-> d.encrypted]
      BY <3>4 DEF View
    <3>6. View(d) \in HostConn
      BY <3>4, <3>5 DEF HostConn, LLConn
    <3>7. View(d).role = v.role /\ View(d).peer = v.peer
      BY <2>2, <3>3, <3>5
    <3>8. View(d).encrypted = v.encrypted
      <4>1. View(d).encrypted = d.encrypted
        BY <3>5
      <4> QED
        BY <2>2, <3>2, <4>1, Zenon
    <3> HIDE DEF v
    <3>9. v = View(d)
      BY <3>1, <3>6, <3>7, <3>8 DEF HostConn
    <3> QED
      BY <3>6, <3>9 DEF v
  <2> QED
    <3>1. Told(known, r.hci) = [known EXCEPT ![h] = View(d)]
      BY <2>4, <2>5, Zenon
    <3>2. Entries(r.ll.conns, r.ll.draws, Told(known, r.hci))
      BY <1>0, <2>1, <2>2, <3>1 DEF Entries
    <3> QED
      BY <1>0, <2>1, <2>2, <2>5, <3>1, <3>2 DEF Stable
<1> QED
  BY <1>1, <1>2, <1>3, <1>4, <1>5 DEF Effect

LEMMA InvIsGood ==
  ASSUME ControllerInv
  PROVE  /\ Good(ll) /\ host.conns \in [Handles -> HostConn] /\ host.pending \in BOOLEAN
         /\ host = [conns |-> host.conns, pending |-> host.pending]
BY DEF ControllerInv, TypeOK, StateMatchesEnables, Good

LEMMA SoundStep ==
  ASSUME ControllerInv, NEW r, Sound(ll, r), Step(r)
  PROVE  ControllerInv' /\ Stable(ll.conns, ll'.conns)
<1>1. /\ r.ll \in LL /\ r.ll.public_addr = ll.public_addr /\ r.ll.draws <= MaxDraws
      /\ Effect(ll, r) /\ States_OK(ll, r)
  BY DEF Step, Sound
<1>2. ll' = r.ll /\ host'.conns = Told(host.conns, r.hci)
      /\ host'.pending = (host.pending /\ ~Connected(r.hci))
  BY DEF Step
<1>3. Entries(ll.conns, ll.draws, host.conns) /\ ll \in LL
  BY InvByEntries, InvIsGood DEF Good
<1>4. /\ host'.conns \in [Handles -> HostConn]
      /\ Entries(ll'.conns, ll'.draws, host'.conns)
      /\ Stable(ll.conns, ll'.conns)
  BY <1>1, <1>2, <1>3, InvIsGood, EffectKeepsEntries
<1>5. TypeOK'
  <2>1. host' = [conns |-> host'.conns, pending |-> host'.pending]
    BY DEF Step
  <2>2. host'.pending \in BOOLEAN
    BY <1>2
  <2>3. host' \in [conns : [Handles -> HostConn], pending : BOOLEAN]
    BY <1>4, <2>1, <2>2
  <2>4. ll'.public_addr = BdAddr
    BY <1>1, <1>2, InvIsGood DEF Good
  <2> QED
    BY <1>1, <1>2, <2>3, <2>4 DEF TypeOK
<1>6. StateMatchesEnables'
  <2>1. ll'.state = "INITIATING" => host'.pending
    BY <1>1, <1>2, Zenon DEF States_OK, ControllerInv, StateMatchesEnables
  <2> QED
    BY <1>1, <1>2, <2>1 DEF States_OK, StateMatchesEnables
<1> QED
  BY <1>4, <1>5, <1>6, InvByEntriesPrime

LEMMA ResetStep ==
  ASSUME ControllerInv, HostReset
  PROVE  ControllerInv' /\ Stable(ll.conns, ll'.conns)
<1>1. ll \in LL /\ ll.public_addr = BdAddr /\ ll.draws <= MaxDraws
  BY DEF ControllerInv, TypeOK
<1>2. ll' = [ll EXCEPT !.conns = [h \in Handles |-> FreeConn], !.state = "IDLE",
                       !.adv_enabled = FALSE, !.scan_enabled = FALSE]
  BY DEF HostReset, Reset, Result
<1>3. /\ ll'.conns = [h \in Handles |-> FreeConn] /\ ll'.state = "IDLE"
      /\ ll'.draws = ll.draws /\ ll'.public_addr = ll.public_addr
  BY <1>1, <1>2 DEF LL
<1>4. ll' \in LL
  BY <1>1, <1>2, FreeIsConn, Zenon DEF LL, States
<1>5. host' = [conns |-> [h \in Handles |-> Unknown], pending |-> FALSE]
  BY DEF HostReset
<1>6. Unknown \in HostConn /\ View(FreeConn) = Unknown /\ ~FreeConn.active
  BY DEF Unknown, HostConn, View, FreeConn
<1>7. host' \in [conns : [Handles -> HostConn], pending : BOOLEAN]
  BY <1>5, <1>6
<1>8. TypeOK'
  BY <1>1, <1>3, <1>4, <1>7 DEF TypeOK
<1>9. Entries(ll'.conns, ll'.draws, host'.conns) /\ Stable(ll.conns, ll'.conns)
  BY <1>3, <1>5, <1>6 DEF Entries, Stable
<1> QED
  BY <1>3, <1>8, <1>9, InvByEntriesPrime DEF StateMatchesEnables

LEMMA CreateConnStep ==
  ASSUME ControllerInv, NEW peer \in Addrs, NEW own \in OwnTypes, HostCreateConn(peer, own)
  PROVE  ControllerInv' /\ Stable(ll.conns, ll'.conns)
<1>1. ll \in LL /\ ll.public_addr = BdAddr /\ ll.draws <= MaxDraws
  BY DEF ControllerInv, TypeOK
<1>2. ll' = [ll EXCEPT !.init_peer_addr = peer, !.init_own_addr_type = own,
                       !.state = "INITIATING"]
  BY DEF HostCreateConn, handle_le_create_conn, Result
<1>3. /\ ll'.conns = ll.conns /\ ll'.state = "INITIATING"
      /\ ll'.draws = ll.draws /\ ll'.public_addr = ll.public_addr
  BY <1>1, <1>2 DEF LL
<1>4. ll' \in LL
  BY <1>1, <1>2, ControllerAssumption, Zenon DEF LL, States
<1>5. host'.conns = host.conns /\ host'.pending = TRUE
      /\ host' \in [conns : [Handles -> HostConn], pending : BOOLEAN]
  BY Zenon DEF HostCreateConn, ControllerInv, TypeOK
<1>6. TypeOK'
  BY <1>1, <1>3, <1>4, <1>5 DEF TypeOK
<1>7. StateMatchesEnables'
  BY <1>3, <1>5 DEF StateMatchesEnables
<1>8. Entries(ll'.conns, ll'.draws, host'.conns)
  BY <1>3, <1>5, InvByEntries
<1> QED
  BY <1>3, <1>6, <1>7, <1>8, InvByEntriesPrime DEF Stable

-----------------------------------------------------------------------------
(* The theorems *)

LEMMA InitInv ==
  ASSUME Init PROVE ControllerInv
<1>1. ll = vbt_ll_new(BdAddr) /\ ll.state = "IDLE" /\ ll.draws = 0
      /\ ll.conns = [h \in Handles |-> FreeConn] /\ ll.public_addr = BdAddr
  BY DEF Init, vbt_ll_new
<1>2. ll \in LL
  BY <1>1, ControllerAssumption, FreeIsConn DEF vbt_ll_new, LL, States, AdvTypes
<1>3. Unknown \in HostConn /\ View(FreeConn) = Unknown /\ ~FreeConn.active
  BY DEF Unknown, HostConn, View, FreeConn
<1>4. TypeOK
  BY <1>1, <1>2, <1>3, ControllerAssumption DEF TypeOK, Init
<1>5. Entries(ll.conns, ll.draws, host.conns)
  BY <1>1, <1>3 DEF Entries, Init
<1> QED
  BY <1>1, <1>4, <1>5, InvByEntries DEF StateMatchesEnables

LEMMA NextInv ==
  ASSUME ControllerInv, [Next]_vars
  PROVE  ControllerInv' /\ Stable(ll.conns, ll'.conns)
<1> USE InvIsGood, SoundStep
<1>1. CASE HostReset
  BY <1>1, ResetStep
<1>2. CASE \E peer \in Addrs, own \in OwnTypes : HostCreateConn(peer, own)
  BY <1>2, CreateConnStep
<1>3. CASE HostAddresses
  <2>1. /\ \A a \in HostRandoms : Sound(ll, SetRandomAddress(ll, a))
        /\ \A t \in HostAdvTypes, own \in OwnTypes : Sound(ll, SetAdvParameters(ll, t, own))
        /\ \A t \in HostScanTypes, own \in OwnTypes : Sound(ll, SetScanParameters(ll, t, own))
    <3>1. BdAddr \in Addrs /\ 0 \in AdvTypes /\ 0 \in {0, 1} /\ TRUE \in BOOLEAN
      BY ControllerAssumption DEF AdvTypes
    <3> QED
      BY <3>1, ControllerAssumption, SettersAreSound
  <2> QED
    BY <1>3, <2>1 DEF HostAddresses
<1>4. CASE HostEnables
  <2>1. /\ \A on \in BOOLEAN : Sound(ll, SetAdvEnable(ll, on)) /\ Sound(ll, SetScanEnable(ll, on))
        /\ Sound(ll, CreateConnCancel(ll))
    <3>1. BdAddr \in Addrs /\ 0 \in AdvTypes /\ 0 \in {0, 1}
      BY ControllerAssumption DEF AdvTypes
    <3> QED
      BY <3>1, SettersAreSound
  <2> QED
    BY <1>4, <2>1 DEF HostEnables
<1>5. CASE Step(LERand(ll))
  <2>1. BdAddr \in Addrs /\ 0 \in AdvTypes /\ 0 \in {0, 1} /\ TRUE \in BOOLEAN
    BY ControllerAssumption DEF AdvTypes
  <2>2. Sound(ll, LERand(ll))
    BY <2>1, SettersAreSound
  <2> QED
    BY <1>5, <2>2
<1>6. CASE \E h \in Handles : HostOnHandle(h)
  BY <1>6, HandleCommandsAreSound DEF HostOnHandle
<1>7. CASE \E pdu \in AirPdus : Step(vbt_ll_pdu_from_medium(ll, pdu))
  BY <1>7, PduIsSound
<1>8. CASE Step(vbt_ll_tick(ll))
  BY <1>8, TickIsSound
<1>9. CASE UNCHANGED vars
  <2>1. ll' = ll /\ host' = host
    BY <1>9 DEF vars
  <2>2. TypeOK' /\ StateMatchesEnables'
    BY <2>1 DEF ControllerInv, TypeOK, StateMatchesEnables
  <2> QED
    BY <2>1, <2>2, InvByEntries, InvByEntriesPrime DEF Stable
<1> QED
  BY <1>1, <1>2, <1>3, <1>4, <1>5, <1>6, <1>7, <1>8, <1>9 DEF Next

\* The inductive invariant holds in every behaviour of the core.
THEOREM ControllerInvariant == Spec => []ControllerInv
BY InitInv, NextInv, PTL DEF Spec

\* The core and the host's view stay within their types for every number of
\* connections, addresses and draws (vbt_ll.h, struct vbt_ll).
THEOREM ControllerTypes == Spec => []TypeOK
BY ControllerInvariant, PTL DEF ControllerInv

\* The events that vbt_ll.c sends never leave the host with a wrong picture of conns[],
\* whatever commands and PDUs come in whatever order.
THEOREM HostIsToldTheTruth == Spec => []HostViewAgrees
BY ControllerInvariant, PTL DEF ControllerInv

\* The state variable agrees with the enable flags and with the host's wait, however
\* advertising, scanning and initiating are switched.
THEOREM StateIsConsistent == Spec => []StateMatchesEnables
BY ControllerInvariant, PTL DEF ControllerInv

\* Two connections a core initiated never share an Access Address, as long as
\* ll_rand32 does not repeat itself within MaxDraws numbers.
THEOREM CentralsAreDistinct == Spec => []OwnAccessAddressesDiffer
BY ControllerInvariant, PTL DEF ControllerInv

\* No command and no PDU gives a handle that is in use to another connection.
THEOREM HandlesAreStable == Spec => HandleIsStable
<1>1. ControllerInv /\ [Next]_vars =>
        [\A h \in Handles : ll.conns[h].active /\ ll'.conns[h].active =>
           /\ ll'.conns[h].access_addr = ll.conns[h].access_addr
           /\ ll'.conns[h].role = ll.conns[h].role
           /\ ll'.conns[h].peer_addr = ll.conns[h].peer_addr]_vars
  BY NextInv DEF Stable
<1> QED
  BY <1>1, ControllerInvariant, PTL DEF Spec, HandleIsStable
=============================================================================
