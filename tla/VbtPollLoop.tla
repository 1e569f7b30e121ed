---------------------------- MODULE VbtPollLoop ------------------------------
(***************************************************************************)
(* The hub's main loop: a table of pollfd rows is built from the open      *)
(* peers and control clients, poll fills in their events, and then, after  *)
(* new connections may have taken slots, the tables are walked again and   *)
(* each row is mapped back to a slot.  What a connection carries is left   *)
(* to VbtMedium, VbtPeerIO and VbtConfig: here a message is a message.     *)
(*   kind    "unix" (a node), "tcp" (a hub that dialled in), "trunk" (a    *)
(*           hub dialled by this one), "ctl" (a control client)            *)
(*   client  "idle"; "open"; "gone": the other end is closed               *)
(*   fd      the hub's descriptor of a connection, lowest free number      *)
(*   want    is output waiting?  (want_write, or outbuf_used of a client)  *)
(*   room    does the other end take output?                               *)
(* Clients act between any two slots of a walk.                            *)
(***************************************************************************)
EXTENDS Integers, Sequences, FiniteSets, FiniteSetsExt, Functions

CONSTANTS
  Conns,        \* connections that are ever made
  Populations,  \* the kinds they may have
  Stalled,      \* those whose other end takes no output at first
  MaxPeers,     \* MAX_PEERS
  MaxCtl,       \* MAX_CTL_CLIENTS
  MaxMsgs,      \* bound: messages a client sends
  None

ASSUME ConnsAssumption ==
  /\ IsFiniteSet(Conns) /\ None \notin Conns \cup Nat
  /\ Populations \subseteq [Conns -> {"unix", "tcp", "trunk", "ctl"}]
  /\ MaxPeers \in Nat \ {0} /\ MaxCtl \in Nat \ {0} /\ MaxMsgs \in Nat

VARIABLES
  kind, client,
  queue,     \* connections that wait to be accepted
  left,      \* messages a client will still send
  msgs,      \* messages that wait to be read
  room, fd, want,
  peers,     \* peers[0 .. num_peers - 1], a connection or None
  ctl,       \* ctl_clients
  quit,      \* control clients with active = 2
  up,        \* the connection of upstream_state.peer_idx
  ended,     \* connections the hub closed because it saw the other end closed
  rows,      \* rows of peers the walk has not used up
  ctl_rows,  \* and those of control clients
  i          \* slot the walk has come to

far   == <<kind, client, queue, left, room>>
hub   == <<fd, want, peers, ctl, quit, up, ended, msgs>>
walk  == <<rows, ctl_rows, i>>
vars  == <<far, hub, walk>>

Init ==
  /\ kind \in Populations
  /\ client = [c \in Conns |-> "idle"] /\ queue = {} /\ left = [c \in Conns |-> MaxMsgs]
  /\ msgs = [c \in Conns |-> 0] /\ room = [c \in Conns |-> c \notin Stalled]
  /\ fd = [c \in Conns |-> None] /\ want = [c \in Conns |-> FALSE]
  /\ peers = <<>> /\ ctl = [k \in 1 .. MaxCtl |-> None] /\ quit = {} /\ up = None
  /\ rows = <<>> /\ ctl_rows = <<>> /\ i = 1 /\ ended = {}

-----------------------------------------------------------------------------
(* The other ends *)

Connect(c) ==
  /\ client[c] = "idle" /\ kind[c] # "trunk"
  /\ client' = [client EXCEPT ![c] = "open"] /\ queue' = queue \cup {c}
  /\ UNCHANGED <<kind, left, room, hub, walk>>

Send(c) ==
  /\ client[c] = "open" /\ left[c] > 0
  /\ left' = [left EXCEPT ![c] = @ - 1] /\ msgs' = [msgs EXCEPT ![c] = @ + 1]
  /\ UNCHANGED <<kind, client, queue, room, fd, want, peers, ctl, quit, up, ended, walk>>

Resume(c) ==
  /\ client[c] = "open" /\ ~room[c]
  /\ room' = [room EXCEPT ![c] = TRUE]
  /\ UNCHANGED <<kind, client, queue, left, hub, walk>>

Close(c) ==
  /\ client[c] = "open"
  /\ client' = [client EXCEPT ![c] = "gone"]
  /\ UNCHANGED <<kind, queue, left, room, hub, walk>>

-----------------------------------------------------------------------------
(* What the handlers do, on a record of the hub's state *)

Hub == [fd |-> fd, want |-> want, peers |-> peers, ctl |-> ctl, quit |-> quit, up |-> up,
        ended |-> ended, msgs |-> msgs]

HubBecomes(h) ==
  /\ fd' = h.fd /\ want' = h.want /\ peers' = h.peers /\ ctl' = h.ctl /\ quit' = h.quit
  /\ up' = h.up /\ ended' = h.ended /\ msgs' = h.msgs

\* The open slots of a table, in the order of the table.
Open(table) ==
  LET open[k \in 0 .. Len(table)] ==
        IF k = 0 THEN <<>>
        ELSE IF table[k] = None THEN open[k - 1] ELSE Append(open[k - 1], table[k])
  IN  open[Len(table)]
Free(table) == {k \in DOMAIN table : table[k] = None}
LowestFd(h) == Min({n \in 1 .. Cardinality(Conns) : \A c \in Conns : h.fd[c] # n})

\* A slot below num_peers that is closed, or a new one.
peer_alloc(h, c) ==
  IF Free(h.peers) = {} /\ Len(h.peers) >= MaxPeers THEN h
  ELSE [h EXCEPT !.fd[c] = LowestFd(h),
                 !.peers = IF Free(@) = {} THEN Append(@, c) ELSE [@ EXCEPT ![Min(Free(@))] = c]]

accept_ctl(h, c) ==
  IF Free(h.ctl) = {} THEN h
  ELSE [h EXCEPT !.fd[c] = LowestFd(h), !.ctl[Min(Free(h.ctl))] = c]

\* One connection of a listener, None if it has not reported any; without a free slot
\* the connection is closed again.
accept(h, c) ==
  IF c = None THEN h
  ELSE IF kind[c] = "ctl" THEN accept_ctl(h, c)
  ELSE peer_alloc(h, c)

upstream_connect(h, c) ==
  LET p == peer_alloc(h, c)
  IN  IF c = None \/ p = h THEN h ELSE [p EXCEPT !.up = c]

\* Mutant: the trunk's slot is forgotten in upstream_state.
peers_close_KeepUp(h, C) ==
  [h EXCEPT !.fd    = [c \in Conns |-> IF c \in C THEN None ELSE @[c]],
            !.want  = [c \in Conns |-> c \notin C /\ @[c]],
            !.peers = [k \in DOMAIN @ |-> IF @[k] \in C THEN None ELSE @[k]],
            !.ended = @ \cup C]

\* The tables without the peers of C.
peers_close(h, C) ==
  [h EXCEPT !.fd    = [c \in Conns |-> IF c \in C THEN None ELSE @[c]],
            !.want  = [c \in Conns |-> c \notin C /\ @[c]],
            !.peers = [k \in DOMAIN @ |-> IF @[k] \in C THEN None ELSE @[k]],
            !.up    = IF @ \in C THEN None ELSE @,
            !.ended = @ \cup C]

peer_close(h, c) == peers_close(h, {c})

\* POLLOUT: what waits is written; a write to a closed end fails.
peer_flush(h, c) ==
  IF ~h.want[c] THEN h
  ELSE IF client[c] = "gone" THEN peer_close(h, c)
  ELSE [h EXCEPT !.want[c] = ~room[c]]

\* A message goes to the peers of D: to a closed end the write fails, unless the
\* message is queued behind others; an end without room makes it wait.
forward_frame(h, D) ==
  peers_close([h EXCEPT !.want = [c \in Conns |-> @[c] \/ (c \in D /\ ~room[c])]],
              {d \in D : client[d] = "gone" /\ ~h.want[d]})

\* POLLIN: a message is read and forwarded, or it is the end of file, or nothing.
peer_readable(h, c, D) ==
  IF h.msgs[c] > 0 THEN forward_frame([h EXCEPT !.msgs[c] = @ - 1], D)
  ELSE IF client[c] = "gone" THEN peer_close(h, c)
  ELSE h

\* What a row's events do to peer c.
ServePeer(h, c, re, D) ==
  IF re.hup THEN peer_close(h, c)
  ELSE LET f == IF re.out THEN peer_flush(h, c) ELSE h
       IN  IF f.fd[c] # None /\ re.in THEN peer_readable(f, c, D) ELSE f

\* The control client in slot k is closed.
ctl_close(h, k) ==
  [h EXCEPT !.fd[h.ctl[k]] = None, !.want[h.ctl[k]] = FALSE, !.quit = @ \ {h.ctl[k]},
            !.ctl[k] = None]

\* A command is answered (bye: it is QUIT), or it is the end of file, or nothing.
ctl_readable(h, k, bye) ==
  LET c == h.ctl[k]
  IN  IF h.msgs[c] > 0
      THEN [h EXCEPT !.msgs[c] = @ - 1, !.want[c] = TRUE, !.quit = IF bye THEN @ \cup {c} ELSE @]
      ELSE IF client[c] = "gone" THEN [ctl_close(h, k) EXCEPT !.ended = @ \cup {c}]
      ELSE h

\* A failed write is ignored.
ctl_flush(h, c) == [h EXCEPT !.want[c] = @ /\ ~(room[c] /\ client[c] = "open")]

ServeCtl(h, k, re, bye) ==
  LET r == IF re.in THEN ctl_readable(h, k, bye) ELSE h
      f == ctl_flush(r, h.ctl[k])
  IN  IF r.ctl[k] = None THEN r
      ELSE IF h.ctl[k] \in f.quit /\ ~f.want[h.ctl[k]] THEN ctl_close(f, k)
      ELSE f

-----------------------------------------------------------------------------
(* The loop *)

Events(c) ==
  [fd  |-> fd[c],
   in  |-> msgs[c] > 0 \/ client[c] = "gone",
   out |-> want[c] /\ (room[c] \/ client[c] = "gone"),
   hup |-> client[c] = "gone" /\ kind[c] \notin {"tcp", "trunk"}]  \* TCP: end of file only
Rows(table) == [k \in DOMAIN Open(table) |-> Events(Open(table)[k])]

Waiting(k) == LET w == {c \in queue : kind[c] = k} IN IF w = {} THEN {None} ELSE w
Dialled    == {c \in Conns : up = None /\ kind[c] = "trunk" /\ client[c] = "idle"} \cup {None}

\* The rows are built and poll reports.  Then the trunk is dialled (it may not answer)
\* and, unless nothing was reported, one connection of each listener is accepted.
Poll ==
  /\ rows = <<>> /\ ctl_rows = <<>>
  /\ \E t \in Dialled, u \in Waiting("unix"), b \in Waiting("tcp"), k \in Waiting("ctl") :
       LET ready  == queue # {} \/ \E e \in Range(Rows(peers) \o Rows(ctl)) : e.in \/ e.out
           h      == accept(accept(accept(upstream_connect(Hub, t), u), b), k)
           news   == {t, u, b, k} \ {None}
       IN  /\ HubBecomes(h)
           /\ queue' = queue \ news
           /\ client' = [c \in Conns |-> IF c \notin news THEN client[c]
                                         ELSE IF h.fd[c] = None THEN "gone"
                                         ELSE IF c = t THEN "open" ELSE client[c]]
           /\ rows' = IF ready THEN Rows(peers) ELSE <<>>
           /\ ctl_rows' = IF ready THEN Rows(ctl) ELSE <<>>
  /\ UNCHANGED <<kind, left, room, i>>

\* Mutants: the descriptor is not compared; a closed slot uses up a row.
RowIsOf_Unchecked(c) == TRUE
RowsLeft_ByIndex(k) == Tail(rows)

\* Is the next row the row of peer c?
RowIsOf(c) == Head(rows).fd = fd[c]
\* The rows after slot k: an open one uses up a row, its own or not.
RowsLeft(k) == IF peers[k] = None THEN rows ELSE Tail(rows)

WalkPeer ==
  /\ rows # <<>>
  /\ rows' = IF i = Len(peers) THEN <<>> ELSE RowsLeft(i)
  /\ i' = IF rows' = <<>> THEN 1 ELSE i + 1
  /\ LET c == peers[i]
     IN  IF c # None /\ RowIsOf(c)
         THEN \E D \in IF msgs[c] > 0 THEN SUBSET (Range(Open(peers)) \ {c}) ELSE {{}} :
                HubBecomes(ServePeer(Hub, c, Head(rows), D))
         ELSE UNCHANGED hub
  /\ UNCHANGED <<far, ctl_rows>>

\* Rows of control clients are not compared.
WalkCtl ==
  /\ rows = <<>> /\ ctl_rows # <<>>
  /\ ctl_rows' = IF i = MaxCtl THEN <<>> ELSE IF ctl[i] = None THEN ctl_rows ELSE Tail(ctl_rows)
  /\ i' = IF ctl_rows' = <<>> THEN 1 ELSE i + 1
  /\ IF ctl[i] = None THEN UNCHANGED <<hub, client>>
     ELSE \E bye \in IF msgs[ctl[i]] > 0 THEN BOOLEAN ELSE {FALSE} :
            LET h == ServeCtl(Hub, i, Head(ctl_rows), bye)
            IN  /\ HubBecomes(h)
                /\ client' = IF h.ctl[i] = None /\ ctl[i] \notin h.ended
                             THEN [client EXCEPT ![ctl[i]] = "gone"] ELSE client
  /\ UNCHANGED <<kind, queue, left, room, rows>>

Loop == Poll \/ WalkPeer \/ WalkCtl

Next ==
  \/ Loop
  \/ \E c \in Conns : Connect(c) \/ Send(c) \/ Resume(c) \/ Close(c)

\* The loop goes on; the other ends owe it nothing.
Spec == Init /\ [][Next]_vars /\ WF_vars(Loop)

-----------------------------------------------------------------------------
(* Properties *)

Used(c) == fd[c] # None

\* Through accepts, closes and stale rows a connection has a descriptor of its own
\* exactly while it has one slot, and upstream_state never names a closed peer.
TablesAgree ==
  /\ \A c \in Conns :
       /\ Used(c) <=> c \in Range(peers) \cup Range(ctl)
       /\ \A d \in Conns \ {c} : Used(c) => fd[d] # fd[c]
  /\ IsInjective(Open(peers)) /\ IsInjective(Open(ctl))
  /\ quit \subseteq Range(ctl) /\ up \in Range(peers) \cup {None}

\* Rows that no longer match the tables cost a connection nothing but time: the hub
\* gives a connection up only after its other end was closed.
HealthyAreKept == \A c \in ended : client[c] = "gone"

Unattended(c) ==
  \/ c \in queue
  \/ Used(c) /\ (msgs[c] > 0 \/ client[c] = "gone" \/ (want[c] /\ room[c]))

\* Whoever waits for the hub is served, although a walk that meets new or closed slots
\* skips the rows behind them: once the clients rest, connections have been accepted,
\* messages read, closed ends noticed and backlogs written.
EveryoneIsServed == []<>(\A c \in Conns : ~Unattended(c))
=============================================================================
