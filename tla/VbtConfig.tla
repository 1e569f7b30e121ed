------------------------------ MODULE VbtConfig ------------------------------
(***************************************************************************)
(* The radio settings of a hub: the SET_ and CLEAR_LINK commands of the    *)
(* control socket, the table of per-link overrides, the snapshot file and  *)
(* its reload at start-up (-C), and the decision propagate() takes from    *)
(* them.  Strengths a double can hold are in tenths of a dBm; positions    *)
(* are on a line, in thirds of the 0.0001 m that "%.4f" keeps.             *)
(***************************************************************************)
EXTENDS Integers, Sequences, FiniteSets, FiniteSetsExt

CONSTANTS
  Names, Addrs,         \* node names; device addresses, in the form a user may type
  MaxNodes, MaxOverrides,
  Positions, Powers, Floors,   \* values of SET_POS, SET_TXPOWER and SET_SENS
  Strengths, Losses,    \* values of SET_RSSI (an int) and SET_LOSS (per cent)
  Exponents,            \* values of SET_PATHLOSS
  PathLoss(_, _),       \* path loss over a distance with an exponent, in tenths of a dB
  DefaultFloor, DefaultExponent,
  DefaultRssi,          \* VBT_DEFAULT_RSSI
  FrameRssis,           \* rssi fields of frames, 0 for none
  MaxCommands,          \* bound: commands
  None

Distance(p, q) == IF p < q THEN q - p ELSE p - q

\* "%.4f" of a value in thirds of its last digit.
Printed(x) == 3 * ((x + 1) \div 3)

\* Where a node may be: where it was put, or where a snapshot says it was.
Places == Positions \cup {Printed(p) : p \in Positions}

ASSUME ConfigAssumption ==
  /\ Names \cap Addrs = {} /\ None \notin Names \cup Addrs
  /\ Positions \subseteq Int /\ Powers \subseteq Int /\ Floors \subseteq Int
  /\ Strengths \subseteq Int /\ Losses \subseteq Int /\ FrameRssis \subseteq -128 .. 127
  /\ MaxNodes \in Nat /\ MaxOverrides \in Nat
  /\ DefaultFloor \in Int /\ DefaultRssi \in -128 .. 127
  /\ \A p, q \in Places, x \in Exponents \cup {DefaultExponent} :
       PathLoss(Distance(p, q), x) \in Int

VARIABLES
  node,       \* the active nodes: a function from their names to their settings
  owner,      \* the node each address was learned from
  table,      \* overrides[0 .. num_overrides - 1]
  exponent,   \* g_path_exponent
  file,       \* the snapshot, a set of commands
  reply,      \* the answer to the last command, with the link it refuses
  commands    \* commands so far

vars == <<node, owner, table, exponent, file, reply, commands>>

OK == [text |-> "OK", link |-> {}]
Err(text, link) == [text |-> text, link |-> link]

Idents == Names \cup Addrs

FreshNode == [pos |-> None, power |-> None, floor |-> DefaultFloor, physical |-> FALSE]

Init ==
  /\ node = [n \in {} |-> FreshNode] /\ owner = [a \in Addrs |-> None]
  /\ table = <<>> /\ exponent = DefaultExponent
  /\ file = {} /\ reply = OK /\ commands = 0

-----------------------------------------------------------------------------
(* Nodes *)

\* The node an identifier names: by name first, then by address.
resolve_node(nodes, owners, i) ==
  IF i \in DOMAIN nodes THEN i ELSE IF i \in Addrs THEN owners[i] ELSE None

\* find_node with create: the nodes with i among them, if the table has room.
find_node(nodes, i) ==
  IF i \in DOMAIN nodes \/ Cardinality(DOMAIN nodes) >= MaxNodes THEN nodes
  ELSE [n \in DOMAIN nodes \cup {i} |-> IF n = i THEN FreshNode ELSE nodes[n]]

\* SET_POS, SET_TXPOWER, SET_SENS: the field of the node i names, which is created
\* under that identifier if there is none.
Configured(nodes, owners, i, field, v) ==
  LET found == resolve_node(nodes, owners, i)
      n     == IF found # None THEN found ELSE i
      ns    == find_node(nodes, n)
  IN  IF n \notin DOMAIN ns THEN nodes ELSE [ns EXCEPT ![n][field] = v]

Answer(nodes, owners, i) ==
  LET found == resolve_node(nodes, owners, i)
  IN  IF found # None \/ i \in DOMAIN find_node(nodes, i) THEN OK ELSE Err("node table full", {})

Command == commands < MaxCommands /\ commands' = commands + 1

Set(i, field, v) ==
  /\ Command
  /\ node' = Configured(node, owner, i, field, v) /\ reply' = Answer(node, owner, i)
  /\ UNCHANGED <<owner, table, exponent, file>>

SetPos(i, p)     == Set(i, "pos", p)
SetTxPower(i, w) == Set(i, "power", w)
SetSens(i, f)    == Set(i, "floor", f)

SetPathloss(x) ==
  /\ Command /\ exponent' = x /\ reply' = OK
  /\ UNCHANGED <<node, owner, table, file>>

\* A socket binds to a node (bind_peer_node).
Attach(n, physical) ==
  /\ LET ns == find_node(node, n)
     IN  /\ n \in DOMAIN ns
         /\ node' = [ns EXCEPT ![n].physical = physical]
  /\ UNCHANGED <<owner, table, exponent, file, reply, commands>>

\* A node is heard with an address (node_add_addr; its limit is in VbtMedium).
Learn(n, a) ==
  /\ n \in DOMAIN node \cap Names
  /\ owner' = [owner EXCEPT ![a] = n]
  /\ UNCHANGED <<node, table, exponent, file, reply, commands>>

-----------------------------------------------------------------------------
(* Overrides *)

Fresh(a, b) == [used |-> TRUE, a |-> a, b |-> b, rssi |-> None, loss |-> None]

IsFor(o, a, b) == o.used /\ {o.a, o.b} = {a, b}

Slots(a, b) == {k \in DOMAIN table : IsFor(table[k], a, b)}
Unused      == {k \in DOMAIN table : ~table[k].used}

Lowest(S) == CHOOSE k \in S : \A m \in S : k <= m

\* Mutant: a slot used again keeps its values.
Reused_Dirty(o, a, b) == [o EXCEPT !.used = TRUE, !.a = a, !.b = b]

Reused(o, a, b) == Fresh(a, b)

\* The table after find_override with create and the setting of a field of the entry.
find_override(a, b, field, v) ==
  IF Slots(a, b) # {} THEN [table EXCEPT ![Lowest(Slots(a, b))][field] = v]
  ELSE IF Unused # {} THEN [table EXCEPT ![Lowest(Unused)] = [Reused(@, a, b) EXCEPT ![field] = v]]
  ELSE IF Len(table) >= MaxOverrides THEN table
  ELSE Append(table, [Fresh(a, b) EXCEPT ![field] = v])

HasRoom(a, b) == Slots(a, b) # {} \/ Unused # {} \/ Len(table) < MaxOverrides

Override(i, j, field, v) ==
  LET a == resolve_node(node, owner, i)
      b == resolve_node(node, owner, j)
  IN  /\ Command
      /\ IF None \in {a, b} THEN reply' = Err("unknown node(s)", {}) /\ UNCHANGED table
         ELSE /\ table' = find_override(a, b, field, v)
              /\ reply' = IF HasRoom(a, b) THEN OK ELSE Err("override table full", {a, b})
      /\ UNCHANGED <<node, owner, exponent, file>>

Clamped(p) == IF p < 0 THEN 0 ELSE IF p > 100 THEN 100 ELSE p

SetRssi(i, j, r) == Override(i, j, "rssi", r)
SetLoss(i, j, p) == Override(i, j, "loss", Clamped(p))

ClearLink(i, j) ==
  /\ Command /\ reply' = OK
  /\ LET S == Slots(resolve_node(node, owner, i), resolve_node(node, owner, j))
     IN  table' = IF S = {} THEN table ELSE [table EXCEPT ![Lowest(S)].used = FALSE]
  /\ UNCHANGED <<node, owner, exponent, file>>

-----------------------------------------------------------------------------
(* The snapshot *)

Line(cmd, n, v) == [cmd |-> cmd, node |-> n, value |-> v]

\* Mutant: a node's power is saved with its position only.
NodeLines_Nested(n) ==
  {Line("SET_POS", n, Printed(p)) : p \in {node[n].pos} \ {None}}
  \cup {Line("SET_TXPOWER", n, w) : w \in IF node[n].pos = None THEN {} ELSE {node[n].power} \ {None}}

\* Powers are given with at most four decimals.
NodeLines(n) ==
  {Line("SET_POS", n, Printed(p)) : p \in {node[n].pos} \ {None}}
  \cup {Line("SET_TXPOWER", n, w) : w \in {node[n].power} \ {None}}

\* The lines are written in the order of the node table; each sets another value.
save_config == {Line("SET_PATHLOSS", None, exponent)} \cup UNION {NodeLines(n) : n \in DOMAIN node}

SaveConfig ==
  /\ Command /\ file' = save_config /\ reply' = OK
  /\ UNCHANGED <<node, owner, table, exponent>>

\* One line of the file, on a hub that has heard nobody yet.
ctl_dispatch(line, hub) ==
  LET nobody == [a \in Addrs |-> None]
      field  == IF line.cmd = "SET_POS" THEN "pos" ELSE "power"
  IN  IF line.cmd = "SET_PATHLOSS" THEN [hub EXCEPT !.exponent = line.value]
      ELSE [hub EXCEPT !.node = Configured(@, nobody, line.node, field, line.value)]

load_config_file(f) ==
  FoldSet(ctl_dispatch, [node |-> [n \in {} |-> FreshNode], exponent |-> DefaultExponent], f)

\* The hub's process ends and is started again with the snapshot.
Restart ==
  LET hub == load_config_file(file)
  IN  /\ node' = hub.node /\ exponent' = hub.exponent
      /\ owner' = [a \in Addrs |-> None] /\ table' = <<>> /\ reply' = OK
      /\ UNCHANGED <<file, commands>>

Next ==
  \/ \E i \in Idents :
       \/ \E p \in Positions : SetPos(i, p)
       \/ \E w \in Powers : SetTxPower(i, w)
       \/ \E f \in Floors : SetSens(i, f)
       \/ \E j \in Idents \ {i} :
            \/ \E r \in Strengths : SetRssi(i, j, r)
            \/ \E l \in Losses : SetLoss(i, j, l)
            \/ ClearLink(i, j)
  \/ \E n \in Names : (\E b \in BOOLEAN : Attach(n, b)) \/ \E a \in Addrs : Learn(n, a)
  \/ \E x \in Exponents : SetPathloss(x)
  \/ SaveConfig \/ Restart

Spec == Init /\ [][Next]_vars

-----------------------------------------------------------------------------
(* propagate *)

\* Conversion of a double in tenths to an int (towards zero), lround, and int8_t.
Truncated(x) == IF x >= 0 THEN x \div 10 ELSE -((-x) \div 10)
Rounded(x)   == IF x >= 0 THEN (x + 5) \div 10 ELSE -((5 - x) \div 10)
Int8(x)      == ((x + 128) % 256) - 128

\* The strength of the geometric model, in tenths.
Received(tx, rx, power) ==
  10 * (IF node[tx].power # None THEN node[tx].power ELSE power)
  - PathLoss(Distance(node[tx].pos, node[rx].pos), exponent)

Placed(tx, rx) == node[tx].pos # None /\ node[rx].pos # None

\* A pinned strength, an int, is compared with the truncated floor.
PinnedIsHeard(r, floor) == r >= Truncated(floor)

\* Mutant: the strength is not clamped before it becomes an int8_t.
Reported_Wrap(x) == Rounded(x)

Reported(x) ==
  LET r == Rounded(x) IN IF r < -128 THEN -128 ELSE IF r > 20 THEN 20 ELSE r

Lost == [heard |-> FALSE, rssi |-> 0]
With(r) == [heard |-> TRUE, rssi |-> Int8(r)]

\* What becomes of a frame sent with the given power and rssi field.  rand() / RAND_MAX
\* may be any of 0 .. 1, both included: with any loss set a frame may pass or not.
propagate(tx, rx, power, rssi) ==
  LET S     == Slots(tx, rx)
      o     == IF S = {} THEN Fresh(tx, rx) ELSE table[Lowest(S)]
      x     == Received(tx, rx, power)
      kept  == IF o.rssi # None
               THEN IF PinnedIsHeard(o.rssi, node[rx].floor) THEN With(o.rssi) ELSE Lost
               ELSE IF ~Placed(tx, rx) THEN With(IF rssi = 0 THEN DefaultRssi ELSE rssi)
               ELSE IF x < node[rx].floor THEN Lost ELSE With(Reported(x))
  IN  IF node[tx].physical \/ node[rx].physical THEN {With(rssi)}
      ELSE IF o.loss # None /\ o.loss > 0 THEN {Lost, kept} ELSE {kept}

-----------------------------------------------------------------------------
(* Properties *)

Link(tx, rx) ==
  LET S == {k \in DOMAIN table : table[k].used /\ {table[k].a, table[k].b} = {tx, rx}}
  IN  IF S = {} THEN Fresh(tx, rx) ELSE table[CHOOSE k \in S : TRUE]

Pair(o) == {o.a, o.b}
Used(t) == {k \in DOMAIN t : t[k].used}

\* The settings of the pairs a table has entries for.
Settings(t) ==
  [p \in {Pair(t[k]) : k \in Used(t)} |->
     LET o == t[CHOOSE k \in Used(t) : Pair(t[k]) = p] IN [rssi |-> o.rssi, loss |-> o.loss]]

Overrides == INSTANCE VbtLinkMap WITH
  Pairs <- {{i, j} : i, j \in Idents}, Losses <- {Clamped(l) : l \in Losses},
  links <- Settings(table), refused <- reply.link

\* vbt_medium.c: overrides are kept for an "unordered node-id pair".  The table, with
\* its slots cleared and used again, is a map: a pair has the values set since it was
\* last cleared, in both directions, and is refused only when MaxOverrides pairs are set.
OverridesAreAMap == Overrides!Spec

\* A snapshot reloaded gives back the exponent and, to the printed precision, the
\* positions and powers of all nodes that had one, and no other node.
SnapshotRestores ==
  [][file' # file =>
       LET hub == load_config_file(file')
       IN  /\ hub.exponent = exponent
           /\ DOMAIN hub.node = {n \in DOMAIN node : node[n].pos # None \/ node[n].power # None}
           /\ \A n \in DOMAIN hub.node :
                /\ hub.node[n].power = node[n].power
                /\ IF node[n].pos = None THEN hub.node[n].pos = None
                   ELSE Distance(hub.node[n].pos, node[n].pos) <= 1]_vars

\* README: the hub "drops PDUs below the receiver's sensitivity floor", and with no
\* settings "every node hears every other".  Between simulated radios with a floor of
\* at most 0 dBm a frame is surely dropped below the floor, may pass at or above it
\* (and does, unless a loss is set), and the strength it reports is below the floor by
\* half a dB at most, or clamped to 20 dBm; pins are within int8_t.
FloorDecides ==
  \A tx, rx \in DOMAIN node : \A power \in Powers, rssi \in FrameRssis :
    LET o == Link(tx, rx)
        x == IF o.rssi # None THEN 10 * o.rssi ELSE Received(tx, rx, power)
        outcomes == propagate(tx, rx, power, rssi)
    IN  /\ tx # rx /\ ~node[tx].physical /\ ~node[rx].physical
        /\ o.rssi # None \/ Placed(tx, rx)
        /\ node[rx].floor <= 0 /\ (o.rssi # None => o.rssi \in -128 .. 127)
        => /\ (\E u \in outcomes : u.heard) <=> x >= node[rx].floor
           /\ \A u \in outcomes : u.heard =>
                10 * u.rssi + 5 >= node[rx].floor \/ u.rssi = 20
           /\ (o.loss \in {None, 0} => Cardinality(outcomes) = 1)
=============================================================================
