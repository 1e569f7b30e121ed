----------------------------- MODULE VbtLinkMap ------------------------------
(***************************************************************************)
(* What the hub promises of per-link overrides: a map from unordered pairs *)
(* of nodes to a pinned strength and a loss probability.  A new pair is    *)
(* refused only when the map is full, and starts with neither.             *)
(***************************************************************************)
EXTENDS Integers, FiniteSets

CONSTANTS
  Pairs, Strengths, Losses,   \* pairs of nodes; values of SET_RSSI and SET_LOSS
  MaxOverrides,
  None                        \* not set

VARIABLES
  links,     \* the map
  refused    \* the pair the last command named, if it was refused for want of room

Room(p) == p \in DOMAIN links \/ Cardinality(DOMAIN links) < MaxOverrides

Known(p) == IF p \in DOMAIN links THEN links[p] ELSE [rssi |-> None, loss |-> None]

With(p, v) == [q \in DOMAIN links \cup {p} |-> IF q = p THEN v ELSE links[q]]

Init == links = [p \in {} |-> None] /\ refused = {}

Pin(p, r)  == Room(p) /\ refused' = {} /\ links' = With(p, [Known(p) EXCEPT !.rssi = r])
Lose(p, l) == Room(p) /\ refused' = {} /\ links' = With(p, [Known(p) EXCEPT !.loss = l])
Refuse(p)  == ~Room(p) /\ refused' = p /\ UNCHANGED links
Clear(p)   == refused' = {} /\ links' = [q \in DOMAIN links \ {p} |-> links[q]]

\* Another command; the hub starts again.
Skip  == refused' = {} /\ UNCHANGED links
Reset == refused' = {} /\ links' = [p \in {} |-> None]

Next ==
  \/ \E p \in Pairs :
       \/ Refuse(p) \/ Clear(p)
       \/ \E r \in Strengths : Pin(p, r)
       \/ \E l \in Losses : Lose(p, l)
  \/ Skip \/ Reset

Spec == Init /\ [][Next]_<<links, refused>>
=============================================================================
