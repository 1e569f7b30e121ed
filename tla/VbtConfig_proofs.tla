-------------------------- MODULE VbtConfig_proofs ----------------------------
(***************************************************************************)
(* Proofs about a hub's radio settings: the table of overrides implements  *)
(* a map from pairs of nodes to settings (VbtLinkMap), for tables of any   *)
(* size and any nodes and values; a snapshot gives back what it saved; and *)
(* propagate() drops what is below the floor, conversions included.        *)
(***************************************************************************)
EXTENDS VbtConfig, FiniteSetTheorems, WellFoundedInduction, TLAPS

-----------------------------------------------------------------------------
(* The table *)

Entry == [used : BOOLEAN, a : Idents, b : Idents, rssi : Strengths \cup {None},
          loss : {Clamped(l) : l \in Losses} \cup {None}]

\* A pair has one entry in use.
Unique(t) == \A k, m \in Used(t) : Pair(t[k]) = Pair(t[m]) => k = m

Values(o) == [rssi |-> o.rssi, loss |-> o.loss]

Bound(t) == {Pair(t[k]) : k \in Used(t)}

LEMMA SettingsAt ==
  ASSUME NEW t \in Seq(Entry), Unique(t)
  PROVE  /\ DOMAIN Settings(t) = Bound(t)
         /\ \A k \in Used(t) : Settings(t)[Pair(t[k])] = Values(t[k])
<1>1. DOMAIN Settings(t) = Bound(t)
  BY Zenon DEF Settings, Bound
<1>2. ASSUME NEW k \in Used(t) PROVE Settings(t)[Pair(t[k])] = Values(t[k])
  <2> DEFINE c == CHOOSE m \in Used(t) : Pair(t[m]) = Pair(t[k])
  <2>1. c \in Used(t) /\ Pair(t[c]) = Pair(t[k])
    BY Zenon
  <2>2. c = k
    BY <2>1, Zenon DEF Unique
  <2>3. Settings(t)[Pair(t[k])] = Values(t[c])
    BY Zenon DEF Settings, Values
  <2> QED
    BY <2>2, <2>3, Zenon
<1> QED
  BY <1>1, <1>2, Zenon

\* Entry k of the new table u is the one of pair p; the others are as in t.
Differs(t, u, p, k) ==
  /\ k \in Used(u) /\ Pair(u[k]) = p
  /\ \A m \in Used(t) : Pair(t[m]) = p => m = k
  /\ k \in Used(t) => Pair(t[k]) = p
  /\ Used(u) \ {k} = Used(t) \ {k}
  /\ \A m \in Used(t) \ {k} : u[m] = t[m]

\* The settings of u are those of t, with v for pair p.
Updated(t, u, p, v) ==
  Settings(u) = [q \in DOMAIN Settings(t) \cup {p} |-> IF q = p THEN v ELSE Settings(t)[q]]

LEMMA EntryWritten ==
  ASSUME NEW t \in Seq(Entry), Unique(t), NEW u \in Seq(Entry), NEW p, NEW k,
         Differs(t, u, p, k)
  PROVE  Unique(u) /\ Updated(t, u, p, Values(u[k]))
<1> USE DEF Differs
<1>1. ASSUME NEW m \in Used(u), m # k PROVE m \in Used(t) /\ u[m] = t[m] /\ Pair(u[m]) # p
  <2>1. m \in Used(t) /\ m # k
    BY <1>1, Zenon
  <2>2. u[m] = t[m] /\ Pair(t[m]) # p
    BY <2>1, Zenon
  <2> QED
    BY <2>1, <2>2, Zenon
<1>2. Unique(u)
  <2> SUFFICES ASSUME NEW l \in Used(u), NEW m \in Used(u), Pair(u[l]) = Pair(u[m])
               PROVE  l = m
    BY Zenon DEF Unique
  <2>1. CASE l = k \/ m = k
    BY <1>1, <2>1, Zenon
  <2>2. CASE l # k /\ m # k
    BY <1>1, <2>2, Zenon DEF Unique
  <2> QED
    BY <2>1, <2>2, Zenon
<1>3. Bound(u) = Bound(t) \cup {p}
  <2>1. ASSUME NEW q \in Bound(u) PROVE q \in Bound(t) \cup {p}
    <3>1. PICK m \in Used(u) : q = Pair(u[m])
      BY <2>1, Zenon DEF Bound
    <3> QED
      BY <1>1, <3>1, Zenon DEF Bound
  <2>2. ASSUME NEW q \in Bound(t) PROVE q \in Bound(u)
    <3>1. PICK m \in Used(t) : q = Pair(t[m])
      BY <2>2, Zenon DEF Bound
    <3>2. CASE m = k
      BY <3>1, <3>2, Zenon DEF Bound
    <3>3. CASE m # k
      <4>1. m \in Used(u) /\ u[m] = t[m]
        BY <3>3, Zenon
      <4> QED
        BY <3>1, <4>1, Zenon DEF Bound
    <3> QED
      BY <3>2, <3>3, Zenon
  <2>3. p \in Bound(u)
    BY Zenon DEF Bound
  <2> QED
    BY <2>1, <2>2, <2>3, Zenon
<1>4. ASSUME NEW q \in Bound(u)
      PROVE  Settings(u)[q] = IF q = p THEN Values(u[k]) ELSE Settings(t)[q]
  <2>1. PICK m \in Used(u) : q = Pair(u[m])
    BY Zenon DEF Bound
  <2>2. CASE m = k
    BY <1>2, <2>1, <2>2, SettingsAt, Zenon
  <2>3. CASE m # k
    <3>1. m \in Used(t) /\ u[m] = t[m] /\ q # p
      BY <1>1, <2>1, <2>3, Zenon
    <3>2. Settings(u)[q] = Values(u[m])
      BY <1>2, <2>1, SettingsAt, Zenon
    <3>3. Settings(t)[q] = Values(t[m])
      BY <2>1, <3>1, SettingsAt, Zenon
    <3> QED
      BY <3>1, <3>2, <3>3, Zenon
  <2> QED
    BY <2>2, <2>3, Zenon
<1>5. Settings(u) = [q \in Bound(u) |-> Settings(u)[q]]
  BY Zenon DEF Settings, Bound
<1>6. DOMAIN Settings(t) = Bound(t)
  BY SettingsAt, Zenon
<1> QED
  BY <1>2, <1>3, <1>4, <1>5, <1>6, Zenon DEF Updated

\* The entries of u are those of t but for entry k.
Lacks(t, u, k) == Used(u) = Used(t) \ {k} /\ \A m \in Used(u) : u[m] = t[m]

\* The settings of u are those of t but for pair p.
Removed(t, u, p) == Settings(u) = [q \in DOMAIN Settings(t) \ {p} |-> Settings(t)[q]]

LEMMA EntryCleared ==
  ASSUME NEW t \in Seq(Entry), Unique(t), NEW u \in Seq(Entry), NEW k \in Used(t),
         Lacks(t, u, k)
  PROVE  Unique(u) /\ Removed(t, u, Pair(t[k]))
<1> USE DEF Lacks
<1>1. Unique(u)
  BY Zenon DEF Unique
<1>2. Bound(u) = Bound(t) \ {Pair(t[k])}
  BY DEF Bound, Unique
<1>3. ASSUME NEW q \in Bound(u) PROVE Settings(u)[q] = Settings(t)[q]
  <2>1. PICK m \in Used(u) : q = Pair(u[m])
    BY Zenon DEF Bound
  <2>2. Settings(u)[q] = Values(u[m])
    BY <1>1, <2>1, SettingsAt, Zenon
  <2>3. m \in Used(t) /\ u[m] = t[m]
    BY <2>1, Zenon
  <2>4. Settings(t)[q] = Values(t[m])
    BY <2>1, <2>3, SettingsAt, Zenon
  <2> QED
    BY <2>2, <2>3, <2>4, Zenon
<1>4. Settings(u) = [q \in Bound(u) |-> Settings(u)[q]]
  BY Zenon DEF Settings, Bound
<1>5. DOMAIN Settings(t) = Bound(t)
  BY SettingsAt, Zenon
<1> QED
  BY <1>1, <1>2, <1>3, <1>4, <1>5, Zenon DEF Removed

\* There are as many pairs as entries in use.
LEMMA PairsAreCounted ==
  ASSUME NEW t \in Seq(Entry), Unique(t)
  PROVE  /\ IsFiniteSet(DOMAIN t) /\ Cardinality(DOMAIN t) = Len(t)
         /\ IsFiniteSet(Used(t)) /\ Cardinality(DOMAIN Settings(t)) = Cardinality(Used(t))
         /\ Cardinality(Used(t)) \in Nat /\ Cardinality(Used(t)) <= Len(t)
         /\ Used(t) # DOMAIN t => Cardinality(Used(t)) < Len(t)
<1>1. Len(t) \in Nat /\ DOMAIN t = 1 .. Len(t)
  OBVIOUS
<1>2. IsFiniteSet(DOMAIN t) /\ Cardinality(DOMAIN t) = Len(t)
  BY <1>1, FS_Interval
<1>3. /\ IsFiniteSet(Used(t)) /\ Cardinality(Used(t)) <= Len(t)
      /\ Cardinality(Used(t)) = Len(t) => Used(t) = DOMAIN t
  BY <1>2, FS_Subset, Zenon DEF Used
<1>4. Cardinality(Used(t)) \in Nat
  BY <1>3, FS_CardinalityType, Zenon
<1> DEFINE f == [k \in Used(t) |-> Pair(t[k])]
<1>5. f \in Bijection(Used(t), Bound(t))
  BY Zenon DEF Bijection, Injection, Surjection, IsInjective, Bound, Unique
<1>6. Cardinality(Bound(t)) = Cardinality(Used(t))
  BY <1>3, <1>5, FS_Bijection, Zenon DEF ExistsBijection
<1> QED
  BY <1>1, <1>2, <1>3, <1>4, <1>6, SettingsAt

-----------------------------------------------------------------------------
(* The invariant and the commands *)

ConfigInv ==
  /\ owner \in [Addrs -> Names \cup {None}]
  /\ table \in Seq(Entry) /\ Len(table) <= MaxOverrides
  /\ Unique(table)

LEMMA LowestIsMember ==
  ASSUME NEW t \in Seq(Entry), NEW S \in SUBSET DOMAIN t, S # {}
  PROVE  Lowest(S) \in S
<1>1. S \in SUBSET Nat
  OBVIOUS
<1>2. PICK h \in S : \A g \in S : ~ (<<g, h>> \in OpToRel(<, Nat))
  BY <1>1, NatLessThanWellFounded, WFMin, Zenon
<1>3. ASSUME NEW g \in S PROVE h <= g
  <2>1. g \in Nat /\ h \in Nat /\ ~ (g < h)
    BY <1>1, <1>2, Zenon DEF OpToRel
  <2> QED
    BY <2>1
<1> QED
  BY <1>3, Zenon DEF Lowest

\* What find_override and the change make of the table, for pair p; v are its
\* values afterwards.
Written(p, u, v) ==
  /\ u \in Seq(Entry) /\ Len(u) <= MaxOverrides /\ Unique(u)
  /\ Updated(table, u, p, v)
  /\ p \in Bound(table) \/ Cardinality(Bound(table)) < MaxOverrides

\* Slot k, which is free or holds the pair already, gets entry o.
LEMMA SlotWritten ==
  ASSUME ConfigInv, NEW a, NEW b, NEW p, p = {a, b},
         NEW k \in DOMAIN table, NEW o \in Entry, o.used, Pair(o) = p,
         Slots(a, b) \subseteq {k}, k \in Slots(a, b) \/ k \in Unused
  PROVE  Written(p, [table EXCEPT ![k] = o], Values(o))
<1> DEFINE u == [table EXCEPT ![k] = o]
<1>1. /\ table \in Seq(Entry) /\ Unique(table) /\ Len(table) <= MaxOverrides
      /\ MaxOverrides \in Nat /\ Len(table) \in Nat
  BY ConfigAssumption DEF ConfigInv
<1>2. u \in Seq(Entry) /\ Len(u) = Len(table) /\ DOMAIN u = DOMAIN table
  BY <1>1
<1>3. u[k] = o /\ \A m \in DOMAIN table \ {k} : u[m] = table[m]
  BY <1>1, Zenon
<1> HIDE DEF u
<1>4. k \in Used(u) /\ Pair(u[k]) = p
  BY <1>2, <1>3, Zenon DEF Used
<1>5. Used(u) \ {k} = Used(table) \ {k} /\ \A m \in Used(table) \ {k} : u[m] = table[m]
  BY <1>2, <1>3, Zenon DEF Used
<1>6. \A m \in Used(table) : Pair(table[m]) = p => m = k
  BY Zenon DEF Used, Slots, IsFor, Pair
<1>7. k \in Used(table) => Pair(table[k]) = p
  BY Zenon DEF Used, Slots, Unused, IsFor, Pair
<1>8. Unique(u) /\ Updated(table, u, p, Values(u[k]))
  <2>1. Differs(table, u, p, k)
    BY <1>4, <1>5, <1>6, <1>7, Zenon DEF Differs
  <2> QED
    BY <1>1, <1>2, <2>1, EntryWritten, Zenon
<1>9. p \in Bound(table) \/ Cardinality(Bound(table)) < MaxOverrides
  <2>1. CASE k \in Slots(a, b)
    <3>1. k \in Used(table) /\ Pair(table[k]) = p
      BY <2>1, Zenon DEF Slots, IsFor, Used, Pair
    <3> QED
      BY <3>1, Zenon DEF Bound
  <2>2. CASE k \in Unused
    <3>1. Used(table) # DOMAIN table
      BY <2>2, Zenon DEF Unused, Used
    <3>2. /\ Cardinality(Bound(table)) = Cardinality(Used(table))
          /\ Cardinality(Used(table)) \in Nat /\ Cardinality(Used(table)) < Len(table)
      BY <1>1, <3>1, PairsAreCounted, SettingsAt, Zenon
    <3> QED
      BY <1>1, <3>2
  <2> QED
    BY <2>1, <2>2, Zenon
<1> QED
  BY <1>1, <1>2, <1>3, <1>8, <1>9, Zenon DEF Written, u

\* A new slot gets entry o.
LEMMA SlotAppended ==
  ASSUME ConfigInv, NEW a, NEW b, NEW p, p = {a, b},
         NEW o \in Entry, o.used, Pair(o) = p,
         Slots(a, b) = {}, Len(table) < MaxOverrides
  PROVE  Written(p, Append(table, o), Values(o))
<1> DEFINE u == Append(table, o)
           k == Len(table) + 1
<1>1. /\ table \in Seq(Entry) /\ Unique(table)
      /\ MaxOverrides \in Nat /\ Len(table) \in Nat
  BY ConfigAssumption DEF ConfigInv
<1>2. u \in Seq(Entry) /\ Len(u) = k /\ DOMAIN u = DOMAIN table \cup {k} /\ k \notin DOMAIN table
  BY <1>1
<1>3. u[k] = o /\ \A m \in DOMAIN table : u[m] = table[m]
  BY <1>1
<1> HIDE DEF u
<1>4. k \in Used(u) /\ Pair(u[k]) = p /\ k \notin Used(table)
  BY <1>2, <1>3, Zenon DEF Used
<1>5. Used(u) \ {k} = Used(table) \ {k} /\ \A m \in Used(table) \ {k} : u[m] = table[m]
  BY <1>2, <1>3, Zenon DEF Used
<1>6. \A m \in Used(table) : Pair(table[m]) = p => m = k
  BY Zenon DEF Used, Slots, IsFor, Pair
<1>7. Unique(u) /\ Updated(table, u, p, Values(u[k]))
  <2>1. Differs(table, u, p, k)
    BY <1>4, <1>5, <1>6, Zenon DEF Differs
  <2> QED
    BY <1>1, <1>2, <2>1, EntryWritten, Zenon
<1>8. p \in Bound(table) \/ Cardinality(Bound(table)) < MaxOverrides
  <2>1. /\ Cardinality(Bound(table)) = Cardinality(Used(table))
        /\ Cardinality(Used(table)) \in Nat /\ Cardinality(Used(table)) <= Len(table)
    BY <1>1, PairsAreCounted, SettingsAt, Zenon
  <2> QED
    BY <1>1, <2>1
<1> QED
  BY <1>1, <1>2, <1>3, <1>7, <1>8 DEF Written, u

\* The entry a command on pair {a, b} starts from, and the table with entry o instead.
Old(a, b) == IF Slots(a, b) # {} THEN table[Lowest(Slots(a, b))] ELSE Fresh(a, b)
Put(a, b, o) ==
  IF Slots(a, b) # {} THEN [table EXCEPT ![Lowest(Slots(a, b))] = o]
  ELSE IF Unused # {} THEN [table EXCEPT ![Lowest(Unused)] = o]
  ELSE IF Len(table) >= MaxOverrides THEN table
  ELSE Append(table, o)

LEMMA OldIsKnown ==
  ASSUME ConfigInv, NEW a \in Idents, NEW b \in Idents
  PROVE  /\ Old(a, b) \in Entry /\ Old(a, b).used /\ Pair(Old(a, b)) = {a, b}
         /\ Values(Old(a, b)) = IF {a, b} \in DOMAIN Settings(table) THEN Settings(table)[{a, b}]
                                ELSE [rssi |-> None, loss |-> None]
<1>1. table \in Seq(Entry) /\ Unique(table)
  BY Zenon DEF ConfigInv
<1>2. CASE Slots(a, b) # {}
  <2> DEFINE k == Lowest(Slots(a, b))
  <2>1. k \in Slots(a, b)
    BY <1>1, <1>2, LowestIsMember, Zenon DEF Slots
  <2> HIDE DEF k
  <2>2. k \in Used(table) /\ Pair(table[k]) = {a, b}
    BY <2>1, Zenon DEF Slots, IsFor, Used, Pair
  <2>3. table[k] \in Entry /\ table[k].used
    BY <1>1, <2>2 DEF Used
  <2>4. Settings(table)[{a, b}] = Values(table[k]) /\ {a, b} \in DOMAIN Settings(table)
    BY <1>1, <2>2, SettingsAt, Zenon DEF Bound
  <2>5. Old(a, b) = table[k]
    BY <1>2, Zenon DEF Old, k
  <2> QED
    BY <2>2, <2>3, <2>4, <2>5, Zenon
<1>3. CASE Slots(a, b) = {}
  <2>1. {a, b} \notin DOMAIN Settings(table)
    <3>1. \A k \in Used(table) : Pair(table[k]) # {a, b}
      BY <1>3, Zenon DEF Slots, IsFor, Used, Pair
    <3>2. DOMAIN Settings(table) = Bound(table)
      BY <1>1, SettingsAt, Zenon
    <3> QED
      BY <3>1, <3>2, Zenon DEF Bound
  <2>2. Old(a, b) = Fresh(a, b)
    BY <1>3, Zenon DEF Old
  <2>3. Fresh(a, b) \in Entry /\ Fresh(a, b).used
    BY Zenon DEF Fresh, Entry
  <2>4. Pair(Fresh(a, b)) = {a, b} /\ Values(Fresh(a, b)) = [rssi |-> None, loss |-> None]
    BY Zenon DEF Fresh, Pair, Values
  <2> QED
    BY <2>1, <2>2, <2>3, <2>4, Zenon
<1> QED
  BY <1>2, <1>3, Zenon

LEMMA PutWrites ==
  ASSUME ConfigInv, NEW a \in Idents, NEW b \in Idents, NEW o \in Entry, o.used,
         Pair(o) = {a, b}
  PROVE  IF HasRoom(a, b) THEN Written({a, b}, Put(a, b, o), Values(o))
         ELSE /\ Put(a, b, o) = table /\ {a, b} \notin Bound(table)
              /\ ~(Cardinality(Bound(table)) < MaxOverrides)
<1> DEFINE p == {a, b}
<1>1. /\ table \in Seq(Entry) /\ Unique(table) /\ Len(table) <= MaxOverrides
      /\ MaxOverrides \in Nat /\ Len(table) \in Nat
  BY ConfigAssumption DEF ConfigInv
<1>2. CASE Slots(a, b) # {}
  <2> DEFINE k == Lowest(Slots(a, b))
  <2>1. k \in Slots(a, b)
    BY <1>1, <1>2, LowestIsMember, Zenon DEF Slots
  <2> HIDE DEF k
  <2>2. Slots(a, b) \subseteq {k}
    BY <1>1, <2>1, Zenon DEF Slots, IsFor, Unique, Used, Pair
  <2>3. k \in DOMAIN table
    BY <2>1, Zenon DEF Slots
  <2>4. Written(p, [table EXCEPT ![k] = o], Values(o))
    BY <2>1, <2>2, <2>3, SlotWritten, Zenon
  <2>5. Put(a, b, o) = [table EXCEPT ![k] = o]
    BY <1>2, Zenon DEF Put, k
  <2> QED
    BY <1>2, <2>4, <2>5, Zenon DEF HasRoom
<1>3. CASE Slots(a, b) = {} /\ Unused # {}
  <2> DEFINE k == Lowest(Unused)
  <2>1. k \in Unused
    BY <1>1, <1>3, LowestIsMember, Zenon DEF Unused
  <2> HIDE DEF k
  <2>2. k \in DOMAIN table
    BY <2>1, Zenon DEF Unused
  <2>3. Written(p, [table EXCEPT ![k] = o], Values(o))
    BY <1>3, <2>1, <2>2, SlotWritten, Zenon
  <2>4. Put(a, b, o) = [table EXCEPT ![k] = o]
    BY <1>3, Zenon DEF Put, k
  <2> QED
    BY <1>3, <2>3, <2>4, Zenon DEF HasRoom
<1>4. CASE Slots(a, b) = {} /\ Unused = {} /\ Len(table) < MaxOverrides
  <2>1. Written(p, Append(table, o), Values(o))
    BY <1>4, SlotAppended, Zenon
  <2>2. Put(a, b, o) = Append(table, o)
    BY <1>1, <1>4 DEF Put
  <2> QED
    BY <1>4, <2>1, <2>2, Zenon DEF HasRoom
<1>5. CASE Slots(a, b) = {} /\ Unused = {} /\ ~(Len(table) < MaxOverrides)
  <2>1. ~HasRoom(a, b) /\ Put(a, b, o) = table
    BY <1>1, <1>5 DEF HasRoom, Put
  <2>2. {a, b} \notin Bound(table)
    BY <1>5, Zenon DEF Bound, Slots, IsFor, Used, Pair
  <2>3. Used(table) = DOMAIN table
    BY <1>5, Zenon DEF Used, Unused
  <2>4. Cardinality(Bound(table)) = Len(table)
    BY <1>1, <2>3, PairsAreCounted, SettingsAt, Zenon
  <2> QED
    BY <1>1, <1>5, <2>1, <2>2, <2>4, Zenon
<1> QED
  BY <1>2, <1>3, <1>4, <1>5, Zenon

LEMMA ResolvedIsIdent ==
  ASSUME ConfigInv, NEW i \in Idents
  PROVE  resolve_node(node, owner, i) \in Idents \cup {None}
BY Zenon DEF ConfigInv, resolve_node, Idents

\* A step of the map: what the commands on overrides have in common.
Refined == ConfigInv' /\ Overrides!Next

LEMMA Ignored ==
  ASSUME ConfigInv, table' = table, owner' = owner, reply'.link = {}
  PROVE  Refined
<1>1. ConfigInv'
  BY Zenon DEF ConfigInv
<1>2. Overrides!Skip
  BY Zenon DEF Overrides!Skip
<1> QED
  BY <1>1, <1>2 DEF Refined, Overrides!Next

\* The instance of FiniteSets in VbtLinkMap counts like the one here.
LEMMA SameCount ==
  ASSUME NEW S PROVE Overrides!Cardinality(S) = Cardinality(S)
BY Zenon DEF Overrides!Cardinality, Cardinality

\* Steps of the map for a value of either field.
Sets(p, field, v) == \/ field = "rssi" /\ v \in Strengths /\ Overrides!Pin(p, v)
                     \/ field = "loss" /\ v \in {Clamped(l) : l \in Losses} /\ Overrides!Lose(p, v)

LEMMA OverrideStep ==
  ASSUME ConfigInv, NEW i \in Idents, NEW j \in Idents, NEW field, NEW v,
         \/ field = "rssi" /\ v \in Strengths
         \/ field = "loss" /\ v \in {Clamped(l) : l \in Losses},
         Override(i, j, field, v)
  PROVE  Refined
<1> DEFINE a == resolve_node(node, owner, i)
           b == resolve_node(node, owner, j)
           p == {a, b}
           o == [Old(a, b) EXCEPT ![field] = v]
<1>1. a \in Idents \cup {None} /\ b \in Idents \cup {None} /\ None \notin Idents
  BY ResolvedIsIdent, ConfigAssumption, Zenon DEF Idents
<1>2. CASE None \in {a, b}
  <2>1. table' = table /\ owner' = owner /\ reply' = Err("unknown node(s)", {})
    BY <1>2, Zenon DEF Override
  <2>2. reply'.link = {}
    BY <2>1, Zenon DEF Err
  <2> QED
    BY <2>1, <2>2, Ignored, Zenon
<1>3. CASE None \notin {a, b}
  <2>1. a \in Idents /\ b \in Idents /\ p \in {{x, y} : x, y \in Idents}
    BY <1>1, <1>3
  <2>2. table' = find_override(a, b, field, v) /\ owner' = owner
        /\ reply' = IF HasRoom(a, b) THEN OK ELSE Err("override table full", {a, b})
    BY <1>3, Zenon DEF Override
  <2> HIDE DEF a, b
  <2>3. find_override(a, b, field, v) = Put(a, b, o)
    BY Zenon DEF find_override, Put, Old, Reused
  <2>4. /\ Old(a, b) \in Entry /\ Old(a, b).used /\ Pair(Old(a, b)) = {a, b}
        /\ Values(Old(a, b)) = IF p \in DOMAIN Settings(table) THEN Settings(table)[p]
                               ELSE [rssi |-> None, loss |-> None]
    BY <2>1, OldIsKnown
  <2>5. o \in Entry /\ o.used /\ Pair(o) = {a, b}
    BY <2>4, Zenon DEF Entry, Pair
  <2>6. Values(o) = [Values(Old(a, b)) EXCEPT ![field] = v]
    BY <2>4 DEF Entry, Values
  <2> HIDE DEF o
  <2>7. CASE HasRoom(a, b)
    <3>1. Written(p, Put(a, b, o), Values(o))
      <4>1. IF HasRoom(a, b) THEN Written({a, b}, Put(a, b, o), Values(o))
            ELSE /\ Put(a, b, o) = table /\ {a, b} \notin Bound(table)
                 /\ ~(Cardinality(Bound(table)) < MaxOverrides)
        BY <2>1, <2>5, PutWrites
      <4> QED
        BY <4>1, <2>7, Zenon
    <3>2. reply'.link = {} /\ table' = Put(a, b, o)
      BY <2>2, <2>3, <2>7, Zenon DEF OK
    <3> HIDE DEF p
    <3>3. ConfigInv'
      BY <2>2, <3>1, <3>2, Zenon DEF ConfigInv, Written
    <3>4. DOMAIN Settings(table) = Bound(table)
      BY SettingsAt, Zenon DEF ConfigInv
    <3>5. Overrides!Room(p)
      BY <3>1, <3>4, SameCount, Zenon DEF Written, Overrides!Room
    <3>6. Overrides!Known(p) = Values(Old(a, b))
      BY <2>4, Zenon DEF Overrides!Known
    <3>7. Settings(table)' = Overrides!With(p, [Overrides!Known(p) EXCEPT ![field] = v])
      BY <2>6, <3>1, <3>2, <3>6, Zenon DEF Written, Updated, Overrides!With
    <3>8. Sets(p, field, v)
      BY <3>2, <3>5, <3>7, Zenon DEF Sets, Overrides!Pin, Overrides!Lose
    <3> QED
      BY <2>1, <3>3, <3>8 DEF Refined, Sets, Overrides!Next
  <2>8. CASE ~HasRoom(a, b)
    <3>1. /\ Put(a, b, o) = table /\ p \notin Bound(table)
          /\ ~(Cardinality(Bound(table)) < MaxOverrides)
      BY <2>1, <2>5, <2>8, PutWrites
    <3>2. table' = table /\ reply'.link = p
      BY <2>2, <2>3, <2>8, <3>1, Zenon DEF Err
    <3> HIDE DEF p
    <3>3. ConfigInv'
      BY <2>2, <3>2, Zenon DEF ConfigInv
    <3>4. DOMAIN Settings(table) = Bound(table)
      BY SettingsAt, Zenon DEF ConfigInv
    <3>5. Overrides!Refuse(p)
      BY <3>1, <3>2, <3>4, SameCount, Zenon DEF Overrides!Refuse, Overrides!Room
    <3> QED
      BY <2>1, <3>3, <3>5 DEF Refined, Overrides!Next
  <2> QED
    BY <2>7, <2>8, Zenon
<1> QED
  BY <1>2, <1>3, Zenon

LEMMA ClearLinkStep ==
  ASSUME ConfigInv, NEW i \in Idents, NEW j \in Idents, ClearLink(i, j)
  PROVE  Refined
<1> DEFINE a == resolve_node(node, owner, i)
           b == resolve_node(node, owner, j)
           k == Lowest(Slots(a, b))
           u == [table EXCEPT ![k].used = FALSE]
<1>1. /\ owner' = owner /\ reply' = OK
      /\ table' = IF Slots(a, b) = {} THEN table ELSE u
  BY Zenon DEF ClearLink
<1>2. reply'.link = {}
  BY <1>1, Zenon DEF OK
<1> HIDE DEF a, b
<1>3. CASE Slots(a, b) = {}
  BY <1>1, <1>2, <1>3, Ignored, Zenon
<1>4. CASE Slots(a, b) # {}
  <2>1. table \in Seq(Entry) /\ Unique(table) /\ Len(table) <= MaxOverrides
    BY Zenon DEF ConfigInv
  <2>2. k \in Slots(a, b)
    BY <1>4, <2>1, LowestIsMember, Zenon DEF Slots
  <2>3. table' = u
    BY <1>1, <1>4, Zenon
  <2> HIDE DEF k
  <2>4. k \in DOMAIN table /\ k \in Used(table) /\ Pair(table[k]) = {a, b}
    BY <2>2, Zenon DEF Slots, IsFor, Used, Pair
  <2>5. table[k] \in Entry
    BY <2>1, <2>4
  <2>6. [table[k] EXCEPT !.used = FALSE] \in Entry /\ ~[table[k] EXCEPT !.used = FALSE].used
    BY <2>5, Zenon DEF Entry
  <2>7. u = [table EXCEPT ![k] = [table[k] EXCEPT !.used = FALSE]]
    BY Zenon
  <2>8. u \in Seq(Entry) /\ Len(u) = Len(table) /\ DOMAIN u = DOMAIN table
    BY <2>1, <2>4, <2>6, <2>7
  <2>9. \A m \in DOMAIN table : u[m] = IF m = k THEN [table[k] EXCEPT !.used = FALSE] ELSE table[m]
    BY <2>1, <2>7, Zenon
  <2> HIDE DEF u
  <2>10. Lacks(table, u, k)
    <3>1. \A m \in DOMAIN table : m # k => u[m] = table[m]
      BY <2>9, Zenon
    <3>2. ~u[k].used
      BY <2>4, <2>6, <2>9, Zenon
    <3> QED
      BY <2>4, <2>8, <3>1, <3>2, Zenon DEF Used, Lacks
  <2>11. Unique(u) /\ Removed(table, u, Pair(table[k]))
    BY <2>1, <2>4, <2>8, <2>10, EntryCleared, Zenon
  <2>12. ConfigInv'
    BY <1>1, <2>1, <2>3, <2>8, <2>11, Zenon DEF ConfigInv
  <2>13. Overrides!Clear({a, b})
    BY <1>2, <2>3, <2>4, <2>11, Zenon DEF Removed, Overrides!Clear
  <2>14. {a, b} \in {{x, y} : x, y \in Idents}
    BY <2>4, <2>5 DEF Entry, Pair
  <2> QED
    BY <2>12, <2>13, <2>14 DEF Refined, Overrides!Next
<1> QED
  BY <1>3, <1>4, Zenon

\* The empty table, of a hub that starts.
LEMMA EmptyTable ==
  /\ <<>> \in Seq(Entry) /\ Len(<<>>) <= MaxOverrides /\ Unique(<<>>)
  /\ Settings(<<>>) = [p \in {} |-> None]
<1>1. Used(<<>>) = {}
  BY DEF Used
<1>2. <<>> \in Seq(Entry) /\ Len(<<>>) <= MaxOverrides
  BY ConfigAssumption
<1>3. Unique(<<>>)
  BY <1>1, Zenon DEF Unique
<1>4. {Pair(<<>>[k]) : k \in Used(<<>>)} = {}
  BY <1>1, Zenon
<1>5. Settings(<<>>) = [p \in {} |-> None]
  BY <1>4, Zenon DEF Settings
<1> QED
  BY <1>2, <1>3, <1>5, Zenon

LEMMA NextRefines ==
  ASSUME ConfigInv, [Next]_vars
  PROVE  ConfigInv' /\ [Overrides!Next]_<<Settings(table), reply.link>>
<1>1. ASSUME NEW i \in Idents, NEW field, NEW v, Set(i, field, v) PROVE Refined
  <2>1. table' = table /\ owner' = owner /\ reply' = Answer(node, owner, i)
    BY <1>1, Zenon DEF Set
  <2>2. reply'.link = {}
    BY <2>1, Zenon DEF Answer, OK, Err
  <2> QED
    BY <2>1, <2>2, Ignored, Zenon
<1>2. ASSUME NEW i \in Idents, NEW j \in Idents, NEW r \in Strengths, SetRssi(i, j, r) PROVE Refined
  BY <1>2, OverrideStep, Zenon DEF SetRssi
<1>3. ASSUME NEW i \in Idents, NEW j \in Idents, NEW l \in Losses, SetLoss(i, j, l) PROVE Refined
  BY <1>3, OverrideStep, Zenon DEF SetLoss
<1>4. ASSUME NEW x, SetPathloss(x) \/ SaveConfig PROVE Refined
  BY <1>4, Ignored DEF SetPathloss, SaveConfig, OK
<1>5. ASSUME Restart PROVE Refined
  <2>1. owner' = [a \in Addrs |-> None] /\ table' = <<>> /\ reply'.link = {}
    BY <1>5, Zenon DEF Restart, OK
  <2>2. ConfigInv'
    BY <2>1, EmptyTable, Zenon DEF ConfigInv
  <2>3. Overrides!Reset
    BY <2>1, EmptyTable, Zenon DEF Overrides!Reset
  <2> QED
    BY <2>2, <2>3 DEF Refined, Overrides!Next
<1>6. ASSUME NEW n \in Names, NEW a \in Addrs, Learn(n, a)
      PROVE  ConfigInv' /\ table' = table /\ reply' = reply
  BY <1>6, Zenon DEF Learn, ConfigInv
<1>7. ASSUME NEW n \in Names, NEW b \in BOOLEAN, Attach(n, b)
      PROVE  ConfigInv' /\ table' = table /\ reply' = reply
  BY <1>7, Zenon DEF Attach, ConfigInv
<1>8. ASSUME UNCHANGED vars PROVE ConfigInv' /\ table' = table /\ reply' = reply
  BY <1>8, Zenon DEF vars, ConfigInv
<1>9. Refined \/ (ConfigInv' /\ table' = table /\ reply' = reply)
  BY <1>1, <1>2, <1>3, <1>4, <1>5, <1>6, <1>7, <1>8, ClearLinkStep, Zenon
     DEF Next, SetPos, SetTxPower, SetSens
<1>10. Refined => ConfigInv' /\ [Overrides!Next]_<<Settings(table), reply.link>>
  BY Zenon DEF Refined
<1>11. (table' = table /\ reply' = reply) =>
         Settings(table)' = Settings(table) /\ (reply.link)' = reply.link
  BY Zenon
<1> QED
  BY <1>9, <1>10, <1>11, Zenon

LEMMA InitRefines == Init => ConfigInv /\ Overrides!Init
BY EmptyTable DEF Init, ConfigInv, Overrides!Init, OK

\* The used slots of the table name distinct pairs.
THEOREM OverrideInvariant == Spec => []ConfigInv
<1>1. ConfigInv /\ [Next]_vars => ConfigInv'
  BY NextRefines, Zenon
<1> QED
  BY InitRefines, <1>1, PTL DEF Spec

\* The table of overrides implements the map, whatever the number of slots, the nodes
\* and the values: find_override finds, reuses and appends slots so that a pair has at
\* most one, and refuses a pair only when all slots are those of other pairs.
THEOREM OverrideTableIsAMap == Spec => OverridesAreAMap
<1>1. ConfigInv /\ [Next]_vars => ConfigInv' /\ [Overrides!Next]_<<Settings(table), reply.link>>
  BY NextRefines, Zenon
<1> QED
  BY InitRefines, <1>1, PTL DEF Spec, OverridesAreAMap, Overrides!Spec

-----------------------------------------------------------------------------
(* Folds over finite sets *)

LEMMA LeastElement ==
  ASSUME NEW S \in SUBSET Nat, S # {}
  PROVE  \E m \in S : \A n \in S : m <= n
<1>1. PICK m \in S : \A n \in S : <<n, m>> \notin OpToRel(<, Nat)
  BY NatLessThanWellFounded, WFMin, Zenon
<1>2. \A n \in S : ~(n < m)
  BY <1>1, Zenon DEF OpToRel
<1> QED
  BY <1>2

\* Induction on the size of a subset: a set of sets with {} that has s whenever it has
\* s without any one of its elements has all subsets.
LEMMA SubsetInduction ==
  ASSUME NEW S, IsFiniteSet(S), NEW G, {} \in G,
         \A s \in SUBSET S : s # {} /\ (\A x \in s : s \ {x} \in G) => s \in G
  PROVE  \A s \in SUBSET S : s \in G
<1> DEFINE Bad == {s \in SUBSET S : s \notin G}
           Sizes == {Cardinality(s) : s \in Bad}
<1>1. SUFFICES ASSUME Bad # {} PROVE FALSE
  BY Zenon
<1>2. \A s \in SUBSET S : IsFiniteSet(s) /\ Cardinality(s) \in Nat
  BY FS_Subset, FS_CardinalityType, Zenon
<1>3. Sizes \in SUBSET Nat /\ Sizes # {}
  BY <1>1, <1>2
<1>4. PICK n \in Sizes : \A m \in Sizes : n <= m
  BY <1>3, LeastElement, Zenon
<1>5. PICK s \in Bad : n = Cardinality(s)
  BY Zenon
<1>6. ASSUME NEW x \in s PROVE s \ {x} \in G
  <2>1. s \in SUBSET S /\ s \ {x} \in SUBSET S
    BY Zenon
  <2>2. Cardinality(s \ {x}) = Cardinality(s) - 1
    BY <1>2, <2>1, FS_RemoveElement, Zenon
  <2>3. Cardinality(s \ {x}) \in Nat /\ n \in Nat /\ Cardinality(s \ {x}) < n
    BY <1>2, <1>5, <2>1, <2>2
  <2>4. Cardinality(s \ {x}) \notin Sizes
    BY <1>4, <2>3
  <2> QED
    BY <2>1, <2>4, Zenon
<1> QED
  BY <1>5, <1>6, Zenon

\* f folds the steps op over the subsets of S, from a.
Folds(f, S, a, op) ==
  \A s \in SUBSET S : f[s] = IF s = {} THEN a
                             ELSE op[CHOOSE x \in s : TRUE][f[s \ {CHOOSE x \in s : TRUE}]]

LEMMA FoldExists ==
  ASSUME NEW S, IsFiniteSet(S), NEW A, NEW a \in A, NEW op \in [S -> [A -> A]]
  PROVE  \E f \in [SUBSET S -> A] : Folds(f, S, a, op)
<1> DEFINE Size(s) == Cardinality(s)
           x(s) == CHOOSE y \in s : TRUE
           Upto(f, n) == \A s \in SUBSET S : Size(s) <= n =>
                           f[s] = IF s = {} THEN a ELSE op[x(s)][f[s \ {x(s)}]]
           N == {n \in Nat : \E f \in [SUBSET S -> A] : Upto(f, n)}
<1>1. \A s \in SUBSET S : IsFiniteSet(s) /\ Size(s) \in Nat /\ (Size(s) = 0 <=> s = {})
  BY FS_Subset, FS_CardinalityType, FS_EmptySet, Zenon
<1>2. \A s \in SUBSET S : s # {} => x(s) \in s /\ s \ {x(s)} \in SUBSET S /\ Size(s \ {x(s)}) = Size(s) - 1
  BY <1>1, FS_RemoveElement, Zenon
<1> HIDE DEF Size, x
<1>3. 0 \in N
  <2>1. [s \in SUBSET S |-> a] \in [SUBSET S -> A] /\ Upto([s \in SUBSET S |-> a], 0)
    BY <1>1
  <2> QED
    BY <2>1, Zenon
<1>4. ASSUME NEW n \in N PROVE n + 1 \in N
  <2>1. PICK f \in [SUBSET S -> A] : Upto(f, n)
    BY Zenon
  <2> DEFINE g == [s \in SUBSET S |-> IF Size(s) <= n THEN f[s] ELSE op[x(s)][f[s \ {x(s)}]]]
  <2>2. ASSUME NEW s \in SUBSET S PROVE g[s] \in A
    <3>1. CASE Size(s) <= n
      BY <3>1, Zenon
    <3>2. CASE ~(Size(s) <= n)
      <4>1. s # {}
        BY <1>1, <3>2
      <4>2. op[x(s)] \in [A -> A] /\ f[s \ {x(s)}] \in A
        BY <1>2, <4>1, Zenon
      <4> QED
        BY <3>2, <4>2, Zenon
    <3> QED
      BY <3>1, <3>2, Zenon
  <2>3. g \in [SUBSET S -> A]
    BY <2>2, Zenon
  <2>4. ASSUME NEW s \in SUBSET S, Size(s) <= n + 1
        PROVE  g[s] = IF s = {} THEN a ELSE op[x(s)][g[s \ {x(s)}]]
    <3>1. CASE s = {}
      <4>1. Size(s) <= n /\ Size(s) \in Nat
        BY <1>1, <3>1
      <4>2. g[s] = f[s] /\ f[s] = a
        BY <2>1, <3>1, <4>1, Zenon
      <4> QED
        BY <3>1, <4>2, Zenon
    <3>2. CASE s # {}
      <4>1. s \ {x(s)} \in SUBSET S /\ Size(s \ {x(s)}) <= n
        BY <1>1, <1>2, <2>4, <3>2
      <4>2. g[s \ {x(s)}] = f[s \ {x(s)}]
        BY <4>1, Zenon
      <4>3. g[s] = op[x(s)][f[s \ {x(s)}]]
        <5>1. CASE Size(s) <= n
          <6>1. g[s] = f[s]
            BY <5>1, Zenon
          <6> QED
            BY <2>1, <3>2, <5>1, <6>1, Zenon
        <5>2. CASE ~(Size(s) <= n)
          BY <5>2, Zenon
        <5> QED
          BY <5>1, <5>2, Zenon
      <4> QED
        BY <3>2, <4>2, <4>3, Zenon
    <3> QED
      BY <3>1, <3>2, Zenon
  <2> HIDE DEF g
  <2>5. Upto(g, n + 1)
    BY <2>4, Zenon
  <2>6. n + 1 \in Nat
    OBVIOUS
  <2> HIDE DEF Upto
  <2> QED
    BY <2>3, <2>5, <2>6, Zenon
<1> HIDE DEF N
<1>5. Cardinality(S) \in N
  <2> DEFINE Bad == {n \in Nat : n \notin N}
  <2>1. SUFFICES ASSUME Bad # {} PROVE FALSE
    BY FS_CardinalityType, Zenon
  <2>2. PICK m \in Bad : \A n \in Bad : m <= n
    BY <2>1, LeastElement, Zenon
  <2>3. m \in Nat /\ m \notin N /\ m # 0
    BY <1>3, <2>2, Zenon
  <2>4. m - 1 \in Nat /\ ~(m <= m - 1) /\ (m - 1) + 1 = m
    BY <2>3
  <2>5. m - 1 \in N
    BY <2>2, <2>4, Zenon
  <2> QED
    BY <1>4, <2>3, <2>4, <2>5, Zenon
<1>6. PICK f \in [SUBSET S -> A] : Upto(f, Cardinality(S))
  BY <1>5, Zenon DEF N
<1>7. \A s \in SUBSET S : Size(s) <= Cardinality(S)
  BY FS_Subset, Zenon DEF Size
<1> QED
  BY <1>6, <1>7, Zenon DEF Folds, x

-----------------------------------------------------------------------------
(* The settings of the nodes and the snapshot *)

Radio == [pos : Places \cup {None}, power : Powers \cup {None},
          floor : Floors \cup {DefaultFloor}, physical : BOOLEAN]

NodeTable ==
  {f \in UNION {[D -> Radio] : D \in SUBSET Idents} :
     IsFiniteSet(DOMAIN f) /\ Cardinality(DOMAIN f) <= MaxNodes}

Rates == Exponents \cup {DefaultExponent}

Lines == [cmd : {"SET_PATHLOSS"}, node : {None}, value : Rates]
         \cup [cmd : {"SET_POS"}, node : Idents, value : Places]
         \cup [cmd : {"SET_TXPOWER"}, node : Idents, value : Powers]

SettingsInv ==
  /\ owner \in [Addrs -> Names \cup {None}]
  /\ node \in NodeTable /\ exponent \in Rates
  /\ file \in SUBSET Lines /\ IsFiniteSet(file)

LEMMA NodeTableIs ==
  ASSUME NEW f
  PROVE  f \in NodeTable <=> /\ DOMAIN f \in SUBSET Idents /\ f \in [DOMAIN f -> Radio]
                             /\ IsFiniteSet(DOMAIN f) /\ Cardinality(DOMAIN f) <= MaxNodes
<1>1. ASSUME f \in NodeTable PROVE DOMAIN f \in SUBSET Idents /\ f \in [DOMAIN f -> Radio]
  <2>1. PICK D \in SUBSET Idents : f \in [D -> Radio]
    BY <1>1, Zenon DEF NodeTable
  <2>2. DOMAIN f = D
    BY <2>1, Zenon
  <2> QED
    BY <2>1, <2>2, Zenon
<1>2. ASSUME DOMAIN f \in SUBSET Idents, f \in [DOMAIN f -> Radio]
      PROVE  f \in UNION {[D -> Radio] : D \in SUBSET Idents}
  BY <1>2, Zenon
<1> QED
  BY <1>1, <1>2, Zenon DEF NodeTable

\* A node is created only if the table has room for it.
LEMMA FindNodeStays ==
  ASSUME NEW nodes \in NodeTable, NEW n \in Idents
  PROVE  find_node(nodes, n) \in NodeTable
<1>1. /\ DOMAIN nodes \in SUBSET Idents /\ nodes \in [DOMAIN nodes -> Radio]
      /\ IsFiniteSet(DOMAIN nodes) /\ Cardinality(DOMAIN nodes) \in Nat
  BY NodeTableIs, FS_CardinalityType, Zenon
<1>2. CASE n \in DOMAIN nodes \/ Cardinality(DOMAIN nodes) >= MaxNodes
  BY <1>2, Zenon DEF find_node
<1>3. CASE n \notin DOMAIN nodes /\ ~(Cardinality(DOMAIN nodes) >= MaxNodes)
  <2> DEFINE f == [m \in DOMAIN nodes \cup {n} |-> IF m = n THEN FreshNode ELSE nodes[m]]
  <2>1. FreshNode \in Radio
    BY Zenon DEF FreshNode, Radio
  <2>2. DOMAIN f = DOMAIN nodes \cup {n} /\ f \in [DOMAIN nodes \cup {n} -> Radio]
    BY <1>1, <2>1, Zenon
  <2>3. IsFiniteSet(DOMAIN f) /\ Cardinality(DOMAIN f) = Cardinality(DOMAIN nodes) + 1
    BY <1>1, <1>3, <2>2, FS_AddElement, Zenon
  <2>4. Cardinality(DOMAIN f) <= MaxNodes
    BY <1>1, <1>3, <2>3, ConfigAssumption
  <2>5. find_node(nodes, n) = f
    BY <1>3, Zenon DEF find_node
  <2> HIDE DEF f
  <2>6. f \in NodeTable
    BY <1>1, <2>2, <2>3, <2>4, NodeTableIs, Zenon
  <2> QED
    BY <2>5, <2>6, Zenon
<1> QED
  BY <1>2, <1>3, Zenon

LEMMA SettingStays ==
  ASSUME NEW nodes \in NodeTable, NEW n \in DOMAIN nodes, NEW r \in Radio
  PROVE  [nodes EXCEPT ![n] = r] \in NodeTable
<1> DEFINE f == [nodes EXCEPT ![n] = r]
<1>1. /\ DOMAIN nodes \in SUBSET Idents /\ nodes \in [DOMAIN nodes -> Radio]
      /\ IsFiniteSet(DOMAIN nodes) /\ Cardinality(DOMAIN nodes) <= MaxNodes
  BY NodeTableIs, Zenon
<1>2. DOMAIN f = DOMAIN nodes /\ f \in [DOMAIN nodes -> Radio]
  BY <1>1, Zenon
<1> HIDE DEF f
<1>3. f \in NodeTable
  BY <1>1, <1>2, NodeTableIs, Zenon
<1> QED
  BY <1>3, Zenon DEF f

\* The commands SET_POS, SET_TXPOWER and SET_SENS.
LEMMA ConfiguredStays ==
  ASSUME NEW nodes \in NodeTable, NEW owners \in [Addrs -> Names \cup {None}], NEW i \in Idents
  PROVE  /\ \A p \in Places : Configured(nodes, owners, i, "pos", p) \in NodeTable
         /\ \A w \in Powers : Configured(nodes, owners, i, "power", w) \in NodeTable
         /\ \A f \in Floors : Configured(nodes, owners, i, "floor", f) \in NodeTable
<1> DEFINE found == resolve_node(nodes, owners, i)
           n     == IF found # None THEN found ELSE i
           ns    == find_node(nodes, n)
<1>1. n \in Idents
  <2>1. DOMAIN nodes \in SUBSET Idents
    BY NodeTableIs, Zenon
  <2> QED
    BY <2>1, Zenon DEF resolve_node, Idents
<1>2. \A field, v : Configured(nodes, owners, i, field, v) =
                      IF n \notin DOMAIN ns THEN nodes ELSE [ns EXCEPT ![n][field] = v]
  BY Zenon DEF Configured
<1> HIDE DEF n
<1>3. ns \in NodeTable
  BY <1>1, FindNodeStays, Zenon
<1> HIDE DEF ns
<1>4. CASE n \notin DOMAIN ns
  BY <1>2, <1>4, Zenon
<1>5. CASE n \in DOMAIN ns
  <2>1. ns \in [DOMAIN ns -> Radio] /\ ns[n] \in Radio
    BY <1>3, <1>5, NodeTableIs, Zenon
  <2>2. /\ \A p \in Places : [ns[n] EXCEPT !.pos = p] \in Radio
        /\ \A w \in Powers : [ns[n] EXCEPT !.power = w] \in Radio
        /\ \A f \in Floors : [ns[n] EXCEPT !.floor = f] \in Radio
    BY <2>1, Zenon DEF Radio
  <2>3. /\ \A p \in Places : [ns EXCEPT ![n]["pos"] = p] = [ns EXCEPT ![n] = [ns[n] EXCEPT !.pos = p]]
        /\ \A w \in Powers : [ns EXCEPT ![n]["power"] = w] = [ns EXCEPT ![n] = [ns[n] EXCEPT !.power = w]]
        /\ \A f \in Floors : [ns EXCEPT ![n]["floor"] = f] = [ns EXCEPT ![n] = [ns[n] EXCEPT !.floor = f]]
    BY <2>1, <1>5, Zenon
  <2> QED
    BY <1>2, <1>3, <1>5, <2>2, <2>3, SettingStays
<1> QED
  BY <1>4, <1>5, Zenon

-----------------------------------------------------------------------------
(* Reading the snapshot *)

Configs == [node : NodeTable, exponent : Rates]
Start   == [node |-> [n \in {} |-> FreshNode], exponent |-> DefaultExponent]
Nobody  == [a \in Addrs |-> None]

LEMMA StartIsConfig == Start \in Configs
<1> DEFINE f == [n \in {} |-> FreshNode]
<1>1. DOMAIN f = {} /\ f \in [DOMAIN f -> Radio]
  BY Zenon
<1> HIDE DEF f
<1>2. IsFiniteSet({}) /\ Cardinality({}) = 0 /\ 0 <= MaxNodes
  BY FS_EmptySet, ConfigAssumption
<1>3. f \in NodeTable
  BY <1>1, <1>2, NodeTableIs, Zenon
<1> QED
  BY <1>3, Zenon DEF Start, Configs, Rates, f

LEMMA DispatchStays ==
  ASSUME NEW line \in Lines, NEW hub \in Configs
  PROVE  ctl_dispatch(line, hub) \in Configs
<1>1. hub.node \in NodeTable /\ hub.exponent \in Rates /\ Nobody \in [Addrs -> Names \cup {None}]
  BY Zenon DEF Configs, Nobody
<1>2. CASE line.cmd = "SET_PATHLOSS"
  <2>1. line.value \in Rates
    BY <1>2, Zenon DEF Lines
  <2> QED
    BY <1>1, <1>2, <2>1, Zenon DEF ctl_dispatch, Configs
<1>3. CASE line.cmd = "SET_POS"
  <2>1. line.node \in Idents /\ line.value \in Places
    BY <1>3, Zenon DEF Lines
  <2>2. Configured(hub.node, Nobody, line.node, "pos", line.value) \in NodeTable
    BY <1>1, <2>1, ConfiguredStays, Zenon
  <2>3. ctl_dispatch(line, hub) = [hub EXCEPT !.node = Configured(hub.node, Nobody, line.node, "pos", line.value)]
    BY <1>3, Zenon DEF ctl_dispatch, Nobody
  <2> QED
    BY <1>1, <2>2, <2>3, Zenon DEF Configs
<1>4. CASE line.cmd = "SET_TXPOWER"
  <2>1. line.node \in Idents /\ line.value \in Powers
    BY <1>4, Zenon DEF Lines
  <2>2. Configured(hub.node, Nobody, line.node, "power", line.value) \in NodeTable
    BY <1>1, <2>1, ConfiguredStays, Zenon
  <2>3. ctl_dispatch(line, hub) = [hub EXCEPT !.node = Configured(hub.node, Nobody, line.node, "power", line.value)]
    BY <1>4, Zenon DEF ctl_dispatch, Nobody
  <2> QED
    BY <1>1, <2>2, <2>3, Zenon DEF Configs
<1>5. line.cmd \in {"SET_PATHLOSS", "SET_POS", "SET_TXPOWER"}
  BY Zenon DEF Lines
<1> QED
  BY <1>2, <1>3, <1>4, <1>5, Zenon

\* g has the configuration after each subset of the lines of f.
Replays(g, f) ==
  /\ g \in [SUBSET f -> Configs] /\ g[{}] = Start
  /\ \A s \in SUBSET f : s # {} => \E x \in s : g[s] = ctl_dispatch(x, g[s \ {x}])

LEMMA LoadReplays ==
  ASSUME NEW f \in SUBSET Lines, IsFiniteSet(f)
  PROVE  \E g : Replays(g, f) /\ load_config_file(f) = g[f]
<1> DEFINE Def(g) == [s \in SUBSET f |->
                        IF s = {} THEN Start
                        ELSE ctl_dispatch(CHOOSE x \in s : TRUE, g[s \ {CHOOSE x \in s : TRUE}])]
           load == CHOOSE g : g = Def(g)
           op == [x \in f |-> [h \in Configs |-> ctl_dispatch(x, h)]]
<1>1. load_config_file(f) = load[f]
  BY Zenon DEF load_config_file, FoldSet, MapThenFoldSet, Start
<1>2. op \in [f -> [Configs -> Configs]]
  BY DispatchStays, Zenon
<1>3. PICK g \in [SUBSET f -> Configs] : Folds(g, f, Start, op)
  BY <1>2, StartIsConfig, FoldExists, Zenon
<1>4. g = Def(g)
  <2>1. ASSUME NEW s \in SUBSET f PROVE g[s] = Def(g)[s]
    <3>1. CASE s = {}
      BY <1>3, <3>1, Zenon DEF Folds
    <3>2. CASE s # {}
      <4> DEFINE x == CHOOSE y \in s : TRUE
      <4>1. x \in s /\ x \in f /\ s \ {x} \in SUBSET f
        BY <3>2, Zenon
      <4>2. g[s] = op[x][g[s \ {x}]]
        BY <1>3, <3>2, Zenon DEF Folds
      <4>3. op[x][g[s \ {x}]] = ctl_dispatch(x, g[s \ {x}])
        BY <4>1, Zenon
      <4> QED
        BY <3>2, <4>2, <4>3, Zenon
    <3> QED
      BY <3>1, <3>2, Zenon
  <2> QED
    BY <2>1, Zenon
<1>5. load = Def(load)
  BY <1>4, Zenon
<1> HIDE DEF load
<1>6. \A s \in SUBSET f : load[s] = IF s = {} THEN Start
                        ELSE ctl_dispatch(CHOOSE x \in s : TRUE, load[s \ {CHOOSE x \in s : TRUE}])
  BY <1>5, Zenon
<1>7. load = [s \in SUBSET f |-> load[s]]
  BY <1>5, Zenon
<1> DEFINE Good == {s \in SUBSET f : load[s] \in Configs}
<1>8. {} \in Good
  BY <1>6, StartIsConfig, Zenon
<1>9. ASSUME NEW s \in SUBSET f, s # {}, \A x \in s : s \ {x} \in Good PROVE s \in Good
  <2> DEFINE x == CHOOSE y \in s : TRUE
  <2>1. x \in s /\ x \in Lines /\ load[s \ {x}] \in Configs
    BY <1>9, Zenon
  <2>2. load[s] = ctl_dispatch(x, load[s \ {x}])
    BY <1>6, <1>9, Zenon
  <2> HIDE DEF x
  <2>3. load[s] \in Configs
    BY <2>1, <2>2, DispatchStays
  <2> QED
    BY <2>3, Zenon
<1> HIDE DEF Good
<1>10. \A s \in SUBSET f : s \in Good
  BY <1>8, <1>9, SubsetInduction, Zenon
<1>11. load \in [SUBSET f -> Configs]
  BY <1>7, <1>10, Zenon DEF Good
<1>12. \A s \in SUBSET f : s # {} => \E x \in s : load[s] = ctl_dispatch(x, load[s \ {x}])
  BY <1>6, Zenon
<1>13. load[{}] = Start
  BY <1>6, Zenon
<1> QED
  BY <1>1, <1>11, <1>12, <1>13, Zenon DEF Replays

-----------------------------------------------------------------------------
(* The snapshot gives back what it saved *)

HasLine(s, cmd, n) == \E l \in s : l.cmd = cmd /\ l.node = n

LEMMA PrintedIsClose ==
  ASSUME NEW p \in Positions
  PROVE  Printed(p) \in Places /\ Printed(p) \in Int /\ Distance(Printed(p), p) <= 1
<1>1. p \in Int
  BY ConfigAssumption, Zenon
<1> DEFINE q == (p + 1) \div 3
<1>2. q \in Int /\ 3 * q <= p + 1 /\ p + 1 < 3 * q + 3
  BY <1>1
<1> HIDE DEF q
<1>3. Distance(3 * q, p) <= 1
  BY <1>1, <1>2 DEF Distance
<1> QED
  BY <1>2, <1>3 DEF Printed, Places, q

\* A position that was printed is printed as it is.
LEMMA PlacesArePrinted ==
  ASSUME NEW p \in Places
  PROVE  p \in Int /\ Printed(p) \in Places /\ Distance(Printed(p), p) <= 1
<1>1. CASE p \in Positions
  BY <1>1, PrintedIsClose, ConfigAssumption, Zenon
<1>2. CASE p \notin Positions
  <2>1. PICK r \in Positions : p = Printed(r)
    BY <1>2, Zenon DEF Places
  <2> DEFINE q == (r + 1) \div 3
  <2>2. q \in Int /\ p = 3 * q
    BY <2>1, ConfigAssumption DEF Printed
  <2> HIDE DEF q
  <2>3. (p + 1) \div 3 = q
    BY <2>2
  <2>4. Printed(p) = p
    BY <2>2, <2>3, Zenon DEF Printed
  <2>5. Distance(p, p) = 0
    BY <2>2 DEF Distance
  <2> QED
    BY <2>2, <2>4, <2>5
<1> QED
  BY <1>1, <1>2, Zenon

\* What the lines of the snapshot say.
LEMMA SavedLines ==
  ASSUME SettingsInv
  PROVE  /\ save_config \in SUBSET Lines
         /\ \A l \in save_config : l.cmd = "SET_PATHLOSS" => l.value = exponent
         /\ \A l \in save_config : l.cmd = "SET_POS" =>
              l.node \in DOMAIN node /\ node[l.node].pos # None /\ l.value = Printed(node[l.node].pos)
         /\ \A l \in save_config : l.cmd = "SET_TXPOWER" =>
              l.node \in DOMAIN node /\ node[l.node].power # None /\ l.value = node[l.node].power
         /\ \E l \in save_config : l.cmd = "SET_PATHLOSS"
         /\ \A n \in DOMAIN node : node[n].pos # None => HasLine(save_config, "SET_POS", n)
         /\ \A n \in DOMAIN node : node[n].power # None => HasLine(save_config, "SET_TXPOWER", n)
<1>1. /\ DOMAIN node \in SUBSET Idents /\ node \in [DOMAIN node -> Radio] /\ exponent \in Rates
  BY NodeTableIs, Zenon DEF SettingsInv
<1>2. ASSUME NEW n \in DOMAIN node
      PROVE  /\ node[n].pos # None => node[n].pos \in Places /\ Printed(node[n].pos) \in Places
             /\ node[n].power # None => node[n].power \in Powers
  BY <1>1, PlacesArePrinted, Zenon DEF Radio
<1>3. ASSUME NEW l \in save_config
      PROVE  \/ l = Line("SET_PATHLOSS", None, exponent)
             \/ \E n \in DOMAIN node : node[n].pos # None /\ l = Line("SET_POS", n, Printed(node[n].pos))
             \/ \E n \in DOMAIN node : node[n].power # None /\ l = Line("SET_TXPOWER", n, node[n].power)
  <2>1. l = Line("SET_PATHLOSS", None, exponent) \/ \E n \in DOMAIN node : l \in NodeLines(n)
    BY Zenon DEF save_config
  <2> QED
    BY <2>1, Zenon DEF NodeLines
<1>4. /\ Line("SET_PATHLOSS", None, exponent) \in save_config
      /\ \A n \in DOMAIN node : NodeLines(n) \subseteq save_config
  BY Zenon DEF save_config
<1>5. \A n \in DOMAIN node : node[n].pos # None => Line("SET_POS", n, Printed(node[n].pos)) \in save_config
  BY <1>4, Zenon DEF NodeLines
<1>6. \A n \in DOMAIN node : node[n].power # None => Line("SET_TXPOWER", n, node[n].power) \in save_config
  BY <1>4, Zenon DEF NodeLines
<1>7. ASSUME NEW l \in save_config
      PROVE  /\ l \in Lines
             /\ l.cmd = "SET_PATHLOSS" => l.value = exponent
             /\ l.cmd = "SET_POS" =>
                  l.node \in DOMAIN node /\ node[l.node].pos # None /\ l.value = Printed(node[l.node].pos)
             /\ l.cmd = "SET_TXPOWER" =>
                  l.node \in DOMAIN node /\ node[l.node].power # None /\ l.value = node[l.node].power
  <2>1. CASE l = Line("SET_PATHLOSS", None, exponent)
    BY <1>1, <2>1, Zenon DEF Line, Lines
  <2>2. ASSUME NEW n \in DOMAIN node, node[n].pos # None, l = Line("SET_POS", n, Printed(node[n].pos))
        PROVE  /\ l \in Lines /\ l.cmd = "SET_POS"
               /\ l.node \in DOMAIN node /\ node[l.node].pos # None /\ l.value = Printed(node[l.node].pos)
    BY <1>1, <1>2, <2>2, Zenon DEF Line, Lines
  <2>3. ASSUME NEW n \in DOMAIN node, node[n].power # None, l = Line("SET_TXPOWER", n, node[n].power)
        PROVE  /\ l \in Lines /\ l.cmd = "SET_TXPOWER"
               /\ l.node \in DOMAIN node /\ node[l.node].power # None /\ l.value = node[l.node].power
    BY <1>1, <1>2, <2>3, Zenon DEF Line, Lines
  <2> QED
    BY <1>3, <2>1, <2>2, <2>3, Zenon
<1>8. \A n \in DOMAIN node : node[n].pos # None => HasLine(save_config, "SET_POS", n)
  BY <1>5, Zenon DEF HasLine, Line
<1>9. \A n \in DOMAIN node : node[n].power # None => HasLine(save_config, "SET_TXPOWER", n)
  BY <1>6, Zenon DEF HasLine, Line
<1>10. \E l \in save_config : l.cmd = "SET_PATHLOSS"
  BY <1>4, Zenon DEF Line
<1> QED
  BY <1>7, <1>8, <1>9, <1>10, Zenon

LEMMA SnapshotIsFinite == ASSUME SettingsInv PROVE IsFiniteSet(save_config)
<1> DEFINE all == {NodeLines(n) : n \in DOMAIN node}
           f == [n \in DOMAIN node |-> NodeLines(n)]
<1>1. IsFiniteSet(DOMAIN node)
  BY NodeTableIs, Zenon DEF SettingsInv
<1>2. f \in Surjection(DOMAIN node, all)
  BY Zenon DEF Surjection
<1>3. IsFiniteSet(all)
  BY <1>1, <1>2, FS_Surjection, Zenon
<1>4. ASSUME NEW n \in DOMAIN node PROVE IsFiniteSet(NodeLines(n))
  <2> DEFINE a == Line("SET_POS", n, Printed(node[n].pos))
             b == Line("SET_TXPOWER", n, node[n].power)
  <2>1. NodeLines(n) \in SUBSET {a, b}
    BY Zenon DEF NodeLines
  <2>2. IsFiniteSet({a, b})
    <3>1. IsFiniteSet({a}) /\ {a, b} = {a} \cup {b}
      BY FS_Singleton, Zenon
    <3> QED
      BY <3>1, FS_AddElement, Zenon
  <2> QED
    BY <2>1, <2>2, FS_Subset, Zenon
<1>5. IsFiniteSet(UNION all)
  BY <1>3, <1>4, FS_UNION, Zenon
<1>6. save_config = (UNION all) \cup {Line("SET_PATHLOSS", None, exponent)}
  BY Zenon DEF save_config
<1> QED
  BY <1>5, <1>6, FS_AddElement, Zenon

\* The configuration h after the lines s of the snapshot of the present state.
Restored(s, h) ==
  /\ h.exponent = IF \E l \in s : l.cmd = "SET_PATHLOSS" THEN exponent ELSE DefaultExponent
  /\ DOMAIN h.node = {n \in DOMAIN node : HasLine(s, "SET_POS", n) \/ HasLine(s, "SET_TXPOWER", n)}
  /\ \A n \in DOMAIN h.node :
       /\ h.node[n].pos = IF HasLine(s, "SET_POS", n) THEN Printed(node[n].pos) ELSE None
       /\ h.node[n].power = IF HasLine(s, "SET_TXPOWER", n) THEN node[n].power ELSE None

\* A line that names node n finds it or creates it: there is room, since no other nodes
\* are created than those of the table D that was saved.
Known(nodes, n, ns) ==
  /\ DOMAIN ns = DOMAIN nodes \cup {n} /\ ns \in [DOMAIN ns -> Radio]
  /\ \A m \in DOMAIN nodes : ns[m] = nodes[m]
  /\ n \notin DOMAIN nodes => ns[n].pos = None /\ ns[n].power = None

LEMMA ReloadFinds ==
  ASSUME NEW nodes \in NodeTable, NEW n \in Idents, NEW D, IsFiniteSet(D), Cardinality(D) <= MaxNodes,
         DOMAIN nodes \subseteq D, n \in D
  PROVE  \E ns : /\ Known(nodes, n, ns)
                 /\ \A field, v : Configured(nodes, Nobody, n, field, v) = [ns EXCEPT ![n][field] = v]
<1> DEFINE ns == find_node(nodes, n)
<1>1. /\ DOMAIN nodes \in SUBSET Idents /\ nodes \in [DOMAIN nodes -> Radio]
      /\ IsFiniteSet(DOMAIN nodes) /\ Cardinality(DOMAIN nodes) \in Nat
      /\ Cardinality(D) \in Nat /\ MaxNodes \in Nat
  BY NodeTableIs, FS_CardinalityType, ConfigAssumption, Zenon
<1>2. n # None
  BY ConfigAssumption, Zenon DEF Idents
<1>3. resolve_node(nodes, Nobody, n) \in {n, None}
  BY <1>2, Zenon DEF resolve_node, Nobody
<1>4. n \notin DOMAIN nodes => ~(Cardinality(DOMAIN nodes) >= MaxNodes)
  <2>1. ASSUME n \notin DOMAIN nodes PROVE Cardinality(DOMAIN nodes) < Cardinality(D)
    <3>1. Cardinality(DOMAIN nodes) <= Cardinality(D) /\ (Cardinality(D) = Cardinality(DOMAIN nodes) => D = DOMAIN nodes)
      BY FS_Subset, Zenon
    <3> QED
      BY <1>1, <2>1, <3>1
  <2> QED
    BY <1>1, <2>1
<1>5. FreshNode \in Radio /\ FreshNode.pos = None /\ FreshNode.power = None
  BY Zenon DEF FreshNode, Radio
<1>6. Known(nodes, n, ns)
  <2>1. CASE n \in DOMAIN nodes
    <3>1. ns = nodes
      BY <2>1, Zenon DEF find_node
    <3> HIDE DEF ns
    <3> QED
      BY <1>1, <2>1, <3>1, Zenon DEF Known
  <2>2. CASE n \notin DOMAIN nodes
    <3>1. ns = [m \in DOMAIN nodes \cup {n} |-> IF m = n THEN FreshNode ELSE nodes[m]]
      BY <1>4, <2>2, Zenon DEF find_node
    <3> HIDE DEF ns
    <3> QED
      BY <1>1, <1>5, <2>2, <3>1, Zenon DEF Known
  <2> QED
    BY <2>1, <2>2, Zenon
<1>7. ASSUME NEW field, NEW v PROVE Configured(nodes, Nobody, n, field, v) = [ns EXCEPT ![n][field] = v]
  <2>1. (IF resolve_node(nodes, Nobody, n) # None THEN resolve_node(nodes, Nobody, n) ELSE n) = n
    BY <1>3, Zenon
  <2>2. n \in DOMAIN ns
    BY <1>6, Zenon DEF Known
  <2> QED
    BY <2>1, <2>2, Zenon DEF Configured
<1> HIDE DEF ns
<1> QED
  BY <1>6, <1>7, Zenon

LEMMA RestoresLine ==
  ASSUME SettingsInv, NEW s \in SUBSET save_config, NEW x \in s, NEW h \in Configs,
         Restored(s \ {x}, h)
  PROVE  Restored(s, ctl_dispatch(x, h))
<1> DEFINE r == s \ {x}
           Pos(n) == HasLine(s, "SET_POS", n)
           Power(n) == HasLine(s, "SET_TXPOWER", n)
<1>1. x \in Lines /\ x \in save_config
  BY SavedLines, Zenon
<1>2. \A cmd, n : HasLine(s, cmd, n) <=> HasLine(r, cmd, n) \/ (x.cmd = cmd /\ x.node = n)
  BY Zenon DEF HasLine
<1>3. (\E l \in s : l.cmd = "SET_PATHLOSS") <=> ((\E l \in r : l.cmd = "SET_PATHLOSS") \/ x.cmd = "SET_PATHLOSS")
  BY Zenon
<1>4. h.node \in NodeTable /\ h.exponent \in Rates
  BY Zenon DEF Configs
<1>5. /\ DOMAIN node \in SUBSET Idents /\ IsFiniteSet(DOMAIN node) /\ Cardinality(DOMAIN node) <= MaxNodes
  BY NodeTableIs, Zenon DEF SettingsInv
<1>6. DOMAIN h.node \subseteq DOMAIN node
  BY Zenon DEF Restored
<1>7. CASE x.cmd = "SET_PATHLOSS"
  <2>1. ctl_dispatch(x, h) = [h EXCEPT !.exponent = exponent]
    BY <1>1, <1>7, SavedLines, Zenon DEF ctl_dispatch
  <2>2. ctl_dispatch(x, h).exponent = exponent /\ ctl_dispatch(x, h).node = h.node
    BY <2>1, Zenon DEF Configs
  <2>3. \A n : (Pos(n) <=> HasLine(r, "SET_POS", n)) /\ (Power(n) <=> HasLine(r, "SET_TXPOWER", n))
    BY <1>2, <1>7
  <2> HIDE DEF r, Pos, Power
  <2>4. Restored(r, h)
    BY Zenon DEF r
  <2> QED
    BY <1>3, <1>7, <2>2, <2>3, <2>4, Zenon DEF Restored, Pos, Power
<1>8. CASE x.cmd = "SET_POS"
  <2> DEFINE n == x.node
  <2>1. n \in DOMAIN node /\ x.value = Printed(node[n].pos)
    BY <1>1, <1>8, SavedLines, Zenon
  <2>2. PICK ns : /\ Known(h.node, n, ns)
                  /\ \A field, v : Configured(h.node, Nobody, n, field, v) = [ns EXCEPT ![n][field] = v]
    BY <1>4, <1>5, <1>6, <2>1, ReloadFinds, Zenon
  <2>3. ctl_dispatch(x, h) = [h EXCEPT !.node = Configured(h.node, Nobody, n, "pos", x.value)]
    BY <1>8, Zenon DEF ctl_dispatch, Nobody
  <2>4. /\ ctl_dispatch(x, h).exponent = h.exponent
        /\ ctl_dispatch(x, h).node = [ns EXCEPT ![n]["pos"] = Printed(node[n].pos)]
    BY <2>1, <2>2, <2>3 DEF Configs
  <2> DEFINE d == ctl_dispatch(x, h)
  <2>5. /\ DOMAIN d.node = DOMAIN h.node \cup {n}
        /\ d.node[n].pos = Printed(node[n].pos) /\ d.node[n].power = ns[n].power
        /\ \A m \in DOMAIN h.node \ {n} : d.node[m] = h.node[m]
    BY <2>2, <2>4 DEF Known, Radio
  <2>6. /\ n \in DOMAIN h.node => ns[n].power = h.node[n].power
        /\ n \notin DOMAIN h.node => ns[n].power = None
    BY <2>2, Zenon DEF Known
  <2>7. \A m : (Pos(m) <=> HasLine(r, "SET_POS", m) \/ m = n) /\ (Power(m) <=> HasLine(r, "SET_TXPOWER", m))
    BY <1>2, <1>8
  <2>8. Restored(r, h)
    BY Zenon
  <2> HIDE DEF r, Pos, Power, n, d
  <2>9. DOMAIN d.node = {m \in DOMAIN node : Pos(m) \/ Power(m)}
    BY <2>1, <2>5, <2>7, <2>8, Zenon DEF Restored
  <2>10. ASSUME NEW m \in DOMAIN d.node
         PROVE  /\ d.node[m].pos = IF Pos(m) THEN Printed(node[m].pos) ELSE None
                /\ d.node[m].power = IF Power(m) THEN node[m].power ELSE None
    <3>1. CASE m = n /\ n \in DOMAIN h.node
      BY <2>5, <2>6, <2>7, <2>8, <3>1, Zenon DEF Restored
    <3>2. CASE m = n /\ n \notin DOMAIN h.node
      BY <2>1, <2>5, <2>6, <2>7, <2>8, <3>2, Zenon DEF Restored
    <3>3. CASE m # n
      BY <2>5, <2>7, <2>8, <3>3, Zenon DEF Restored
    <3> QED
      BY <3>1, <3>2, <3>3, Zenon
  <2>11. d.exponent = IF \E l \in s : l.cmd = "SET_PATHLOSS" THEN exponent ELSE DefaultExponent
    BY <1>3, <1>8, <2>4, <2>8, Zenon DEF Restored, d
  <2>12. Restored(s, d)
    BY <2>9, <2>10, <2>11, Zenon DEF Restored, Pos, Power
  <2> QED
    BY <2>12, Zenon DEF d
<1>9. CASE x.cmd = "SET_TXPOWER"
  <2> DEFINE n == x.node
  <2>1. n \in DOMAIN node /\ x.value = node[n].power
    BY <1>1, <1>9, SavedLines, Zenon
  <2>2. PICK ns : /\ Known(h.node, n, ns)
                  /\ \A field, v : Configured(h.node, Nobody, n, field, v) = [ns EXCEPT ![n][field] = v]
    BY <1>4, <1>5, <1>6, <2>1, ReloadFinds
  <2>3. ctl_dispatch(x, h) = [h EXCEPT !.node = Configured(h.node, Nobody, n, "power", x.value)]
    BY <1>9, Zenon DEF ctl_dispatch, Nobody
  <2>4. /\ ctl_dispatch(x, h).exponent = h.exponent
        /\ ctl_dispatch(x, h).node = [ns EXCEPT ![n]["power"] = node[n].power]
    BY <2>1, <2>2, <2>3 DEF Configs
  <2> DEFINE d == ctl_dispatch(x, h)
  <2>5. /\ DOMAIN d.node = DOMAIN h.node \cup {n}
        /\ d.node[n].power = node[n].power /\ d.node[n].pos = ns[n].pos
        /\ \A m \in DOMAIN h.node \ {n} : d.node[m] = h.node[m]
    BY <2>2, <2>4 DEF Known, Radio
  <2>6. /\ n \in DOMAIN h.node => ns[n].pos = h.node[n].pos
        /\ n \notin DOMAIN h.node => ns[n].pos = None
    BY <2>2, Zenon DEF Known
  <2>7. \A m : (Power(m) <=> HasLine(r, "SET_TXPOWER", m) \/ m = n) /\ (Pos(m) <=> HasLine(r, "SET_POS", m))
    BY <1>2, <1>9
  <2>8. Restored(r, h)
    BY Zenon
  <2> HIDE DEF r, Pos, Power, n, d
  <2>9. DOMAIN d.node = {m \in DOMAIN node : Pos(m) \/ Power(m)}
    BY <2>1, <2>5, <2>7, <2>8, Zenon DEF Restored
  <2>10. ASSUME NEW m \in DOMAIN d.node
         PROVE  /\ d.node[m].pos = IF Pos(m) THEN Printed(node[m].pos) ELSE None
                /\ d.node[m].power = IF Power(m) THEN node[m].power ELSE None
    <3>1. CASE m = n /\ n \in DOMAIN h.node
      BY <2>5, <2>6, <2>7, <2>8, <3>1, Zenon DEF Restored
    <3>2. CASE m = n /\ n \notin DOMAIN h.node
      BY <2>1, <2>5, <2>6, <2>7, <2>8, <3>2, Zenon DEF Restored
    <3>3. CASE m # n
      BY <2>5, <2>7, <2>8, <3>3, Zenon DEF Restored
    <3> QED
      BY <3>1, <3>2, <3>3, Zenon
  <2>11. d.exponent = IF \E l \in s : l.cmd = "SET_PATHLOSS" THEN exponent ELSE DefaultExponent
    BY <1>3, <1>9, <2>4, <2>8, Zenon DEF Restored, d
  <2>12. Restored(s, d)
    BY <2>9, <2>10, <2>11, Zenon DEF Restored, Pos, Power
  <2> QED
    BY <2>12, Zenon DEF d
<1>10. x.cmd \in {"SET_PATHLOSS", "SET_POS", "SET_TXPOWER"}
  BY <1>1, Zenon DEF Lines
<1> QED
  BY <1>7, <1>8, <1>9, <1>10, Zenon

\* A snapshot of the present state, read by a hub that starts.
Kept(hub) ==
  /\ hub.exponent = exponent
  /\ DOMAIN hub.node = {n \in DOMAIN node : node[n].pos # None \/ node[n].power # None}
  /\ \A n \in DOMAIN hub.node :
       /\ hub.node[n].power = node[n].power
       /\ IF node[n].pos = None THEN hub.node[n].pos = None
          ELSE Distance(hub.node[n].pos, node[n].pos) <= 1

LEMMA SnapshotKeeps == ASSUME SettingsInv PROVE Kept(load_config_file(save_config))
<1> DEFINE F == save_config
<1>1. F \in SUBSET Lines /\ IsFiniteSet(F)
  BY SavedLines, SnapshotIsFinite, Zenon
<1>2. PICK g : Replays(g, F) /\ load_config_file(F) = g[F]
  BY <1>1, LoadReplays, Zenon
<1> DEFINE Good == {s \in SUBSET F : Restored(s, g[s])}
<1>3. {} \in Good
  <2>1. g[{}] = Start
    BY <1>2, Zenon DEF Replays
  <2> QED
    BY <2>1 DEF Restored, Start, HasLine
<1>4. ASSUME NEW s \in SUBSET F, s # {}, \A x \in s : s \ {x} \in Good PROVE s \in Good
  <2>1. PICK x \in s : g[s] = ctl_dispatch(x, g[s \ {x}])
    BY <1>2, <1>4, Zenon DEF Replays
  <2>2. Restored(s \ {x}, g[s \ {x}]) /\ g[s \ {x}] \in Configs
    BY <1>2, <1>4, <2>1, Zenon DEF Replays
  <2>3. Restored(s, g[s])
    BY <2>1, <2>2, RestoresLine, Zenon
  <2> QED
    BY <2>3, Zenon
<1> HIDE DEF F
<1>5. \A s \in SUBSET F : s \in Good
  <2> HIDE DEF Good
  <2> QED
    BY <1>1, <1>3, <1>4, SubsetInduction, Zenon
<1>6. Restored(F, g[F])
  BY <1>5, Zenon
<1> DEFINE hub == g[F]
<1>7. \A n \in DOMAIN node : /\ HasLine(F, "SET_POS", n) <=> node[n].pos # None
                             /\ HasLine(F, "SET_TXPOWER", n) <=> node[n].power # None
  BY SavedLines DEF HasLine, F
<1>8. \E l \in F : l.cmd = "SET_PATHLOSS"
  BY SavedLines, Zenon DEF F
<1>9. ASSUME NEW n \in DOMAIN node, node[n].pos # None PROVE Distance(Printed(node[n].pos), node[n].pos) <= 1
  <2>1. node[n].pos \in Places
    BY <1>9, NodeTableIs, Zenon DEF SettingsInv, Radio
  <2> QED
    BY <2>1, PlacesArePrinted, Zenon
<1> HIDE DEF hub
<1>10. Restored(F, hub)
  BY <1>6, Zenon DEF hub
<1>11. Kept(hub)
  BY <1>7, <1>8, <1>9, <1>10, Zenon DEF Restored, Kept
<1> QED
  BY <1>2, <1>11, Zenon DEF hub, F

LEMMA SettingsNext ==
  ASSUME SettingsInv, [Next]_vars
  PROVE  SettingsInv' /\ (file' # file => file' = save_config)
<1>1. /\ owner \in [Addrs -> Names \cup {None}] /\ node \in NodeTable /\ exponent \in Rates
      /\ file \in SUBSET Lines /\ IsFiniteSet(file)
  BY Zenon DEF SettingsInv
<1>2. ASSUME NEW i \in Idents, \/ \E p \in Positions : SetPos(i, p)
                               \/ \E w \in Powers : SetTxPower(i, w)
                               \/ \E f \in Floors : SetSens(i, f)
      PROVE  SettingsInv' /\ file' = file
  <2>1. /\ \A p \in Positions : Configured(node, owner, i, "pos", p) \in NodeTable
        /\ \A w \in Powers : Configured(node, owner, i, "power", w) \in NodeTable
        /\ \A f \in Floors : Configured(node, owner, i, "floor", f) \in NodeTable
    BY <1>1, ConfiguredStays, Zenon DEF Places
  <2>2. node' \in NodeTable /\ owner' = owner /\ exponent' = exponent /\ file' = file
    BY <1>2, <2>1, Zenon DEF SetPos, SetTxPower, SetSens, Set
  <2> QED
    BY <1>1, <2>2, Zenon DEF SettingsInv
<1>3. ASSUME NEW i \in Idents, NEW j \in Idents, \/ \E r \in Strengths : SetRssi(i, j, r)
                                                 \/ \E l \in Losses : SetLoss(i, j, l)
                                                 \/ ClearLink(i, j)
      PROVE  SettingsInv' /\ file' = file
  <2>1. owner' = owner /\ node' = node /\ exponent' = exponent /\ file' = file
    BY <1>3, Zenon DEF SetRssi, SetLoss, Override, ClearLink
  <2> QED
    BY <1>1, <2>1, Zenon DEF SettingsInv
<1>4. ASSUME NEW n \in Names, NEW b \in BOOLEAN, Attach(n, b) PROVE SettingsInv' /\ file' = file
  <2> DEFINE ns == find_node(node, n)
  <2>1. n \in DOMAIN ns /\ node' = [ns EXCEPT ![n].physical = b]
        /\ owner' = owner /\ exponent' = exponent /\ file' = file
    BY <1>4, Zenon DEF Attach
  <2>2. ns \in NodeTable
    BY <1>1, FindNodeStays, Zenon DEF Idents
  <2> HIDE DEF ns
  <2>3. ns \in [DOMAIN ns -> Radio] /\ ns[n] \in Radio
    BY <2>1, <2>2, NodeTableIs, Zenon
  <2>4. [ns[n] EXCEPT !.physical = b] \in Radio
    BY <2>3, Zenon DEF Radio
  <2>5. node' \in NodeTable
    BY <2>1, <2>2, <2>4, SettingStays, Zenon
  <2> QED
    BY <1>1, <2>1, <2>5, Zenon DEF SettingsInv
<1>5. ASSUME NEW n \in Names, NEW a \in Addrs, Learn(n, a) PROVE SettingsInv' /\ file' = file
  <2>1. owner' = [owner EXCEPT ![a] = n] /\ node' = node /\ exponent' = exponent /\ file' = file
    BY <1>5, Zenon DEF Learn
  <2>2. owner' \in [Addrs -> Names \cup {None}]
    BY <1>1, <2>1, Zenon
  <2> QED
    BY <1>1, <2>1, <2>2, Zenon DEF SettingsInv
<1>6. ASSUME NEW x \in Exponents, SetPathloss(x) PROVE SettingsInv' /\ file' = file
  <2>1. owner' = owner /\ node' = node /\ exponent' \in Rates /\ file' = file
    BY <1>6, Zenon DEF SetPathloss, Rates
  <2> QED
    BY <1>1, <2>1, Zenon DEF SettingsInv
<1>7. ASSUME SaveConfig PROVE SettingsInv' /\ file' = save_config
  <2>1. owner' = owner /\ node' = node /\ exponent' = exponent /\ file' = save_config
    BY <1>7, Zenon DEF SaveConfig
  <2>2. file' \in SUBSET Lines /\ IsFiniteSet(file')
    BY <2>1, SavedLines, SnapshotIsFinite, Zenon
  <2> QED
    BY <1>1, <2>1, <2>2, Zenon DEF SettingsInv
<1>8. ASSUME Restart PROVE SettingsInv' /\ file' = file
  <2> DEFINE hub == load_config_file(file)
  <2>1. owner' = Nobody /\ node' = hub.node /\ exponent' = hub.exponent /\ file' = file
    BY <1>8, Zenon DEF Restart, Nobody
  <2>2. hub \in Configs
    <3>1. PICK g : Replays(g, file) /\ hub = g[file]
      BY <1>1, LoadReplays, Zenon
    <3>2. g \in [SUBSET file -> Configs]
      BY <3>1, Zenon DEF Replays
    <3> QED
      BY <3>1, <3>2, Zenon
  <2> HIDE DEF hub
  <2>3. node' \in NodeTable /\ exponent' \in Rates /\ owner' \in [Addrs -> Names \cup {None}]
    BY <2>1, <2>2, Zenon DEF Configs, Nobody
  <2> QED
    BY <1>1, <2>1, <2>3, Zenon DEF SettingsInv
<1>9. ASSUME UNCHANGED vars PROVE SettingsInv' /\ file' = file
  BY <1>9, Zenon DEF vars, SettingsInv
<1> QED
  BY <1>2, <1>3, <1>4, <1>5, <1>6, <1>7, <1>8, <1>9, Zenon DEF Next

LEMMA SettingsInit == Init => SettingsInv
<1>1. SUFFICES ASSUME Init PROVE SettingsInv
  BY Zenon
<1>2. node = Start.node /\ exponent = DefaultExponent /\ owner = Nobody /\ file = {}
  BY <1>1, Zenon DEF Init, Start, Nobody
<1>3. node \in NodeTable
  BY <1>2, StartIsConfig, Zenon DEF Configs
<1> QED
  BY <1>2, <1>3, FS_EmptySet, Zenon DEF SettingsInv, Nobody, Rates

\* Nodes, positions, powers, floors and the snapshot keep their types and the node table
\* its size, across commands, attachments and restarts with the snapshot.
THEOREM SettingsInvariant == Spec => []SettingsInv
<1>1. SettingsInv /\ [Next]_vars => SettingsInv'
  BY SettingsNext, Zenon
<1> QED
  BY <1>1, SettingsInit, PTL DEF Spec

\* SAVE followed by a start with -C gives back the exponent and every position and power,
\* for any number of nodes, whatever the order in which the lines are read.
THEOREM SnapshotsAreRestored == Spec => SnapshotRestores
<1>1. SettingsInv /\ [Next]_vars =>
        [file' # file =>
           LET hub == load_config_file(file')
           IN  /\ hub.exponent = exponent
               /\ DOMAIN hub.node = {n \in DOMAIN node : node[n].pos # None \/ node[n].power # None}
               /\ \A n \in DOMAIN hub.node :
                    /\ hub.node[n].power = node[n].power
                    /\ IF node[n].pos = None THEN hub.node[n].pos = None
                       ELSE Distance(hub.node[n].pos, node[n].pos) <= 1]_vars
  <2>1. SUFFICES ASSUME SettingsInv, [Next]_vars, file' # file
                 PROVE  Kept(load_config_file(file'))
    BY Zenon DEF Kept
  <2> QED
    BY <2>1, SettingsNext, SnapshotKeeps, Zenon
<1> QED
  BY <1>1, SettingsInvariant, PTL DEF Spec, SnapshotRestores

-----------------------------------------------------------------------------
(* The floor *)

\* propagate() compares a pinned strength, an int, with a floor cut to an int.  For
\* floors up to 0 dBm, of any precision in tenths, that decides as the floor itself
\* would; above 0 dBm (floor 0.5, pin 0) it does not.
THEOREM TruncationIsHarmless ==
  ASSUME NEW r \in Int, NEW floor \in Int, floor <= 0
  PROVE  PinnedIsHeard(r, floor) <=> 10 * r >= floor
<1>1. floor = 0 => Truncated(floor) = 0
  BY DEF Truncated
<1>2. floor < 0 => Truncated(floor) = -((-floor) \div 10)
  BY DEF Truncated
<1> DEFINE q == (-floor) \div 10
<1>3. q \in Int /\ 10 * q <= -floor /\ -floor < 10 * q + 10
  OBVIOUS
<1> HIDE DEF q
<1>4. Truncated(floor) = -q
  BY <1>1, <1>2, <1>3 DEF q
<1> QED
  BY <1>3, <1>4 DEF PinnedIsHeard

\* The entry propagate finds is the only one of the pair.
LEMMA LinkIsFound ==
  ASSUME ConfigInv, NEW tx, NEW rx
  PROVE  LET S == Slots(tx, rx)
         IN  /\ (IF S = {} THEN Fresh(tx, rx) ELSE table[Lowest(S)]) = Link(tx, rx)
             /\ Link(tx, rx).rssi \in Strengths \cup {None}
             /\ Link(tx, rx).loss \in Int \cup {None}
<1> DEFINE S == Slots(tx, rx)
<1>1. table \in Seq(Entry) /\ Unique(table)
  BY Zenon DEF ConfigInv
<1>2. S = {k \in DOMAIN table : table[k].used /\ {table[k].a, table[k].b} = {tx, rx}}
  BY Zenon DEF Slots, IsFor
<1>3. Link(tx, rx) = IF S = {} THEN Fresh(tx, rx) ELSE table[CHOOSE k \in S : TRUE]
  BY <1>2 DEF Link
<1>4. \A l \in Losses : Clamped(l) \in Int
  BY ConfigAssumption DEF Clamped
<1>5. CASE S = {}
  BY <1>3, <1>5 DEF Fresh
<1>6. CASE S # {}
  <2> DEFINE k == Lowest(S)
             m == CHOOSE j \in S : TRUE
  <2>1. k \in S /\ m \in S
    BY <1>1, <1>6, LowestIsMember, Zenon DEF Slots
  <2> HIDE DEF k, m
  <2>2. k = m
    BY <1>1, <2>1, Zenon DEF Unique, Used, Pair, Slots, IsFor
  <2>3. table[m] \in Entry
    BY <1>1, <2>1 DEF Slots
  <2>4. table[m].rssi \in Strengths \cup {None} /\ table[m].loss \in Int \cup {None}
    BY <1>4, <2>3, Zenon DEF Entry
  <2> QED
    BY <1>3, <1>6, <2>2, <2>4, Zenon DEF k, m
<1> QED
  BY <1>5, <1>6, Zenon

LEMMA Int8Keeps == ASSUME NEW r \in -128 .. 127 PROVE Int8(r) = r
<1>1. (r + 128) % 256 = r + 128
  OBVIOUS
<1> QED
  BY <1>1 DEF Int8

\* The strength that is reported for x tenths.
LEMMA ReportedIsClose ==
  ASSUME NEW x \in Int
  PROVE  /\ Reported(x) \in -128 .. 127
         /\ 10 * Reported(x) + 5 >= x \/ Reported(x) = 20
<1> DEFINE p == (x + 5) \div 10
           q == (5 - x) \div 10
<1>1. p \in Int /\ 10 * p <= x + 5 /\ x + 5 < 10 * p + 10
  OBVIOUS
<1>2. q \in Int /\ 10 * q <= 5 - x /\ 5 - x < 10 * q + 10
  OBVIOUS
<1>3. Rounded(x) = IF x >= 0 THEN p ELSE -q
  BY Zenon DEF Rounded
<1> HIDE DEF p, q
<1>4. Rounded(x) \in Int /\ 10 * Rounded(x) + 5 >= x
  BY <1>1, <1>2, <1>3
<1> DEFINE r == Rounded(x)
<1>5. Reported(x) = IF r < -128 THEN -128 ELSE IF r > 20 THEN 20 ELSE r
  BY Zenon DEF Reported
<1> HIDE DEF r
<1>6. r \in Int /\ 10 * r + 5 >= x
  BY <1>4, Zenon DEF r
<1> QED
  BY <1>5, <1>6

LEMMA ReceivedIsInt ==
  ASSUME SettingsInv, NEW tx \in DOMAIN node, NEW rx \in DOMAIN node, NEW power \in Powers,
         Placed(tx, rx)
  PROVE  Received(tx, rx, power) \in Int
<1>1. node[tx] \in Radio /\ node[rx] \in Radio /\ exponent \in Rates
  BY NodeTableIs, Zenon DEF SettingsInv
<1>2. node[tx].pos \in Places /\ node[rx].pos \in Places
  BY <1>1, Zenon DEF Radio, Placed
<1>3. PathLoss(Distance(node[tx].pos, node[rx].pos), exponent) \in Int
  BY <1>1, <1>2, ConfigAssumption, Zenon DEF Rates
<1>4. (IF node[tx].power # None THEN node[tx].power ELSE power) \in Int
  BY <1>1, ConfigAssumption, Zenon DEF Radio
<1> QED
  BY <1>3, <1>4 DEF Received

\* The outcome u is one of strength x against a floor, up to the loss.
Decides(outcomes, x, floor, loss) ==
  /\ (\E u \in outcomes : u.heard) <=> x >= floor
  /\ \A u \in outcomes : u.heard => 10 * u.rssi + 5 >= floor \/ u.rssi = 20
  /\ loss \in {None, 0} => Cardinality(outcomes) = 1

LEMMA OutcomeDecides ==
  ASSUME NEW x \in Int, NEW floor \in Int, NEW r, NEW loss, NEW kept,
         r \in -128 .. 127 /\ (10 * r + 5 >= x \/ r = 20),
         kept = IF x >= floor THEN With(r) ELSE Lost
  PROVE  Decides(IF loss # None /\ loss > 0 THEN {Lost, kept} ELSE {kept}, x, floor, loss)
<1>1. ~Lost.heard /\ With(r).heard /\ With(r).rssi = r
  BY Int8Keeps, Zenon DEF Lost, With
<1>2. kept.heard <=> x >= floor
  BY <1>1, Zenon
<1>3. kept.heard => 10 * kept.rssi + 5 >= floor \/ kept.rssi = 20
  BY <1>1
<1>4. Cardinality({kept}) = 1
  BY FS_Singleton, Zenon
<1>5. loss \in {None, 0} => ~(loss # None /\ loss > 0)
  OBVIOUS
<1> QED
  BY <1>1, <1>2, <1>3, <1>4, <1>5, Zenon DEF Decides

LEMMA FloorIsKept == ConfigInv /\ SettingsInv => FloorDecides
<1>1. SUFFICES
        ASSUME ConfigInv, SettingsInv, NEW tx \in DOMAIN node, NEW rx \in DOMAIN node,
               NEW power \in Powers, NEW rssi \in FrameRssis,
               ~node[tx].physical, ~node[rx].physical,
               Link(tx, rx).rssi # None \/ Placed(tx, rx), node[rx].floor <= 0,
               Link(tx, rx).rssi # None => Link(tx, rx).rssi \in -128 .. 127
        PROVE  Decides(propagate(tx, rx, power, rssi),
                       IF Link(tx, rx).rssi # None THEN 10 * Link(tx, rx).rssi ELSE Received(tx, rx, power),
                       node[rx].floor, Link(tx, rx).loss)
  BY SMTT(40) DEF FloorDecides, Decides
<1> DEFINE o == Link(tx, rx)
           floor == node[rx].floor
           x == Received(tx, rx, power)
           kept == IF o.rssi # None
                   THEN IF PinnedIsHeard(o.rssi, floor) THEN With(o.rssi) ELSE Lost
                   ELSE IF ~Placed(tx, rx) THEN With(IF rssi = 0 THEN DefaultRssi ELSE rssi)
                   ELSE IF x < floor THEN Lost ELSE With(Reported(x))
<1>2. (IF Slots(tx, rx) = {} THEN Fresh(tx, rx) ELSE table[Lowest(Slots(tx, rx))]) = o
  BY <1>1, LinkIsFound, Zenon
<1>3. propagate(tx, rx, power, rssi) = IF o.loss # None /\ o.loss > 0 THEN {Lost, kept} ELSE {kept}
  BY <1>1, <1>2, Zenon DEF propagate
<1>4. floor \in Int /\ floor <= 0
  BY <1>1, NodeTableIs, ConfigAssumption DEF SettingsInv, Radio
<1>5. CASE o.rssi # None
  <2> DEFINE r == o.rssi
  <2>1. r \in -128 .. 127 /\ r \in Int
    BY <1>1, <1>5
  <2>2. PinnedIsHeard(r, floor) <=> 10 * r >= floor
    BY <1>4, <2>1, TruncationIsHarmless, Zenon
  <2>3. kept = IF 10 * r >= floor THEN With(r) ELSE Lost
    BY <1>5, <2>2, Zenon
  <2> HIDE DEF r, kept, floor
  <2>4. 10 * r \in Int /\ 10 * r + 5 >= 10 * r
    BY <2>1
  <2>5. Decides(IF o.loss # None /\ o.loss > 0 THEN {Lost, kept} ELSE {kept}, 10 * r, floor, o.loss)
    BY <1>4, <2>1, <2>3, <2>4, OutcomeDecides, Zenon
  <2> QED
    BY <1>3, <1>5, <2>5, Zenon DEF r, floor
<1>6. CASE o.rssi = None
  <2>1. Placed(tx, rx)
    BY <1>1, <1>6, Zenon
  <2>2. x \in Int
    BY <1>1, <2>1, ReceivedIsInt, Zenon
  <2>3. kept = IF x < floor THEN Lost ELSE With(Reported(x))
    BY <1>6, <2>1, Zenon
  <2> HIDE DEF x, kept, floor
  <2>4. kept = IF x >= floor THEN With(Reported(x)) ELSE Lost
    BY <1>4, <2>2, <2>3
  <2>5. Decides(IF o.loss # None /\ o.loss > 0 THEN {Lost, kept} ELSE {kept}, x, floor, o.loss)
    BY <1>4, <2>2, <2>4, ReportedIsClose, OutcomeDecides, Zenon
  <2> QED
    BY <1>3, <1>6, <2>5, Zenon DEF x, floor
<1> QED
  BY <1>5, <1>6, Zenon

\* propagate() drops exactly what is below the receiver's floor, for every table of
\* overrides, position, power and path loss; the conversions to int and int8_t included.
THEOREM FloorAlwaysDecides == Spec => []FloorDecides
BY OverrideInvariant, SettingsInvariant, FloorIsKept, PTL
=============================================================================
