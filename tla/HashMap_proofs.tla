---------------------------- MODULE HashMap_proofs ----------------------------
(***************************************************************************)
(* Proofs about the hash table, for every set of keys and values, every    *)
(* hash function and every initial capacity from 2: the probe finds every  *)
(* entry and ends, the counters are exact, and the table implements the    *)
(* set of pairs of KeyedMap.                                               *)
(***************************************************************************)
EXTENDS HashMap, SetLemmas

(***************************************************************************)
(* The order of slots on a walk with wrap-around.                          *)
(***************************************************************************)

\* How far slot i is on a walk from h through a table of cap slots.
Distance(h, i, cap) == IF h <= i THEN i - h ELSE i - h + cap

\* Before is the order of distances.
LEMMA BeforeIsNearer ==
  ASSUME NEW cap \in Nat, NEW h \in Indices(cap), NEW i \in Indices(cap), NEW j \in Indices(cap)
  PROVE  /\ Distance(h, i, cap) \in Nat
         /\ Before(h, j, i) <=> Distance(h, j, cap) < Distance(h, i, cap)
  BY DEF Indices, Before, Distance

\* A walk starts inside the table.
LEMMA HomeType ==
  ASSUME NEW cap \in Nat \ {0}, NEW k \in Keys
  PROVE  Home(k, cap) \in Indices(cap)
<1>1. Hash[k] \in Nat
  BY HashMapAssumption DEF HashMapAssumption
<1> QED
  BY <1>1 DEF Home, Indices

\* Of any slots, a walk meets one first.
LEMMA WalkFirst ==
  ASSUME NEW cap \in Nat, NEW h \in Indices(cap), NEW T \in SUBSET Indices(cap), T # {}
  PROVE  \E i \in T : \A j \in T : ~ Before(h, j, i)
<1> DEFINE D == {Distance(h, i, cap) : i \in T}
<1>1. D \subseteq Nat /\ D # {}
  BY BeforeIsNearer
<1>2. PICK m \in D : \A n \in D : m <= n
  BY <1>1, SmallestOf
<1>3. PICK i \in T : m = Distance(h, i, cap)
  BY <1>2
<1>4. \A j \in T : Distance(h, i, cap) <= Distance(h, j, cap)
  BY <1>2, <1>3
<1>5. \A j \in T : ~ Before(h, j, i)
  BY <1>4, BeforeIsNearer
<1> QED
  BY <1>5
------------------------------------------------------------------------------
(***************************************************************************)
(* The probe.                                                              *)
(***************************************************************************)

\* A table: its entries are pairs of keys and values.
IsTable(t, cap) ==
  /\ cap \in Nat /\ t \in [Indices(cap) -> Slot]
  /\ \A i \in Occupied(t) : t[i].key \in Keys /\ t[i].value \in Values

HasEmpty(t) == \E i \in DOMAIN t : t[i].state = "empty"

\* The probe ends if there is an empty slot.
LEMMA ProbeEnds ==
  ASSUME NEW cap, NEW t, IsTable(t, cap), HasEmpty(t), NEW k \in Keys
  PROVE  /\ cap \in Nat \ {0}
         /\ ProbeEnd(t, cap, k) \in Indices(cap)
         /\ IsProbeEnd(t, cap, k, ProbeEnd(t, cap, k))
<1> DEFINE S == {i \in Indices(cap) : Stops(t, k, i)}
<1>1. cap \in Nat \ {0}
  BY DEF IsTable, HasEmpty, Indices
<1>2. S \in SUBSET Indices(cap) /\ S # {}
  BY DEF IsTable, HasEmpty, Stops
<1>3. Home(k, cap) \in Indices(cap)
  BY <1>1, HomeType
<1>4. PICK i \in S : \A j \in S : ~ Before(Home(k, cap), j, i)
  BY <1>1, <1>2, <1>3, WalkFirst
<1>5. i \in Indices(cap) /\ IsProbeEnd(t, cap, k, i)
  BY <1>4 DEF IsProbeEnd
<1> QED
  BY <1>1, <1>5 DEF ProbeEnd

\* The probe for a key finds its entry, and an empty slot if it has none.
LEMMA ProbeFinds ==
  ASSUME NEW cap, NEW t, IsTable(t, cap), HasEmpty(t), Reachable(t, cap), NEW k \in Keys
  PROVE  /\ Found(t, cap, k) <=> \E i \in Occupied(t) : t[i].key = k
         /\ Found(t, cap, k) => /\ ProbeEnd(t, cap, k) \in Occupied(t)
                                /\ t[ProbeEnd(t, cap, k)].key = k
         /\ ~ Found(t, cap, k) => t[ProbeEnd(t, cap, k)].state = "empty"
<1> DEFINE e == ProbeEnd(t, cap, k)
<1>1. /\ cap \in Nat \ {0} /\ e \in Indices(cap) /\ Stops(t, k, e)
      /\ \A j \in Indices(cap) : Before(Home(k, cap), j, e) => ~ Stops(t, k, j)
  BY ProbeEnds DEF IsProbeEnd
<1>2. DOMAIN t = Indices(cap) /\ Home(k, cap) \in Indices(cap)
  BY <1>1, HomeType DEF IsTable
<1> HIDE DEF e
<1>3. Found(t, cap, k) => e \in Occupied(t) /\ t[e].key = k
  BY <1>1, <1>2 DEF Found, Stops, Occupied, With, e
<1>4. ~ Found(t, cap, k) => t[e].state = "empty"
  BY <1>1, <1>2 DEF Found, Stops, e
<1>5. ASSUME NEW i \in Occupied(t), t[i].key = k, t[e].state = "empty"
      PROVE  FALSE
  <2>1. i \in Indices(cap) /\ Stops(t, k, i) /\ t[i].state = "occupied"
    BY <1>2, <1>5 DEF Occupied, With, Stops
  <2>2. ~ Before(Home(k, cap), i, e)
    BY <1>1, <2>1
  <2>3. ~ Before(Home(k, cap), e, i)
    BY <1>1, <1>5 DEF Reachable
  <2>4. i # e
    BY <1>5, <2>1
  <2> QED
    BY <1>1, <1>2, <2>1, <2>2, <2>3, <2>4 DEF Before, Indices
<1> QED
  BY <1>3, <1>4, <1>5 DEF e

\* The slot an insertion uses is free, and everything before it is taken.
LEMMA InsertionSlot ==
  ASSUME NEW cap, NEW t, IsTable(t, cap), HasEmpty(t), Reachable(t, cap),
         NEW k \in Keys, ~ Found(t, cap, k)
  PROVE  LET f == FindIndex(t, cap, k)
         IN  /\ f \in Indices(cap) /\ t[f].state \in {"empty", "tombstone"}
             /\ \A j \in Indices(cap) :
                  Before(Home(k, cap), j, f) => t[j].state # "empty"
<1> DEFINE e == ProbeEnd(t, cap, k)
           h == Home(k, cap)
           P == PassedTombs(t, cap, k)
           f == FindIndex(t, cap, k)
<1>1. /\ cap \in Nat \ {0} /\ e \in Indices(cap)
      /\ \A j \in Indices(cap) : Before(h, j, e) => ~ Stops(t, k, j)
  BY ProbeEnds DEF IsProbeEnd
<1>2. DOMAIN t = Indices(cap) /\ h \in Indices(cap)
  BY <1>1, HomeType DEF IsTable
<1>3. t[e].state = "empty"
  BY ProbeFinds
<1>4. \A j \in Indices(cap) : Before(h, j, e) => t[j].state # "empty"
  BY <1>1 DEF Stops
<1>5. P \in SUBSET Indices(cap)
      /\ \A i \in P : t[i].state = "tombstone" /\ Before(h, i, e)
  BY <1>2 DEF PassedTombs, Tombs, With
<1> HIDE DEF e, h
<1>6. CASE P = {}
  <2>1. f = e
    BY <1>6 DEF FindIndex, e
  <2> QED
    BY <2>1, <1>1, <1>3, <1>4 DEF h
<1>7. CASE P # {}
  <2>1. f = CHOOSE i \in P : \A j \in P : ~ Before(h, j, i)
    BY <1>7 DEF FindIndex, h
  <2>2. \E i \in P : \A j \in P : ~ Before(h, j, i)
    BY <1>1, <1>2, <1>5, <1>7, WalkFirst
  <2> HIDE DEF f, P
  <2>3. f \in P
    BY <2>1, <2>2
  <2>4. \A j \in Indices(cap) : Before(h, j, f) => Before(h, j, e)
    BY <2>3, <1>1, <1>2, <1>5 DEF Before, Indices
  <2> QED
    BY <2>3, <2>4, <1>4, <1>5 DEF h, f
<1> QED
  BY <1>6, <1>7
------------------------------------------------------------------------------
(***************************************************************************)
(* A store into slot i.                                                    *)
(***************************************************************************)
Store(t, i, s) == [t EXCEPT ![i] = s]

\* The slots after a store.
LEMMA StoreSlots ==
  ASSUME NEW cap \in Nat, NEW t \in [Indices(cap) -> Slot], NEW i \in Indices(cap), NEW s \in Slot
  PROVE  /\ Store(t, i, s) \in [Indices(cap) -> Slot]
         /\ Store(t, i, s)[i] = s
         /\ \A j \in Indices(cap) : j # i => Store(t, i, s)[j] = t[j]
         /\ Occupied(Store(t, i, s)) =
              IF s.state = "occupied" THEN Occupied(t) \cup {i} ELSE Occupied(t) \ {i}
         /\ Tombs(Store(t, i, s)) =
              IF s.state = "tombstone" THEN Tombs(t) \cup {i} ELSE Tombs(t) \ {i}
  BY DEF Store, With, Occupied, Tombs

\* The tables' sets of slots are finite, and a table that is not full of
\* entries and tombstones has an empty slot.
LEMMA CountSlots ==
  ASSUME NEW cap \in Nat, NEW t \in [Indices(cap) -> Slot]
  PROVE  /\ IsFiniteSet(Occupied(t)) /\ IsFiniteSet(Tombs(t))
         /\ Cardinality(Occupied(t)) \in Nat /\ Cardinality(Tombs(t)) \in Nat
         /\ Cardinality(Occupied(t)) + Cardinality(Tombs(t)) < cap => HasEmpty(t)
<1>1. IsFiniteSet(Indices(cap)) /\ Cardinality(Indices(cap)) = cap
  BY FS_Interval DEF Indices
<1>2. Occupied(t) \in SUBSET Indices(cap) /\ Tombs(t) \in SUBSET Indices(cap)
  BY DEF Occupied, Tombs, With
<1>3. /\ IsFiniteSet(Occupied(t)) /\ IsFiniteSet(Tombs(t))
      /\ Cardinality(Occupied(t)) \in Nat /\ Cardinality(Tombs(t)) \in Nat
  BY <1>1, <1>2, FS_Subset, FS_CardinalityType
<1>4. Occupied(t) \cap Tombs(t) = {}
  BY DEF Occupied, Tombs, With
<1>5. Cardinality(Occupied(t) \cup Tombs(t)) = Cardinality(Occupied(t)) + Cardinality(Tombs(t))
  <2>1. Cardinality(Occupied(t) \cup Tombs(t)) =
          Cardinality(Occupied(t)) + Cardinality(Tombs(t)) - Cardinality(Occupied(t) \cap Tombs(t))
    BY <1>3, FS_Union
  <2>2. Cardinality(Occupied(t) \cap Tombs(t)) = 0
    BY <1>4, FS_EmptySet
  <2> QED
    BY <2>1, <2>2, <1>3
<1>6. ~ HasEmpty(t) => Occupied(t) \cup Tombs(t) = Indices(cap)
  BY DEF HasEmpty, Occupied, Tombs, With, Slot, SlotStates
<1>7. ~ HasEmpty(t) => Cardinality(Occupied(t)) + Cardinality(Tombs(t)) = cap
  BY <1>1, <1>5, <1>6
<1>8. Cardinality(Occupied(t)) + Cardinality(Tombs(t)) < cap
        => Cardinality(Occupied(t)) + Cardinality(Tombs(t)) # cap
  OBVIOUS
<1> QED
  BY <1>3, <1>7, <1>8

\* The store of an entry in a free slot adds one to the entries, and takes
\* the tombstone that was there.
LEMMA StoreEntry ==
  ASSUME NEW cap, NEW t, IsTable(t, cap), NEW i \in Indices(cap), NEW k \in Keys, NEW v \in Values,
         t[i].state \in {"empty", "tombstone"}
  PROVE  LET u == Store(t, i, Pair(k, v))
         IN  /\ IsTable(u, cap)
             /\ Occupied(u) = Occupied(t) \cup {i} /\ i \notin Occupied(t)
             /\ Tombs(u) = Tombs(t) \ {i}
             /\ Cardinality(Occupied(u)) = Cardinality(Occupied(t)) + 1
             /\ Cardinality(Tombs(u)) = Cardinality(Tombs(t))
                                          - (IF t[i].state = "tombstone" THEN 1 ELSE 0)
             /\ t[i].state = "tombstone" => Cardinality(Tombs(t)) > 0
             /\ Pairs(u) = Pairs(t) \cup {<<k, v>>}
<1> DEFINE u == Store(t, i, Pair(k, v))
<1>1. cap \in Nat /\ t \in [Indices(cap) -> Slot] /\ Pair(k, v) \in Slot
  BY DEF IsTable, Pair, Slot, SlotStates
<1>2. /\ u \in [Indices(cap) -> Slot] /\ u[i] = Pair(k, v)
      /\ \A j \in Indices(cap) : j # i => u[j] = t[j]
      /\ Occupied(u) = Occupied(t) \cup {i}
      /\ Tombs(u) = Tombs(t) \ {i}
  <2>1. PICK s \in Slot : s = Pair(k, v)
    BY <1>1
  <2>2. s.state = "occupied"
    BY <2>1 DEF Pair
  <2>3. /\ Store(t, i, s) \in [Indices(cap) -> Slot] /\ Store(t, i, s)[i] = s
        /\ \A j \in Indices(cap) : j # i => Store(t, i, s)[j] = t[j]
    BY <1>1, StoreSlots
  <2>4. Occupied(Store(t, i, s)) = Occupied(t) \cup {i} /\ Tombs(Store(t, i, s)) = Tombs(t) \ {i}
    BY <1>1, <2>2, StoreSlots
  <2> QED
    BY <2>1, <2>3, <2>4
<1>3. i \notin Occupied(t) /\ (i \in Tombs(t) <=> t[i].state = "tombstone")
      /\ Occupied(t) \subseteq Indices(cap)
  BY <1>1 DEF Occupied, Tombs, With
<1>4. IsFiniteSet(Occupied(t)) /\ IsFiniteSet(Tombs(t)) /\ Cardinality(Tombs(t)) \in Nat
  BY <1>1, CountSlots
<1>5. Cardinality(Occupied(u)) = Cardinality(Occupied(t)) + 1
  BY <1>2, <1>3, <1>4, FS_AddElement
<1>6. Cardinality(Tombs(u)) = Cardinality(Tombs(t))
                                - (IF t[i].state = "tombstone" THEN 1 ELSE 0)
  <2>1. Cardinality(Tombs(t) \ {i}) = IF i \in Tombs(t) THEN Cardinality(Tombs(t)) - 1
                                                       ELSE Cardinality(Tombs(t))
    BY <1>4, FS_RemoveElement
  <2> HIDE DEF u
  <2> QED
    BY <2>1, <1>2, <1>3, <1>4
<1>7. t[i].state = "tombstone" => Cardinality(Tombs(t)) > 0
  BY <1>3, <1>4, FS_EmptySet
<1> HIDE DEF u
<1>8. IsTable(u, cap)
  BY <1>1, <1>2, <1>3 DEF IsTable, Pair
<1>9. Pairs(u) = Pairs(t) \cup {<<k, v>>}
  <2>1. \A j \in Occupied(t) : u[j] = t[j]
    BY <1>2, <1>3
  <2> QED
    BY <2>1, <1>2 DEF Pairs, Pair
<1> QED
  BY <1>2, <1>3, <1>5, <1>6, <1>7, <1>8, <1>9 DEF u

\* The probes stay sound if the slots before it are taken.
LEMMA StoreReachable ==
  ASSUME NEW cap, NEW t, IsTable(t, cap), NEW i \in Indices(cap), NEW k \in Keys, NEW v \in Values,
         t[i].state \in {"empty", "tombstone"},
         Reachable(t, cap), DistinctSlots(t),
         \A j \in Indices(cap) : Before(Home(k, cap), j, i) => t[j].state # "empty",
         \A j \in Occupied(t) : t[j].key # k
  PROVE  LET u == Store(t, i, Pair(k, v))
         IN  Reachable(u, cap) /\ DistinctSlots(u)
<1> DEFINE u == Store(t, i, Pair(k, v))
<1>1. cap \in Nat /\ t \in [Indices(cap) -> Slot] /\ Pair(k, v) \in Slot
  BY DEF IsTable, Pair, Slot, SlotStates
<1>2. /\ u[i] = Pair(k, v)
      /\ \A j \in Indices(cap) : j # i => u[j] = t[j]
  BY <1>1, StoreSlots
<1>3. Occupied(u) = Occupied(t) \cup {i} /\ i \notin Occupied(t)
      /\ Occupied(t) \subseteq Indices(cap)
  <2>1. Occupied(u) = Occupied(t) \cup {i} /\ i \notin Occupied(t)
    BY StoreEntry
  <2>2. Occupied(t) \subseteq Indices(cap)
    BY <1>1 DEF Occupied, With
  <2> QED
    BY <2>1, <2>2
<1>4. u[i].key = k /\ u[i].state = "occupied" /\ \A j \in Occupied(t) : u[j] = t[j]
  BY <1>2, <1>3 DEF Pair
<1> HIDE DEF u
<1>5. \A j \in Indices(cap) : t[j].state # "empty" => u[j].state # "empty"
  BY <1>2, <1>4
<1>6. Reachable(u, cap)
  BY <1>3, <1>4, <1>5 DEF Reachable
<1>7. DistinctSlots(u)
  BY <1>3, <1>4 DEF DistinctSlots
<1> QED
  BY <1>6, <1>7 DEF u

\* Turning an entry into a tombstone, or into an empty slot of a table that
\* is not probed any more.
LEMMA StoreFree ==
  ASSUME NEW cap, NEW t, IsTable(t, cap), NEW i \in Occupied(t), DistinctSlots(t),
         NEW s \in {EmptySlot, TombstoneSlot}
  PROVE  LET u == Store(t, i, s)
         IN  /\ IsTable(u, cap) /\ DistinctSlots(u)
             /\ Occupied(u) = Occupied(t) \ {i}
             /\ \A j \in Occupied(u) : u[j] = t[j]
             /\ Cardinality(Occupied(t)) > 0
             /\ Cardinality(Occupied(u)) = Cardinality(Occupied(t)) - 1
             /\ Pairs(u) = {p \in Pairs(t) : p[1] # t[i].key}
             /\ s = TombstoneSlot =>
                  /\ Reachable(t, cap) => Reachable(u, cap)
                  /\ Cardinality(Tombs(u)) = Cardinality(Tombs(t)) + 1
<1> DEFINE u == Store(t, i, s)
<1>1. cap \in Nat /\ t \in [Indices(cap) -> Slot] /\ s \in Slot /\ i \in Indices(cap)
      /\ s.state # "occupied" /\ Occupied(t) \subseteq Indices(cap)
  BY DEF IsTable, EmptySlot, TombstoneSlot, Slot, SlotStates, Occupied, With
<1>2. /\ u \in [Indices(cap) -> Slot] /\ u[i] = s
      /\ \A j \in Indices(cap) : j # i => u[j] = t[j]
      /\ Occupied(u) = Occupied(t) \ {i}
  <2>1. ASSUME NEW S, S = Store(t, i, s)
        PROVE  /\ S \in [Indices(cap) -> Slot] /\ S[i] = s
               /\ \A j \in Indices(cap) : j # i => S[j] = t[j]
               /\ Occupied(S) = Occupied(t) \ {i}
    BY <1>1, <2>1, StoreSlots
  <2> QED
    BY <2>1
<1>3. /\ Cardinality(Occupied(t)) > 0
      /\ Cardinality(Occupied(u)) = Cardinality(Occupied(t)) - 1
  <2>1. IsFiniteSet(Occupied(t)) /\ Cardinality(Occupied(t)) \in Nat
    BY <1>1, CountSlots
  <2>2. Cardinality(Occupied(t) \ {i}) = Cardinality(Occupied(t)) - 1
    BY <2>1, FS_RemoveElement
  <2>3. Cardinality(Occupied(t)) # 0
    BY <2>1, FS_EmptySet
  <2> HIDE DEF u
  <2> QED
    BY <2>1, <2>2, <2>3, <1>2
<1>4. \A j \in Occupied(u) : u[j] = t[j]
  BY <1>1, <1>2
<1>5. ASSUME s = TombstoneSlot
      PROVE  Cardinality(Tombs(u)) = Cardinality(Tombs(t)) + 1
  <2>1. Tombs(u) = Tombs(t) \cup {i} /\ i \notin Tombs(t)
    BY <1>1, <1>5, StoreSlots DEF TombstoneSlot, Tombs, Occupied, With
  <2> QED
    BY <2>1, <1>1, CountSlots, FS_AddElement
<1> HIDE DEF u
<1>6. IsTable(u, cap)
  BY <1>1, <1>2, <1>4 DEF IsTable
<1>7. DistinctSlots(u)
  BY <1>2, <1>4 DEF DistinctSlots
<1>8. Pairs(u) = {p \in Pairs(t) : p[1] # t[i].key}
  BY <1>2, <1>4 DEF Pairs, DistinctSlots
<1>9. s = TombstoneSlot /\ Reachable(t, cap) => Reachable(u, cap)
  BY <1>1, <1>2, <1>4 DEF Reachable, TombstoneSlot
<1> QED
  BY <1>2, <1>3, <1>4, <1>5, <1>6, <1>7, <1>8, <1>9 DEF u
------------------------------------------------------------------------------
(***************************************************************************)
(* The inductive invariant.                                                *)
(***************************************************************************)
CallInv ==
  /\ pc \in {"idle", "ensure", "rebuild", "place"}
  /\ pc = "idle" => call = NoCall
  /\ pc # "idle" => call \in [key : Keys, value : Values]
  /\ count \in Nat /\ tombstones \in Nat /\ cursor \in Nat

\* Entries and tombstones together never fill more than three quarters of a
\* table, and one more entry fits where it is about to be placed.
LoadInv ==
  /\ capacity # 0 => capacity >= 2
  /\ pc # "rebuild" => (count + tombstones) * 4 <= capacity * 3
  /\ pc = "place" => capacity # 0 /\ (count + tombstones + 1) * 4 <= capacity * 3

\* The new table has no tombstones and room for all entries, the entries
\* behind the cursor have moved, and none is in both tables.
RebuildInv ==
  /\ pc # "rebuild" => newCapacity = 0
  /\ pc = "rebuild" =>
       /\ newCapacity >= 2 /\ (count + 1) * 4 <= newCapacity * 3
       /\ Tombs(newSlots) = {}
       /\ cursor <= capacity
       /\ \A i \in Occupied(slots) : cursor <= i
       /\ \A i \in Occupied(slots), j \in Occupied(newSlots) : slots[i].key # newSlots[j].key

IInv ==
  /\ IsTable(slots, capacity) /\ IsTable(newSlots, newCapacity)
  /\ CallInv
  /\ ProbeSound
  /\ CountersExact
  /\ LoadInv
  /\ RebuildInv

\* A table that is probed has an empty slot.
LEMMA Roomy ==
  ASSUME IInv
  PROVE  /\ capacity # 0 /\ pc # "rebuild" => HasEmpty(slots)
         /\ pc = "rebuild" => HasEmpty(newSlots)
<1>1. /\ capacity \in Nat /\ slots \in [Indices(capacity) -> Slot]
      /\ newCapacity \in Nat /\ newSlots \in [Indices(newCapacity) -> Slot]
  BY DEF IInv, IsTable
<1>2. /\ Cardinality(Occupied(slots)) \in Nat /\ Cardinality(Occupied(newSlots)) \in Nat
      /\ Cardinality(Occupied(slots)) + Cardinality(Tombs(slots)) < capacity => HasEmpty(slots)
      /\ Cardinality(Occupied(newSlots)) + Cardinality(Tombs(newSlots)) < newCapacity
           => HasEmpty(newSlots)
  BY <1>1, CountSlots
<1>3. ASSUME capacity # 0, pc # "rebuild"
      PROVE  Cardinality(Occupied(slots)) + Cardinality(Tombs(slots)) < capacity
  <2>1. (count + tombstones) * 4 <= capacity * 3 /\ count \in Nat /\ tombstones \in Nat
    BY <1>3 DEF IInv, LoadInv, CallInv
  <2>2. /\ count = Cardinality(Occupied(slots)) + Cardinality(Occupied(newSlots))
        /\ tombstones = Cardinality(Tombs(slots))
    BY <1>3 DEF IInv, CountersExact
  <2> QED
    BY <2>1, <2>2, <1>1, <1>2, <1>3
<1>4. ASSUME pc = "rebuild"
      PROVE  Cardinality(Occupied(newSlots)) + Cardinality(Tombs(newSlots)) < newCapacity
  <2>1. (count + 1) * 4 <= newCapacity * 3 /\ count \in Nat /\ Tombs(newSlots) = {}
    BY <1>4 DEF IInv, RebuildInv, CallInv
  <2>2. count = Cardinality(Occupied(slots)) + Cardinality(Occupied(newSlots))
    BY DEF IInv, CountersExact
  <2>3. Cardinality(Tombs(newSlots)) = 0
    BY <2>1, FS_EmptySet
  <2> QED
    BY <2>1, <2>2, <2>3, <1>1, <1>2
<1> QED
  BY <1>2, <1>3, <1>4

\* A table of no slots.
LEMMA NoSlots ==
  ASSUME NEW cap \in Nat
  PROVE  /\ IsTable(EmptyTable(cap), cap)
         /\ Reachable(EmptyTable(cap), cap) /\ DistinctSlots(EmptyTable(cap))
         /\ Occupied(EmptyTable(cap)) = {} /\ Tombs(EmptyTable(cap)) = {}
         /\ Pairs(EmptyTable(cap)) = {}
<1>1. Occupied(EmptyTable(cap)) = {} /\ Tombs(EmptyTable(cap)) = {}
  BY DEF EmptyTable, EmptySlot, Occupied, Tombs, With
<1>2. IsTable(EmptyTable(cap), cap)
  BY <1>1 DEF IsTable, EmptyTable, EmptySlot, Slot, SlotStates
<1> QED
  BY <1>1, <1>2 DEF Reachable, DistinctSlots, Pairs

\* Outside a rebuild there is only one table.
LEMMA OneTable ==
  ASSUME IInv, pc # "rebuild"
  PROVE  /\ Occupied(newSlots) = {} /\ Pairs(newSlots) = {}
         /\ Reachable(slots, capacity) /\ DistinctSlots(slots)
         /\ count = Cardinality(Occupied(slots)) /\ tombstones = Cardinality(Tombs(slots))
         /\ Content = Pairs(slots)
<1>1. Occupied(newSlots) = {}
  BY DEF IInv, RebuildInv, IsTable, Indices, Occupied, With
<1>2. Pairs(newSlots) = {}
  BY <1>1 DEF Pairs
<1>3. /\ count = Cardinality(Occupied(slots)) + Cardinality(Occupied(newSlots))
      /\ tombstones = Cardinality(Tombs(slots)) /\ count \in Nat
  BY DEF IInv, CountersExact, CallInv
<1>4. Cardinality(Occupied(slots)) \in Nat /\ Cardinality(Occupied(newSlots)) = 0
  BY <1>1, FS_EmptySet, CountSlots DEF IInv, IsTable
<1> QED
  BY <1>1, <1>2, <1>3, <1>4 DEF IInv, ProbeSound, Content

\* An initialised map.
LEMMA InitIInv == Init => IInv
<1> SUFFICES ASSUME Init PROVE IInv
  OBVIOUS
<1>1. /\ IsTable(slots, capacity) /\ IsTable(newSlots, newCapacity)
      /\ ProbeSound
      /\ Occupied(slots) = {} /\ Tombs(slots) = {} /\ Occupied(newSlots) = {}
  BY NoSlots DEF Init, ProbeSound
<1>2. CountersExact
  BY <1>1, FS_EmptySet DEF Init, CountersExact
<1> QED
  BY <1>1, <1>2 DEF Init, IInv, CallInv, LoadInv, RebuildInv

\* A set begins or ends, or finds room: the tables stay as they are.
LEMMA CallStep ==
  IInv /\ ((\E k \in Keys, v \in Values : BeginSet(k, v)) \/ EnsureHasRoom \/ EnsureFails \/ PlaceFails)
    => IInv'
<1> SUFFICES ASSUME IInv, (\E k \in Keys, v \in Values : BeginSet(k, v)) \/ EnsureHasRoom
                            \/ EnsureFails \/ PlaceFails
              PROVE  IInv'
  OBVIOUS
<1>1. /\ UNCHANGED <<capacity, slots, count, tombstones, newCapacity, newSlots, cursor>>
      /\ pc # "rebuild" /\ pc' # "rebuild"
      /\ pc' = "place" => HasRoom
      /\ CallInv'
  BY DEF BeginSet, EnsureHasRoom, EnsureFails, PlaceFails, EndSet, rebuild, IInv, CallInv
<1>2. ProbeSound' /\ CountersExact' /\ RebuildInv'
  BY <1>1 DEF IInv, ProbeSound, CountersExact, RebuildInv
<1>3. LoadInv'
  BY <1>1 DEF IInv, LoadInv, HasRoom
<1> QED
  BY <1>1, <1>2, <1>3 DEF IInv

\* The doubled capacity always has room for one more entry.
LEMMA GrownFits ==
  ASSUME IInv, pc = "ensure"
  PROVE  Grown \in Nat /\ Grown >= 2 /\ (count + 1) * 4 <= Grown * 3
<1>1. /\ capacity \in Nat /\ count \in Nat /\ tombstones \in Nat
      /\ capacity # 0 => capacity >= 2
      /\ (count + tombstones) * 4 <= capacity * 3
      /\ InitialCapacity \in Nat /\ InitialCapacity >= 2
  BY HashMapAssumption DEF IInv, IsTable, CallInv, LoadInv
<1>2. NextCapacity \in Nat /\ NextCapacity >= 2 /\ (count + 1) * 4 <= NextCapacity * 3
  BY <1>1 DEF NextCapacity
<1> QED
  BY <1>2 DEF Grown, Fits

\* A new table is allocated.
LEMMA EnsureRebuildsStep == IInv /\ EnsureRebuilds => IInv'
<1> SUFFICES ASSUME IInv, EnsureRebuilds PROVE IInv'
  OBVIOUS
<1>1. /\ pc = "ensure" /\ pc' = "rebuild" /\ newCapacity' = Grown /\ cursor' = 0
      /\ newSlots' = EmptyTable(Grown)
      /\ UNCHANGED <<capacity, slots, count, tombstones, call>>
  BY DEF EnsureRebuilds
<1>2. Grown \in Nat /\ Grown >= 2 /\ (count + 1) * 4 <= Grown * 3
  BY <1>1, GrownFits
<1>3. /\ IsTable(newSlots', newCapacity') /\ Occupied(newSlots') = {} /\ Tombs(newSlots') = {}
      /\ Reachable(newSlots', newCapacity') /\ DistinctSlots(newSlots')
  BY <1>1, <1>2, NoSlots
<1>4. /\ DistinctSlots(slots) /\ Occupied(newSlots) = {}
      /\ count = Cardinality(Occupied(slots)) + Cardinality(Occupied(newSlots))
      /\ Occupied(slots) \subseteq Nat /\ capacity \in Nat
  BY <1>1, OneTable DEF IInv, CountersExact, IsTable, Occupied, With, Indices
<1>5. CallInv' /\ LoadInv'
  BY <1>1 DEF IInv, CallInv, LoadInv
<1>6. ProbeSound' /\ CountersExact'
  BY <1>1, <1>3, <1>4 DEF ProbeSound, CountersExact
<1>7. RebuildInv'
  BY <1>1, <1>2, <1>3, <1>4 DEF RebuildInv
<1> QED
  BY <1>1, <1>3, <1>5, <1>6, <1>7 DEF IInv

\* Where an entry of the old table goes.
LEMMA EntryMoves ==
  ASSUME IInv, MoveEntry, slots[cursor].state = "occupied"
  PROVE  \E f \in Indices(newCapacity), k \in Keys, v \in Values :
           /\ cursor \in Occupied(slots) /\ slots[cursor].key = k
           /\ slots[cursor] = Pair(k, v)
           /\ newSlots[f].state = "empty"
           /\ \A j \in Indices(newCapacity) :
                Before(Home(k, newCapacity), j, f) => newSlots[j].state # "empty"
           /\ \A j \in Occupied(newSlots) : newSlots[j].key # k
           /\ newSlots' = Store(newSlots, f, Pair(k, v))
           /\ slots' = Store(slots, cursor, EmptySlot)
<1>1. /\ pc = "rebuild" /\ cursor < capacity /\ cursor \in Nat /\ capacity \in Nat
      /\ slots \in [Indices(capacity) -> Slot] /\ IsTable(newSlots, newCapacity)
      /\ Reachable(newSlots, newCapacity)
      /\ \A i \in Occupied(slots) : slots[i].key \in Keys /\ slots[i].value \in Values
      /\ \A i \in Occupied(slots), j \in Occupied(newSlots) : slots[i].key # newSlots[j].key
  BY DEF IInv, MoveEntry, IsTable, CallInv, ProbeSound, RebuildInv
<1>2. cursor \in Indices(capacity) /\ cursor \in Occupied(slots)
  BY <1>1 DEF Indices, Occupied, With
<1> DEFINE k == slots[cursor].key
           v == slots[cursor].value
           f == FindIndex(newSlots, newCapacity, k)
<1>3. k \in Keys /\ v \in Values /\ slots[cursor] \in Slot
  BY <1>1, <1>2
<1>4. slots[cursor] = Pair(k, v)
  BY <1>3 DEF Slot, Pair
<1>5. \A j \in Occupied(newSlots) : newSlots[j].key # k
  BY <1>1, <1>2
<1>6. newSlots' = Store(newSlots, f, Pair(k, v)) /\ slots' = Store(slots, cursor, EmptySlot)
  BY <1>4 DEF MoveEntry, Store
<1>7. HasEmpty(newSlots)
  BY <1>1, Roomy
<1> HIDE DEF k, v
<1>8. ~ Found(newSlots, newCapacity, k)
  BY <1>1, <1>3, <1>5, <1>7, ProbeFinds
<1>9. /\ f \in Indices(newCapacity) /\ newSlots[f].state \in {"empty", "tombstone"}
      /\ \A j \in Indices(newCapacity) :
           Before(Home(k, newCapacity), j, f) => newSlots[j].state # "empty"
  BY <1>1, <1>3, <1>7, <1>8, InsertionSlot
<1> HIDE DEF f
<1>10. newSlots[f].state = "empty"
  <2>1. Tombs(newSlots) = {} /\ f \in DOMAIN newSlots
    BY <1>1, <1>9 DEF IInv, RebuildInv, IsTable
  <2> QED
    BY <2>1, <1>9 DEF Tombs, With
<1>11. slots[cursor].key = k
  BY DEF k
<1> QED
  BY <1>2, <1>3, <1>4, <1>5, <1>6, <1>9, <1>10, <1>11

\* One turn of the loop of the rebuild.
LEMMA MoveEntryStep == IInv /\ MoveEntry => IInv'
<1> SUFFICES ASSUME IInv, MoveEntry PROVE IInv'
  OBVIOUS
<1>1. /\ pc = "rebuild" /\ cursor' = cursor + 1 /\ cursor < capacity
      /\ UNCHANGED <<capacity, count, tombstones, call, pc, newCapacity>>
  BY DEF MoveEntry
<1>2. /\ cursor \in Nat /\ capacity \in Nat
      /\ IsTable(slots, capacity) /\ IsTable(newSlots, newCapacity)
      /\ DistinctSlots(slots) /\ DistinctSlots(newSlots) /\ Reachable(newSlots, newCapacity)
      /\ count = Cardinality(Occupied(slots)) + Cardinality(Occupied(newSlots))
      /\ Occupied(slots) \subseteq Nat
  BY DEF IInv, CallInv, IsTable, ProbeSound, CountersExact, Occupied, With, Indices
<1>3. /\ newCapacity >= 2 /\ (count + 1) * 4 <= newCapacity * 3
      /\ Tombs(newSlots) = {}
      /\ \A i \in Occupied(slots) : cursor <= i
      /\ \A i \in Occupied(slots), j \in Occupied(newSlots) : slots[i].key # newSlots[j].key
  BY <1>1 DEF IInv, RebuildInv
<1>4. CallInv' /\ LoadInv'
  BY <1>1 DEF IInv, CallInv, LoadInv
<1>5. CASE slots[cursor].state = "occupied"
  <2>1. PICK f \in Indices(newCapacity), k \in Keys, v \in Values :
           /\ cursor \in Occupied(slots) /\ slots[cursor].key = k
           /\ newSlots[f].state = "empty"
           /\ \A j \in Indices(newCapacity) :
                Before(Home(k, newCapacity), j, f) => newSlots[j].state # "empty"
           /\ \A j \in Occupied(newSlots) : newSlots[j].key # k
           /\ newSlots' = Store(newSlots, f, Pair(k, v))
           /\ slots' = Store(slots, cursor, EmptySlot)
    BY <1>5, EntryMoves
  <2>2. /\ IsTable(newSlots', newCapacity)
        /\ Occupied(newSlots') = Occupied(newSlots) \cup {f}
        /\ Tombs(newSlots') = Tombs(newSlots) \ {f}
        /\ Cardinality(Occupied(newSlots')) = Cardinality(Occupied(newSlots)) + 1
    BY <1>2, <2>1, StoreEntry
  <2>3. Reachable(newSlots', newCapacity) /\ DistinctSlots(newSlots')
    BY <1>2, <2>1, StoreReachable
  <2>4. /\ IsTable(slots', capacity) /\ DistinctSlots(slots')
        /\ Occupied(slots') = Occupied(slots) \ {cursor}
        /\ \A j \in Occupied(slots') : slots'[j] = slots[j]
        /\ Cardinality(Occupied(slots')) = Cardinality(Occupied(slots)) - 1
    BY <1>2, <2>1, StoreFree
  <2>5. newSlots'[f].key = k /\ \A j \in Occupied(newSlots) : newSlots'[j] = newSlots[j]
    <3>1. /\ newSlots \in [Indices(newCapacity) -> Slot] /\ newCapacity \in Nat
          /\ f \notin Occupied(newSlots) /\ Occupied(newSlots) \subseteq Indices(newCapacity)
      BY <1>2, <2>1 DEF IsTable, Occupied, With
    <3> QED
      BY <3>1, <2>1 DEF Store, Pair
  <2>6. Cardinality(Occupied(slots)) \in Nat /\ Cardinality(Occupied(newSlots)) \in Nat
    BY <1>2, CountSlots DEF IsTable
  <2>7. CountersExact'
    BY <1>1, <1>2, <2>2, <2>4, <2>6 DEF CountersExact
  <2>8. ProbeSound'
    BY <1>1, <2>3, <2>4 DEF ProbeSound
  <2>9. \A i \in Occupied(slots') : i \in Occupied(slots) /\ i # cursor
    BY <2>4
  <2>10. \A i \in Occupied(slots') : cursor + 1 <= i
    BY <1>2, <1>3, <2>9
  <2>11. \A i \in Occupied(slots'), j \in Occupied(newSlots') : slots'[i].key # newSlots'[j].key
    <3>1. \A i \in Occupied(slots') : slots'[i].key # k
      BY <1>2, <2>1, <2>4, <2>9 DEF DistinctSlots
    <3> QED
      BY <3>1, <1>3, <2>2, <2>4, <2>5, <2>9
  <2>12. RebuildInv'
    BY <1>1, <1>2, <1>3, <2>2, <2>10, <2>11 DEF RebuildInv
  <2> QED
    BY <1>1, <1>4, <2>2, <2>4, <2>7, <2>8, <2>12 DEF IInv
<1>6. CASE slots[cursor].state # "occupied"
  <2>1. newSlots' = newSlots /\ slots' = slots
    BY <1>6 DEF MoveEntry
  <2>2. ProbeSound' /\ CountersExact'
    BY <1>1, <2>1 DEF IInv, ProbeSound, CountersExact
  <2>3. cursor \notin Occupied(slots)
    BY <1>6 DEF Occupied, With
  <2>4. \A i \in Occupied(slots) : cursor + 1 <= i
    BY <1>2, <1>3, <2>3
  <2>5. RebuildInv'
    BY <1>1, <1>2, <1>3, <2>1, <2>4 DEF RebuildInv
  <2> QED
    BY <1>1, <1>2, <1>4, <2>1, <2>2, <2>5 DEF IInv
<1> QED
  BY <1>5, <1>6

\* The new table takes the place of the old one.
LEMMA FinishRebuildStep == IInv /\ FinishRebuild => IInv'
<1> SUFFICES ASSUME IInv, FinishRebuild PROVE IInv'
  OBVIOUS
<1>1. /\ pc = "rebuild" /\ pc' = "place" /\ cursor = capacity /\ cursor' = 0
      /\ slots' = newSlots /\ capacity' = newCapacity /\ tombstones' = 0
      /\ newSlots' = EmptyTable(0) /\ newCapacity' = 0 /\ count' = count /\ call' = call
  BY DEF FinishRebuild
<1>2. Occupied(slots) = {}
  <2>1. \A i \in Occupied(slots) : i \in Nat /\ i < capacity /\ capacity \in Nat
    BY DEF IInv, IsTable, Occupied, With, Indices
  <2>2. \A i \in Occupied(slots) : capacity <= i
    BY <1>1 DEF IInv, RebuildInv
  <2> QED
    BY <2>1, <2>2
<1>3. /\ count = Cardinality(Occupied(newSlots)) /\ Tombs(newSlots) = {}
      /\ newCapacity >= 2 /\ (count + 1) * 4 <= newCapacity * 3
      /\ count \in Nat /\ newCapacity \in Nat
  <2>1. count = Cardinality(Occupied(slots)) + Cardinality(Occupied(newSlots))
        /\ Cardinality(Occupied(slots)) = 0 /\ Cardinality(Occupied(newSlots)) \in Nat
    BY <1>2, FS_EmptySet, CountSlots DEF IInv, CountersExact, IsTable
  <2> QED
    BY <2>1, <1>1 DEF IInv, RebuildInv, CallInv, IsTable
<1>4. /\ IsTable(newSlots', newCapacity') /\ Occupied(newSlots') = {}
      /\ Reachable(newSlots', newCapacity') /\ DistinctSlots(newSlots')
  BY <1>1, NoSlots
<1>5. CountersExact'
  <2>1. /\ Cardinality(Occupied(newSlots')) = 0 /\ Cardinality(Tombs(newSlots)) = 0
        /\ Cardinality(Occupied(newSlots)) \in Nat
    BY <1>3, <1>4, FS_EmptySet
  <2> QED
    BY <2>1, <1>1, <1>3 DEF CountersExact
<1>6. CallInv' /\ LoadInv' /\ RebuildInv'
  BY <1>1, <1>3 DEF IInv, CallInv, LoadInv, RebuildInv
<1>7. IsTable(slots', capacity') /\ ProbeSound'
  BY <1>1, <1>4 DEF IInv, ProbeSound
<1> QED
  BY <1>4, <1>5, <1>6, <1>7 DEF IInv

\* An update of an entry.
Update(t, i, v) == [t EXCEPT ![i].value = v]

LEMMA StoreValue ==
  ASSUME NEW cap, NEW t, IsTable(t, cap), NEW i \in Occupied(t), DistinctSlots(t), NEW v \in Values
  PROVE  LET u == Update(t, i, v)
         IN  /\ IsTable(u, cap) /\ DistinctSlots(u)
             /\ Reachable(t, cap) => Reachable(u, cap)
             /\ Occupied(u) = Occupied(t) /\ Tombs(u) = Tombs(t)
             /\ Pairs(u) = {p \in Pairs(t) : p[1] # t[i].key} \cup {<<t[i].key, v>>}
<1> DEFINE u == Update(t, i, v)
<1>1. /\ cap \in Nat /\ t \in [Indices(cap) -> Slot] /\ i \in Indices(cap)
      /\ Occupied(t) \subseteq Indices(cap)
  BY DEF IsTable, Occupied, With
<1>2. /\ u \in [Indices(cap) -> Slot]
      /\ \A j \in Indices(cap) : u[j].state = t[j].state /\ u[j].key = t[j].key
      /\ \A j \in Indices(cap) : j # i => u[j] = t[j]
      /\ u[i].value = v
  BY <1>1 DEF Slot, Update
<1> HIDE DEF u
<1>3. Occupied(u) = Occupied(t) /\ Tombs(u) = Tombs(t)
  BY <1>1, <1>2 DEF Occupied, Tombs, With
<1>4. IsTable(u, cap)
  BY <1>1, <1>2, <1>3 DEF IsTable
<1>5. DistinctSlots(u) /\ (Reachable(t, cap) => Reachable(u, cap))
  BY <1>1, <1>2, <1>3 DEF DistinctSlots, Reachable
<1>6. Pairs(u) = {p \in Pairs(t) : p[1] # t[i].key} \cup {<<t[i].key, v>>}
  <2>1. \A j \in Occupied(t) : j # i => u[j] = t[j] /\ t[j].key # t[i].key
    BY <1>1, <1>2 DEF DistinctSlots
  <2>2. u[i].key = t[i].key /\ u[i].value = v
    BY <1>1, <1>2
  <2> QED
    BY <2>1, <2>2, <1>3 DEF Pairs
<1> QED
  BY <1>3, <1>4, <1>5, <1>6 DEF u

\* What a set that has found room knows of its key.
LEMMA Placing ==
  ASSUME IInv, pc = "place"
  PROVE  /\ call.key \in Keys /\ call.value \in Values
         /\ IsTable(slots, capacity) /\ HasEmpty(slots)
         /\ Reachable(slots, capacity) /\ DistinctSlots(slots)
<1>1. call \in [key : Keys, value : Values] /\ capacity # 0
  BY DEF IInv, CallInv, LoadInv
<1> QED
  BY <1>1, OneTable, Roomy DEF IInv

\* The value of an entry is replaced.
LEMMA PlaceUpdateStep == IInv /\ PlaceUpdate => IInv'
<1> SUFFICES ASSUME IInv, PlaceUpdate PROVE IInv'
  OBVIOUS
<1>1. /\ pc = "place" /\ pc' = "idle" /\ call' = NoCall
      /\ UNCHANGED <<capacity, count, tombstones, newCapacity, newSlots, cursor>>
      /\ Found(slots, capacity, call.key)
      /\ slots' = Update(slots, Target, call.value)
  BY DEF PlaceUpdate, EndSet, rebuild, Update
<1>2. Target = ProbeEnd(slots, capacity, call.key)
  BY <1>1 DEF Target, FindIndex
<1>3. Target \in Occupied(slots)
  BY <1>1, <1>2, Placing, ProbeFinds
<1>4. /\ IsTable(slots', capacity) /\ DistinctSlots(slots') /\ Reachable(slots', capacity)
      /\ Occupied(slots') = Occupied(slots) /\ Tombs(slots') = Tombs(slots)
  BY <1>1, <1>3, Placing, StoreValue
<1>5. ProbeSound' /\ CountersExact'
  BY <1>1, <1>4 DEF IInv, ProbeSound, CountersExact
<1>6. CallInv' /\ LoadInv' /\ RebuildInv'
  BY <1>1 DEF IInv, CallInv, LoadInv, RebuildInv
<1> QED
  BY <1>1, <1>4, <1>5, <1>6 DEF IInv

\* A new entry takes an empty slot or a tombstone.
LEMMA PlaceInsertStep == IInv /\ PlaceInsert => IInv'
<1> SUFFICES ASSUME IInv, PlaceInsert PROVE IInv'
  OBVIOUS
<1>1. /\ pc = "place" /\ pc' = "idle" /\ call' = NoCall
      /\ UNCHANGED <<capacity, newCapacity, newSlots, cursor>>
      /\ ~ Found(slots, capacity, call.key)
      /\ slots' = Store(slots, Target, Pair(call.key, call.value))
      /\ tombstones' = IF slots[Target].state = "tombstone" THEN tombstones - 1 ELSE tombstones
      /\ count' = count + 1
  BY DEF PlaceInsert, EndSet, rebuild, Store
<1>2. /\ Target \in Indices(capacity) /\ slots[Target].state \in {"empty", "tombstone"}
      /\ \A j \in Indices(capacity) :
           Before(Home(call.key, capacity), j, Target) => slots[j].state # "empty"
  BY <1>1, Placing, InsertionSlot DEF Target
<1>3. \A j \in Occupied(slots) : slots[j].key # call.key
  BY <1>1, Placing, ProbeFinds
<1>4. /\ IsTable(slots', capacity)
      /\ Cardinality(Occupied(slots')) = Cardinality(Occupied(slots)) + 1
      /\ Cardinality(Tombs(slots')) = Cardinality(Tombs(slots))
                                        - (IF slots[Target].state = "tombstone" THEN 1 ELSE 0)
      /\ slots[Target].state = "tombstone" => Cardinality(Tombs(slots)) > 0
  BY <1>1, <1>2, Placing, StoreEntry
<1>5. Reachable(slots', capacity) /\ DistinctSlots(slots')
  BY <1>1, <1>2, <1>3, Placing, StoreReachable
<1>6. /\ count = Cardinality(Occupied(slots)) /\ tombstones = Cardinality(Tombs(slots))
      /\ Occupied(newSlots) = {} /\ Cardinality(Occupied(newSlots)) = 0
      /\ count \in Nat /\ tombstones \in Nat
  BY <1>1, OneTable, FS_EmptySet DEF IInv, CallInv
<1>7. tombstones' = Cardinality(Tombs(slots')) /\ tombstones' \in Nat
  BY <1>1, <1>4, <1>6
<1>8. CountersExact' /\ CallInv'
  BY <1>1, <1>4, <1>6, <1>7 DEF CountersExact, IInv, CallInv
<1>9. LoadInv'
  <2>1. /\ capacity >= 2 /\ capacity \in Nat
        /\ (count + tombstones + 1) * 4 <= capacity * 3
    BY <1>1 DEF IInv, LoadInv, IsTable
  <2> QED
    BY <2>1, <1>1, <1>6 DEF LoadInv
<1>10. ProbeSound' /\ RebuildInv'
  BY <1>1, <1>5 DEF IInv, ProbeSound, RebuildInv
<1> QED
  BY <1>1, <1>4, <1>8, <1>9, <1>10 DEF IInv

\* An entry becomes a tombstone.
LEMMA RemoveStep ==
  ASSUME IInv, NEW k \in Keys, Remove(k)
  PROVE  IInv'
<1> DEFINE e == ProbeEnd(slots, capacity, k)
<1>1. /\ pc = "idle" /\ capacity # 0 /\ Found(slots, capacity, k)
      /\ slots' = Store(slots, e, TombstoneSlot)
      /\ count' = count - 1 /\ tombstones' = tombstones + 1
      /\ UNCHANGED <<capacity, call, pc, newCapacity, newSlots, cursor>>
  BY DEF Remove, rebuild, Store
<1>2. /\ IsTable(slots, capacity) /\ HasEmpty(slots)
      /\ Reachable(slots, capacity) /\ DistinctSlots(slots)
  BY <1>1, OneTable, Roomy DEF IInv
<1>3. e \in Occupied(slots)
  BY <1>1, <1>2, ProbeFinds
<1> HIDE DEF e
<1>4. /\ IsTable(slots', capacity) /\ DistinctSlots(slots') /\ Reachable(slots', capacity)
      /\ Cardinality(Occupied(slots)) > 0
      /\ Cardinality(Occupied(slots')) = Cardinality(Occupied(slots)) - 1
      /\ Cardinality(Tombs(slots')) = Cardinality(Tombs(slots)) + 1
  BY <1>1, <1>2, <1>3, StoreFree
<1>5. /\ count = Cardinality(Occupied(slots)) /\ tombstones = Cardinality(Tombs(slots))
      /\ Cardinality(Occupied(newSlots)) = 0
      /\ count \in Nat /\ tombstones \in Nat
  BY <1>1, OneTable, FS_EmptySet DEF IInv, CallInv
<1>6. CountersExact' /\ CallInv'
  BY <1>1, <1>4, <1>5 DEF CountersExact, IInv, CallInv
<1>7. LoadInv' /\ RebuildInv'
  BY <1>1, <1>5 DEF IInv, LoadInv, RebuildInv
<1>8. ProbeSound'
  BY <1>1, <1>4 DEF IInv, ProbeSound
<1> QED
  BY <1>1, <1>4, <1>6, <1>7, <1>8 DEF IInv

\* The map is cleared or freed.
LEMMA EmptyStep == IInv /\ (Clear \/ Free) => IInv'
<1> SUFFICES ASSUME IInv, Clear \/ Free PROVE IInv'
  OBVIOUS
<1>1. /\ pc = "idle" /\ capacity' \in {capacity, 0} /\ slots' = EmptyTable(capacity')
      /\ count' = 0 /\ tombstones' = 0
      /\ UNCHANGED <<call, pc, newCapacity, newSlots, cursor>>
  BY DEF Clear, Free, rebuild
<1>2. capacity' \in Nat
  BY <1>1 DEF IInv, IsTable
<1>3. /\ IsTable(slots', capacity') /\ Reachable(slots', capacity') /\ DistinctSlots(slots')
      /\ Occupied(slots') = {} /\ Tombs(slots') = {}
  BY <1>1, <1>2, NoSlots
<1>4. Occupied(newSlots) = {}
  BY <1>1, OneTable
<1>5. CountersExact'
  <2>1. Cardinality({}) = 0
    BY FS_EmptySet
  <2> QED
    BY <2>1, <1>1, <1>3, <1>4 DEF CountersExact
<1>6. CallInv' /\ RebuildInv'
  BY <1>1 DEF IInv, CallInv, RebuildInv
<1>7. LoadInv'
  <2>1. (count' + tombstones') * 4 <= capacity' * 3
    <3>1. count' = 0 /\ tombstones' = 0
      BY <1>1
    <3>2. \A c \in Nat : (0 + 0) * 4 <= c * 3
      OBVIOUS
    <3> QED
      BY <1>2, <3>1, <3>2
  <2>2. capacity' # 0 => capacity' >= 2
    BY <1>1 DEF IInv, LoadInv
  <2>3. pc' = "idle"
    BY <1>1
  <2> QED
    BY <2>1, <2>2, <2>3 DEF LoadInv
<1>8. ProbeSound'
  BY <1>1, <1>3 DEF IInv, ProbeSound
<1> QED
  BY <1>1, <1>3, <1>5, <1>6, <1>7, <1>8 DEF IInv

\* Every step keeps the invariant.
LEMMA NextIInv == IInv /\ [Next]_vars => IInv'
<1> SUFFICES ASSUME IInv, [Next]_vars PROVE IInv'
  OBVIOUS
<1>1. CASE UNCHANGED vars
  BY <1>1 DEF vars, rebuild, IInv, CallInv, ProbeSound, CountersExact, LoadInv, RebuildInv
<1>2. CASE Next
  BY <1>2, CallStep, EnsureRebuildsStep, MoveEntryStep, FinishRebuildStep, PlaceUpdateStep,
     PlaceInsertStep, RemoveStep, EmptyStep DEF Next, SetStep
<1> QED
  BY <1>1, <1>2
------------------------------------------------------------------------------
(***************************************************************************)
(* What the steps do to the pairs of the map.                              *)
(***************************************************************************)

\* A failed set, and all that goes before the pair is placed, is invisible.
LEMMA PromiseCall ==
  ASSUME IInv,
         (\E k \in Keys, v \in Values : BeginSet(k, v)) \/ EnsureHasRoom \/ EnsureFails \/ PlaceFails
  PROVE  Promise!BeginSet \/ Promise!FailSet \/ UNCHANGED <<Content, call>>
<1>1. Content' = Content
  BY DEF BeginSet, EnsureHasRoom, EnsureFails, PlaceFails, EndSet, rebuild, Content, Pairs
<1>2. NoCall \notin [key : Keys, value : Values]
  BY HashMapAssumption
<1>3. CASE \E k \in Keys, v \in Values : BeginSet(k, v)
  BY <1>1, <1>3 DEF BeginSet, IInv, CallInv, Promise!BeginSet, Promise!SetCall
<1>4. CASE EnsureHasRoom
  BY <1>1, <1>4 DEF EnsureHasRoom
<1>5. CASE EnsureFails \/ PlaceFails
  BY <1>1, <1>2, <1>5 DEF EnsureFails, PlaceFails, EndSet, IInv, CallInv, Promise!FailSet
<1> QED
  BY <1>3, <1>4, <1>5

\* The new table is empty.
LEMMA PromiseEnsureRebuilds ==
  ASSUME IInv, EnsureRebuilds
  PROVE  UNCHANGED <<Content, call>>
<1>1. /\ pc = "ensure" /\ slots' = slots /\ newSlots' = EmptyTable(Grown) /\ call' = call
  BY DEF EnsureRebuilds
<1>2. Pairs(newSlots) = {} /\ Pairs(newSlots') = {}
  BY <1>1, OneTable, GrownFits, NoSlots
<1> QED
  BY <1>1, <1>2 DEF Content

\* A pair on its way is always in one of the tables.
LEMMA PromiseMoveEntry ==
  ASSUME IInv, MoveEntry
  PROVE  UNCHANGED <<Content, call>>
<1>1. call' = call
  BY DEF MoveEntry
<1>2. CASE slots[cursor].state = "occupied"
  <2>1. PICK f \in Indices(newCapacity), k \in Keys, v \in Values :
           /\ cursor \in Occupied(slots) /\ slots[cursor].key = k
           /\ slots[cursor] = Pair(k, v)
           /\ newSlots[f].state = "empty"
           /\ newSlots' = Store(newSlots, f, Pair(k, v))
           /\ slots' = Store(slots, cursor, EmptySlot)
    BY <1>2, EntryMoves
  <2>2. IsTable(slots, capacity) /\ IsTable(newSlots, newCapacity) /\ DistinctSlots(slots)
    BY DEF IInv, ProbeSound
  <2>3. Pairs(newSlots') = Pairs(newSlots) \cup {<<k, v>>}
    BY <2>1, <2>2, StoreEntry
  <2>4. Pairs(slots') = {p \in Pairs(slots) : p[1] # k}
    BY <2>1, <2>2, StoreFree
  <2>5. <<k, v>> \in Pairs(slots) /\ \A p \in Pairs(slots) : p[1] = k => p = <<k, v>>
    BY <2>1, <2>2 DEF Pairs, Pair, DistinctSlots
  <2> QED
    BY <1>1, <2>3, <2>4, <2>5 DEF Content
<1>3. CASE slots[cursor].state # "occupied"
  BY <1>1, <1>3 DEF MoveEntry, Content
<1> QED
  BY <1>2, <1>3

\* Nothing is left in the old table.
LEMMA PromiseFinishRebuild ==
  ASSUME IInv, FinishRebuild
  PROVE  UNCHANGED <<Content, call>>
<1>1. /\ pc = "rebuild" /\ cursor = capacity /\ call' = call
      /\ slots' = newSlots /\ newSlots' = EmptyTable(0)
  BY DEF FinishRebuild
<1>2. \A i \in Occupied(slots) : i \in Nat /\ i < capacity /\ capacity \in Nat /\ capacity <= i
  BY <1>1 DEF IInv, RebuildInv, IsTable, Occupied, With, Indices
<1>3. Occupied(slots) = {}
  BY <1>2
<1>4. Pairs(slots) = {} /\ Pairs(newSlots') = {}
  BY <1>1, <1>3, NoSlots DEF Pairs
<1> QED
  BY <1>1, <1>4 DEF Content

\* The pair is placed in one step.
LEMMA PromisePlace ==
  ASSUME IInv, PlaceUpdate \/ PlaceInsert
  PROVE  Promise!CommitSet
<1>1. /\ pc = "place" /\ call' = NoCall /\ newSlots' = newSlots
  BY DEF PlaceUpdate, PlaceInsert, EndSet, rebuild
<1>2. call \in [key : Keys, value : Values] /\ call # NoCall
  BY <1>1, HashMapAssumption DEF IInv, CallInv
<1>3. Content = Pairs(slots) /\ Content' = Pairs(slots')
  BY <1>1, OneTable DEF Content
<1>4. Content' = Promise!Without(Content, call.key) \cup {<<call.key, call.value>>}
  <2>1. CASE PlaceUpdate
    <3>1. /\ Found(slots, capacity, call.key)
          /\ slots' = Update(slots, Target, call.value)
      BY <2>1 DEF PlaceUpdate, Update
    <3>2. Target \in Occupied(slots) /\ slots[Target].key = call.key
      BY <1>1, <3>1, Placing, ProbeFinds DEF Target, FindIndex
    <3>3. Pairs(slots') = {p \in Pairs(slots) : p[1] # slots[Target].key}
                            \cup {<<slots[Target].key, call.value>>}
      BY <1>1, <3>1, <3>2, Placing, StoreValue
    <3> QED
      BY <1>3, <3>2, <3>3 DEF Promise!Without
  <2>2. CASE PlaceInsert
    <3>1. /\ ~ Found(slots, capacity, call.key)
          /\ slots' = Store(slots, Target, Pair(call.key, call.value))
      BY <2>2 DEF PlaceInsert, Store
    <3>2. Target \in Indices(capacity) /\ slots[Target].state \in {"empty", "tombstone"}
      BY <1>1, <3>1, Placing, InsertionSlot DEF Target
    <3>3. Pairs(slots') = Pairs(slots) \cup {<<call.key, call.value>>}
      BY <1>1, <3>1, <3>2, Placing, StoreEntry
    <3>4. \A j \in Occupied(slots) : slots[j].key # call.key
      BY <1>1, <3>1, Placing, ProbeFinds
    <3>5. \A p \in Pairs(slots) : p[1] # call.key
      BY <3>4 DEF Pairs
    <3> QED
      BY <1>3, <3>3, <3>5 DEF Promise!Without
  <2> QED
    BY <2>1, <2>2
<1> QED
  BY <1>1, <1>2, <1>4 DEF Promise!CommitSet

\* The pair of the key goes.
LEMMA PromiseRemove ==
  ASSUME IInv, NEW k \in Keys, Remove(k)
  PROVE  Promise!Remove
<1> DEFINE e == ProbeEnd(slots, capacity, k)
<1>1. /\ pc = "idle" /\ capacity # 0 /\ Found(slots, capacity, k) /\ call = NoCall /\ call' = call
      /\ slots' = Store(slots, e, TombstoneSlot) /\ newSlots' = newSlots
  BY DEF Remove, rebuild, Store, IInv, CallInv
<1>2. /\ IsTable(slots, capacity) /\ HasEmpty(slots)
      /\ Reachable(slots, capacity) /\ DistinctSlots(slots)
      /\ Content = Pairs(slots) /\ Pairs(newSlots) = {}
  BY <1>1, OneTable, Roomy DEF IInv
<1>3. e \in Occupied(slots) /\ slots[e].key = k
  BY <1>1, <1>2, ProbeFinds
<1> HIDE DEF e
<1>4. Pairs(slots') = {p \in Pairs(slots) : p[1] # k}
  BY <1>1, <1>2, <1>3, StoreFree
<1>5. Content' = Promise!Without(Content, k)
  BY <1>1, <1>2, <1>4 DEF Content, Promise!Without
<1> QED
  BY <1>1, <1>5 DEF Promise!Remove

\* All pairs go.
LEMMA PromiseEmpty ==
  ASSUME IInv, Clear \/ Free
  PROVE  Promise!Empty
<1>1. /\ pc = "idle" /\ call = NoCall /\ call' = call /\ newSlots' = newSlots
      /\ capacity' \in {capacity, 0} /\ slots' = EmptyTable(capacity')
  BY DEF Clear, Free, rebuild, IInv, CallInv
<1>2. Pairs(newSlots) = {} /\ Pairs(slots') = {}
  BY <1>1, OneTable, NoSlots DEF IInv, IsTable
<1> QED
  BY <1>1, <1>2 DEF Content, Promise!Empty
------------------------------------------------------------------------------
(***************************************************************************)
(* Theorems.                                                               *)
(***************************************************************************)

\* The inductive invariant holds in every reachable state.
THEOREM HashMapInvariance == Spec => []IInv
  BY InitIInv, NextIInv, PTL DEF Spec

\* Every variable has its type.
THEOREM HashMapTypeCorrect == Spec => []TypeOK
<1>1. IInv => TypeOK
  BY DEF IInv, CallInv, IsTable, TypeOK
<1> QED
  BY <1>1, HashMapInvariance, PTL

\* No removal, no insertion over a tombstone and no move between two tables
\* hides an entry from the probe or duplicates a key.
THEOREM ProbeSoundAlways == Spec => []ProbeSound
<1>1. IInv => ProbeSound
  BY DEF IInv
<1> QED
  BY <1>1, HashMapInvariance, PTL

\* count and tombstone_count are what they stand for, after every legal
\* sequence of calls and failures.
THEOREM CountersExactAlways == Spec => []CountersExact
<1>1. IInv => CountersExact
  BY DEF IInv
<1> QED
  BY <1>1, HashMapInvariance, PTL

\* The probe, a loop without a bound, never meets a full table.
THEOREM EmptySlotAlways == Spec => []EmptySlotRemains
<1>1. IInv => EmptySlotRemains
  BY Roomy DEF EmptySlotRemains, IInv, IsTable, HasEmpty
<1> QED
  BY <1>1, HashMapInvariance, PTL

\* A lookup between calls gives the value of the map for every key.
THEOREM LookupExactAlways == Spec => []LookupExact
<1>1. ASSUME IInv, pc = "idle", NEW k \in Keys
      PROVE  IF \E v \in Values : <<k, v>> \in Content
               THEN <<k, Lookup(k)>> \in Content
               ELSE Lookup(k) = NoValue
  <2>1. /\ IsTable(slots, capacity) /\ Reachable(slots, capacity)
        /\ Content = Pairs(slots)
        /\ capacity # 0 => HasEmpty(slots)
    BY <1>1, OneTable, Roomy DEF IInv
  <2>2. CASE capacity = 0
    <3>1. Occupied(slots) = {}
      BY <2>1, <2>2 DEF IsTable, Indices, Occupied, With
    <3>2. \A v : <<k, v>> \notin Content
      BY <2>1, <3>1 DEF Pairs
    <3> QED
      BY <2>2, <3>2 DEF Lookup
  <2>3. CASE capacity # 0
    <3>1. /\ Found(slots, capacity, k) <=> \E i \in Occupied(slots) : slots[i].key = k
          /\ Found(slots, capacity, k) => /\ ProbeEnd(slots, capacity, k) \in Occupied(slots)
                                          /\ slots[ProbeEnd(slots, capacity, k)].key = k
      BY <2>1, <2>3, ProbeFinds
    <3>2. CASE Found(slots, capacity, k)
      <4>1. Lookup(k) = slots[ProbeEnd(slots, capacity, k)].value
        BY <2>3, <3>2 DEF Lookup
      <4>2. <<k, Lookup(k)>> \in Content
        BY <2>1, <3>1, <3>2, <4>1 DEF Pairs
      <4>3. Lookup(k) \in Values
        BY <2>1, <3>1, <3>2, <4>1 DEF IsTable
      <4> QED
        BY <4>2, <4>3
    <3>3. CASE ~ Found(slots, capacity, k)
      <4>1. \A v : <<k, v>> \notin Content
        BY <2>1, <3>1, <3>3 DEF Pairs
      <4> QED
        BY <4>1, <3>3 DEF Lookup
    <3> QED
      BY <3>2, <3>3
  <2> QED
    BY <2>2, <2>3
<1>2. IInv => LookupExact
  BY <1>1 DEF LookupExact
<1> QED
  BY <1>2, HashMapInvariance, PTL

\* The hash table is a set of pairs: tombstones, probes, rebuilds and failed
\* allocations are invisible.
THEOREM MapKeepsPromise == Spec => ImplementsKeyedMap
<1>1. Init => Promise!Init
  BY NoSlots DEF Init, Promise!Init, Content
<1>2. IInv /\ [Next]_vars => [Promise!Next]_(Promise!vars)
  <2> SUFFICES ASSUME IInv, [Next]_vars
               PROVE  Promise!Next \/ UNCHANGED <<Content, call>>
    BY DEF Promise!vars
  <2>1. CASE UNCHANGED vars
    BY <2>1 DEF vars, rebuild, Content, Pairs
  <2>2. CASE Next
    BY <2>2, PromiseCall, PromiseEnsureRebuilds, PromiseMoveEntry, PromiseFinishRebuild,
       PromisePlace, PromiseRemove, PromiseEmpty DEF Next, SetStep, Promise!Next
  <2> QED
    BY <2>1, <2>2
<1> QED
  BY <1>1, <1>2, HashMapInvariance, PTL DEF Spec, ImplementsKeyedMap, Promise!Spec
==============================================================================
