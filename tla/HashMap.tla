------------------------------- MODULE HashMap -------------------------------
(***************************************************************************)
(* The open-addressing hash table behind VIGIL maps (src/map.c): linear    *)
(* probing, tombstones on removal, a rebuild into a larger table when      *)
(* entries and tombstones would pass three quarters of the capacity.       *)
(*                                                                         *)
(* One VM uses a map at a time.  A set is a call of several steps: it may  *)
(* run out of memory before it changes anything, move the entries one by   *)
(* one to a new table, and run out of memory again before it stores the    *)
(* pair.  The other operations take effect in one step.                    *)
(*                                                                         *)
(* A key here is a key value the map accepts (integer, bool or string).    *)
(* Two keys may hash alike: the int 1, the uint 1 and true do.             *)
(***************************************************************************)
EXTENDS Integers, FiniteSets

CONSTANTS
  Keys, Values,
  Hash,             \* the 64-bit hash of each key
  InitialCapacity,  \* 16 in the code
  MaxCapacity,      \* bound: no table is allocated beyond it
  NoKey, NoValue, NoCall

ASSUME HashMapAssumption ==
  /\ Hash \in [Keys -> Nat]
  /\ InitialCapacity \in Nat /\ InitialCapacity >= 2
  /\ MaxCapacity \in Nat
  /\ NoCall \notin [key : Keys, value : Values]

VARIABLES
  capacity, slots,       \* map->capacity and map->entries
  count, tombstones,     \* map->count and map->tombstone_count
  call,                  \* the set in progress, or NoCall
  pc,                    \* where it is: "idle", "ensure", "rebuild", "place"
  newCapacity, newSlots, \* the table vigil_map_rebuild fills
  cursor                 \* its loop index over the old table

vars    == <<capacity, slots, count, tombstones, call, pc, newCapacity,
             newSlots, cursor>>
rebuild == <<newCapacity, newSlots, cursor>>

Indices(cap) == 0 .. cap - 1
SlotStates   == {"empty", "occupied", "tombstone"}
Slot         == [state : SlotStates, key : Keys \cup {NoKey},
                 value : Values \cup {NoValue}]

EmptySlot     == [state |-> "empty", key |-> NoKey, value |-> NoValue]
TombstoneSlot == [state |-> "tombstone", key |-> NoKey, value |-> NoValue]
Pair(k, v)    == [state |-> "occupied", key |-> k, value |-> v]
EmptyTable(cap) == [i \in Indices(cap) |-> EmptySlot]

With(t, s)    == {i \in DOMAIN t : t[i].state = s}
Occupied(t)   == With(t, "occupied")
Tombs(t)      == With(t, "tombstone")
------------------------------------------------------------------------------
(***************************************************************************)
(* The probe.  It starts at the key's home slot and walks the table with   *)
(* wrap-around to the first slot that is empty or holds the key; an        *)
(* insertion prefers the first tombstone it passed on the way.             *)
(***************************************************************************)
Home(k, cap) == Hash[k] % cap

\* A walk from h visits slot i before it visits slot s.
Before(h, i, s) == IF h <= s THEN h <= i /\ i < s ELSE h <= i \/ i < s

MutantStops(t, k, i) ==  \* a tombstone ends the probe
  t[i].state # "occupied" \/ t[i].key = k

Stops(t, k, i) ==
  t[i].state = "empty" \/ (t[i].state = "occupied" /\ t[i].key = k)

IsProbeEnd(t, cap, k, i) ==
  /\ Stops(t, k, i)
  /\ \A j \in Indices(cap) : Before(Home(k, cap), j, i) => ~ Stops(t, k, j)

ProbeEnd(t, cap, k) == CHOOSE i \in Indices(cap) : IsProbeEnd(t, cap, k, i)

Found(t, cap, k) == t[ProbeEnd(t, cap, k)].state = "occupied"

PassedTombs(t, cap, k) ==
  {i \in Tombs(t) : Before(Home(k, cap), i, ProbeEnd(t, cap, k))}

\* vigil_map_find_index_value: the slot it returns.
FindIndex(t, cap, k) ==
  IF Found(t, cap, k) \/ PassedTombs(t, cap, k) = {}
    THEN ProbeEnd(t, cap, k)
    ELSE CHOOSE i \in PassedTombs(t, cap, k) :
           \A j \in PassedTombs(t, cap, k) : ~ Before(Home(k, cap), j, i)

\* vigil_map_get_value: NULL, or the value of the slot found.
Lookup(k) ==
  IF capacity # 0 /\ Found(slots, capacity, k)
    THEN slots[ProbeEnd(slots, capacity, k)].value
    ELSE NoValue
------------------------------------------------------------------------------
TypeOK ==
  /\ capacity \in Nat
  /\ slots \in [Indices(capacity) -> Slot]
  /\ count \in Nat
  /\ tombstones \in Nat
  /\ call \in [key : Keys, value : Values] \cup {NoCall}
  /\ pc \in {"idle", "ensure", "rebuild", "place"}
  /\ newCapacity \in Nat
  /\ newSlots \in [Indices(newCapacity) -> Slot]
  /\ cursor \in Nat

Init ==
  /\ capacity = 0
  /\ slots = EmptyTable(0)
  /\ count = 0
  /\ tombstones = 0
  /\ call = NoCall
  /\ pc = "idle"
  /\ newCapacity = 0
  /\ newSlots = EmptyTable(0)
  /\ cursor = 0
------------------------------------------------------------------------------
(***************************************************************************)
(* Faulty variants of definitions below, one for each property.            *)
(***************************************************************************)
MutantHasRoom == capacity # 0 /\ (count + 1) * 4 <= capacity * 3

MutantMoveEntryNoProbe ==  \* moves an entry to its home slot, taken or not
  /\ pc = "rebuild" /\ cursor < capacity
  /\ cursor' = cursor + 1
  /\ IF slots[cursor].state = "occupied"
       THEN /\ newSlots' = [newSlots EXCEPT
                  ![Home(slots[cursor].key, newCapacity)] = slots[cursor]]
            /\ slots' = [slots EXCEPT ![cursor] = EmptySlot]
       ELSE UNCHANGED <<newSlots, slots>>
  /\ UNCHANGED <<capacity, count, tombstones, call, pc, newCapacity>>

\* An insertion that counts the tombstones by another rule.
InsertCounting(tombs) ==
  LET target == FindIndex(slots, capacity, call.key)
  IN /\ pc = "place" /\ ~ Found(slots, capacity, call.key)
     /\ slots' = [slots EXCEPT ![target] = Pair(call.key, call.value)]
     /\ tombstones' = tombs
     /\ count' = count + 1
     /\ call' = NoCall /\ pc' = "idle"
     /\ UNCHANGED <<capacity, rebuild>>

MutantPlaceInsertKeeps == InsertCounting(tombstones)

MutantRemove(k) ==  \* leaves an empty slot behind
  /\ pc = "idle"
  /\ capacity # 0 /\ Found(slots, capacity, k)
  /\ slots' = [slots EXCEPT ![ProbeEnd(slots, capacity, k)] = EmptySlot]
  /\ count' = count - 1
  /\ UNCHANGED <<capacity, tombstones, call, pc, rebuild>>
------------------------------------------------------------------------------
(* vigil_map_set_value, step by step. *)

BeginSet(k, v) ==
  /\ pc = "idle"
  /\ call' = [key |-> k, value |-> v]
  /\ pc' = "ensure"
  /\ UNCHANGED <<capacity, slots, count, tombstones, rebuild>>

EndSet ==
  /\ call' = NoCall
  /\ pc' = "idle"

HasRoom == capacity # 0 /\ (count + tombstones + 1) * 4 <= capacity * 3

\* vigil_map_ensure_capacity: the capacity asked for doubles at least once,
\* and again while one more entry would not fit.
NextCapacity == IF capacity = 0 THEN InitialCapacity ELSE capacity * 2
Fits(cap)    == (count + 1) * 4 <= cap * 3
Grown ==
  IF Fits(NextCapacity)
    THEN NextCapacity
    ELSE CHOOSE cap \in {NextCapacity * 2^i : i \in 1 .. count + 1} :
           Fits(cap) /\ ~ Fits(cap \div 2)

EnsureHasRoom ==
  /\ pc = "ensure" /\ HasRoom
  /\ pc' = "place"
  /\ UNCHANGED <<capacity, slots, count, tombstones, call, rebuild>>

EnsureRebuilds ==
  /\ pc = "ensure" /\ ~ HasRoom
  /\ Grown <= MaxCapacity
  /\ pc' = "rebuild"
  /\ newCapacity' = Grown
  /\ newSlots' = EmptyTable(Grown)
  /\ cursor' = 0
  /\ UNCHANGED <<capacity, slots, count, tombstones, call>>

\* No memory for the new table, before an entry has moved.
EnsureFails ==
  /\ pc = "ensure" /\ ~ HasRoom
  /\ EndSet
  /\ UNCHANGED <<capacity, slots, count, tombstones, rebuild>>

\* One turn of the loop of vigil_map_rebuild: the entry moves, its old slot
\* is zeroed, a tombstone stays behind.
MoveEntry ==
  /\ pc = "rebuild" /\ cursor < capacity
  /\ cursor' = cursor + 1
  /\ IF slots[cursor].state = "occupied"
       THEN /\ newSlots' = [newSlots EXCEPT
                  ![FindIndex(newSlots, newCapacity, slots[cursor].key)]
                    = slots[cursor]]
            /\ slots' = [slots EXCEPT ![cursor] = EmptySlot]
       ELSE UNCHANGED <<newSlots, slots>>
  /\ UNCHANGED <<capacity, count, tombstones, call, pc, newCapacity>>

\* The old table is freed and the new one takes its place.
FinishRebuild ==
  /\ pc = "rebuild" /\ cursor = capacity
  /\ slots' = newSlots
  /\ capacity' = newCapacity
  /\ tombstones' = 0
  /\ pc' = "place"
  /\ newCapacity' = 0
  /\ newSlots' = EmptyTable(0)
  /\ cursor' = 0
  /\ UNCHANGED <<count, call>>

Target == FindIndex(slots, capacity, call.key)

PlaceUpdate ==
  /\ pc = "place" /\ Found(slots, capacity, call.key)
  /\ slots' = [slots EXCEPT ![Target].value = call.value]
  /\ EndSet
  /\ UNCHANGED <<capacity, count, tombstones, rebuild>>

PlaceInsert ==
  /\ pc = "place" /\ ~ Found(slots, capacity, call.key)
  /\ slots' = [slots EXCEPT ![Target] = Pair(call.key, call.value)]
  /\ tombstones' = IF slots[Target].state = "tombstone"
                     THEN tombstones - 1 ELSE tombstones
  /\ count' = count + 1
  /\ EndSet
  /\ UNCHANGED <<capacity, rebuild>>

\* vigil_map_set, the entry point for string keys, allocates the key's
\* string object only now.
PlaceFails ==
  /\ pc = "place" /\ ~ Found(slots, capacity, call.key)
  /\ EndSet
  /\ UNCHANGED <<capacity, slots, count, tombstones, rebuild>>
------------------------------------------------------------------------------
(* vigil_map_remove_value, vigil_map_clear, vigil_map_free. *)

Remove(k) ==
  /\ pc = "idle"
  /\ capacity # 0 /\ Found(slots, capacity, k)
  /\ slots' = [slots EXCEPT ![ProbeEnd(slots, capacity, k)] = TombstoneSlot]
  /\ count' = count - 1
  /\ tombstones' = tombstones + 1
  /\ UNCHANGED <<capacity, call, pc, rebuild>>

Clear ==
  /\ pc = "idle"
  /\ slots' = EmptyTable(capacity)
  /\ count' = 0
  /\ tombstones' = 0
  /\ UNCHANGED <<capacity, call, pc, rebuild>>

\* The map is initialised again (vigil_map_init) before its next use.
Free ==
  /\ pc = "idle"
  /\ capacity' = 0
  /\ slots' = EmptyTable(0)
  /\ count' = 0
  /\ tombstones' = 0
  /\ UNCHANGED <<call, pc, rebuild>>
------------------------------------------------------------------------------
SetStep ==
  \/ EnsureHasRoom
  \/ EnsureRebuilds
  \/ EnsureFails
  \/ MoveEntry
  \/ FinishRebuild
  \/ PlaceUpdate
  \/ PlaceInsert
  \/ PlaceFails

Next ==
  \/ \E k \in Keys, v \in Values : BeginSet(k, v)
  \/ SetStep
  \/ \E k \in Keys : Remove(k)
  \/ Clear
  \/ Free

Spec == Init /\ [][Next]_vars
------------------------------------------------------------------------------
(***************************************************************************)
(* Properties.                                                             *)
(***************************************************************************)
Pairs(t) == {<<t[i].key, t[i].value>> : i \in Occupied(t)}

\* The pairs of the map, the ones on their way between two tables included.
Content == Pairs(slots) \cup Pairs(newSlots)

\* Every entry is reachable: no slot between its home and the entry is
\* empty, so that a probe for its key cannot stop short of it.
Reachable(t, cap) ==
  \A i \in Occupied(t) : \A j \in Indices(cap) :
    Before(Home(t[i].key, cap), j, i) => t[j].state # "empty"

\* No key has two entries in a table.
DistinctSlots(t) ==
  \A i, j \in Occupied(t) : t[i].key = t[j].key => i = j

\* A probe for a key finds its entry, and there is only one to find; the old
\* table of a rebuild is not probed.
ProbeSound ==
  /\ Reachable(slots, capacity) \/ pc = "rebuild"
  /\ Reachable(newSlots, newCapacity)
  /\ DistinctSlots(slots)
  /\ DistinctSlots(newSlots)

\* The counters are the numbers of slots they stand for; entries in transit
\* are counted once.
CountersExact ==
  /\ count = Cardinality(Occupied(slots)) + Cardinality(Occupied(newSlots))
  /\ pc # "rebuild" => tombstones = Cardinality(Tombs(slots))

\* The unbounded loop of the probe ends: a table that has been allocated
\* keeps an empty slot, entries and tombstones counted together.
EmptySlotRemains ==
  /\ capacity # 0 /\ pc # "rebuild"
       => \E i \in Indices(capacity) : slots[i].state = "empty"
  /\ pc = "rebuild" => \E i \in Indices(newCapacity) : newSlots[i].state = "empty"

\* A lookup between calls answers with the pair of the map for the key, and
\* with nothing for a key that has none.
LookupExact ==
  pc = "idle" =>
    \A k \in Keys :
      IF \E v \in Values : <<k, v>> \in Content
        THEN <<k, Lookup(k)>> \in Content
        ELSE Lookup(k) = NoValue

\* The implementation of the promise: rebuilding is invisible, a failed set
\* leaves the map as it was.
Promise == INSTANCE KeyedMap WITH content <- Content, pending <- call

ImplementsKeyedMap == Promise!Spec
==============================================================================
