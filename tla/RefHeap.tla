------------------------------ MODULE RefHeap ------------------------------
(***************************************************************************)
(* Reference counts (value.c) and the cycle collector (gc.c).              *)
(*                                                                         *)
(* An object is a container: an instance, an array, a closure with its     *)
(* captures or a map.  `slots' is what it holds, in order.  `roots' counts  *)
(* the references held outside the heap, by registers of a VM, by C code    *)
(* or by a thread; the count of an object is a plain integer in memory,     *)
(* and a thread changes it in two steps, a load and a store.  What one      *)
(* thread (`other') does is modelled in these two steps, while everything   *)
(* else may happen in between; two overlapping updates are always one       *)
(* inside the other's window.                                               *)
(*                                                                         *)
(* Objects are addresses: a freed one may be handed out again.  The         *)
(* collector keeps a node per tracked object, and a node does not keep its  *)
(* object alive.                                                            *)
(***************************************************************************)
EXTENDS Integers, Sequences, FiniteSets

CONSTANTS
  Objects,     \* addresses of container objects
  Nil,         \* the value of a slot that holds no container
  Width,       \* bound: the slots of each object
  MaxRoots     \* bound: the references from outside the heap

ASSUME RefHeapAssumption ==
  /\ IsFiniteSet(Objects)
  /\ Nil \notin Objects
  /\ Width \in [Objects -> Nat]
  /\ MaxRoots \in Nat \ {0}

VARIABLES
  alive,       \* objects that are allocated
  rc,          \* object->ref_count
  roots,       \* references from outside the heap
  slots,       \* fields, items or captures
  tracked,     \* addresses the collector has a node for
  other,       \* the half-done count update of another thread
  lost,        \* an update of a count has been overwritten
  crash        \* the collector has read a freed object

vars == <<alive, rc, roots, slots, tracked, other, lost, crash>>

NoUpdate == [op |-> "none", obj |-> Nil, read |-> 0]
Running == ~lost /\ ~crash

-----------------------------------------------------------------------------
(* References and reachability *)

\* the slots of the objects in `from' that hold o
Positions == UNION {1..Width[o] : o \in Objects}
Refs(s, from, o) ==
  {r \in from \X Positions : LET held == s[r[1]] IN  r[2] \in DOMAIN held /\ held[r[2]] = o}
RefCount(s, from, o) == Cardinality(Refs(s, from, o))

Children(s, p) == {s[p][i] : i \in DOMAIN s[p]} \ {Nil}

\* X holds what its objects refer to in `within'.
Closed(s, X, within) == \A p \in X : Children(s, p) \intersect within \subseteq X

\* what can be reached from the objects in `from' through objects of
\* `within': a set without it that holds `from' is not closed
Reach(s, from, within) ==
  {o \in Objects : \A X \in SUBSET (Objects \ {o}) :
                     from \subseteq X => ~Closed(s, X, within)}

Rooted == {o \in Objects : roots[o] > 0}
Reachable == Reach(slots, Rooted, Objects)

\* bound: the references held outside the heap
RootRefs == UNION {{o} \X (1..roots[o]) : o \in Objects}
RoomForRoot == Cardinality(RootRefs) < MaxRoots

\* An object the code at hand holds a reference of: not the one whose last
\* reference the other thread is about to use or drop.
Held(o) == o \in alive /\ roots[o] > (IF other.obj = o THEN 1 ELSE 0)

Values == {Nil} \union {o \in alive : roots[o] > 0}

-----------------------------------------------------------------------------
(* Retain and release *)

\* vigil_value_copy of the values in the sequence vs
Retained(c, vs) ==
  [o \in Objects |-> c[o] + Cardinality({i \in DOMAIN vs : vs[i] = o})]

Drop(vs) == [o \in Objects |-> IF o \in vs THEN 1 ELSE 0]

\* vigil_object_release with vigil_object_destroy: p loses its last reference
\* when `drops' references are given up and the slots of the objects in X
\* are released
Emptied(c, s, drops, X, p) ==
  LET d == drops[p] + RefCount(s, X, p)
  IN  d > 0 /\ c[p] <= d

\* What is destroyed in turn: a set without it still empties another object.
Destroyed(c, s, drops) ==
  {o \in alive : \A X \in SUBSET (alive \ {o}) :
                   \E p \in alive \ X : Emptied(c, s, drops, X, p)}

\* The heap after the release of `drops' from the counts c and slots s.
Release(c, s, drops) ==
  LET gone == Destroyed(c, s, drops)
  IN  /\ alive' = alive \ gone
      /\ rc' = [o \in Objects |-> IF o \in gone THEN 0
                                  ELSE c[o] - drops[o] - RefCount(s, gone, o)]
      /\ slots' = [o \in Objects |-> IF o \in gone THEN <<>> ELSE s[o]]

Stays == UNCHANGED <<tracked, other, lost, crash>>

-----------------------------------------------------------------------------
(* Objects and values *)

\* A new object takes copies of its initial values (instance_object_new,
\* array_object_new, closure_object_new) at any free address.
New(o, init) ==
  /\ Running /\ o \notin alive /\ RoomForRoot
  /\ alive' = alive \union {o}
  /\ rc' = [Retained(rc, init) EXCEPT ![o] = 1]
  /\ roots' = [roots EXCEPT ![o] = 1]
  /\ slots' = [slots EXCEPT ![o] = init]
  /\ Stays

\* vigil_value_copy of a value that is held
Copy(o) ==
  /\ Running /\ Held(o) /\ RoomForRoot
  /\ rc' = [rc EXCEPT ![o] = @ + 1]
  /\ roots' = [roots EXCEPT ![o] = @ + 1]
  /\ Stays /\ UNCHANGED <<alive, slots>>

\* vigil_value_release of a value that is held
Let(o) ==
  /\ Running /\ Held(o)
  /\ roots' = [roots EXCEPT ![o] = @ - 1]
  /\ Release(rc, slots, Drop({o}))
  /\ Stays

\* get_field, array get, get_capture: the caller owns a copy
Get(o, i) ==
  /\ Running /\ Held(o) /\ i \in DOMAIN slots[o]
  /\ LET v == slots[o][i]
     IN  /\ v # Nil /\ RoomForRoot
         /\ rc' = [rc EXCEPT ![v] = @ + 1]
         /\ roots' = [roots EXCEPT ![v] = @ + 1]
  /\ Stays /\ UNCHANGED <<alive, slots>>

\* Faulty: the new value is stored without a reference of its own.
MutantSetSlot(o, i, v) ==
  /\ Running /\ Held(o) /\ i \in DOMAIN slots[o] /\ v \in Values
  /\ Release(rc, [slots EXCEPT ![o][i] = v], Drop({slots[o][i]}))
  /\ Stays /\ UNCHANGED roots

\* set_field, array set, set_capture: copy the new value, release the old
\* one, store.
SetSlot(o, i, v) ==
  /\ Running /\ Held(o) /\ i \in DOMAIN slots[o] /\ v \in Values
  /\ Release(Retained(rc, <<v>>), [slots EXCEPT ![o][i] = v],
             Drop({slots[o][i]}))
  /\ Stays /\ UNCHANGED roots

-----------------------------------------------------------------------------
(* Arrays *)

\* insert_at; append is an insertion at the end.
InsertAt(o, i, v) ==
  /\ Running /\ Held(o) /\ v \in Values
  /\ i \in 1..(Len(slots[o]) + 1) /\ Len(slots[o]) < Width[o]
  /\ slots' = [slots EXCEPT ![o] =
                 SubSeq(@, 1, i - 1) \o <<v>> \o SubSeq(@, i, Len(@))]
  /\ rc' = Retained(rc, <<v>>)
  /\ Stays /\ UNCHANGED <<alive, roots>>

\* remove_at with an out_value, and pop for the last item: the reference
\* moves from the slot to the caller and no count changes.
TakeOut(o, i) ==
  /\ Running /\ Held(o) /\ i \in DOMAIN slots[o]
  /\ LET v == slots[o][i]
     IN  /\ v # Nil => RoomForRoot
         /\ roots' = [r \in Objects |-> roots[r] + Drop({v})[r]]
  /\ slots' = [slots EXCEPT ![o] = SubSeq(@, 1, i - 1) \o SubSeq(@, i + 1, Len(@))]
  /\ Stays /\ UNCHANGED <<alive, rc>>

\* remove_at without an out_value
RemoveAt(o, i) ==
  /\ Running /\ Held(o) /\ i \in DOMAIN slots[o]
  /\ Release(rc, [slots EXCEPT ![o] = SubSeq(@, 1, i - 1) \o SubSeq(@, i + 1, Len(@))],
             Drop({slots[o][i]}))
  /\ Stays /\ UNCHANGED roots

Clear(o) ==
  /\ Running /\ Held(o) /\ slots[o] # <<>>
  /\ Release(rc, [slots EXCEPT ![o] = <<>>],
             [p \in Objects |-> RefCount(slots, {o}, p)])
  /\ Stays /\ UNCHANGED roots

\* array_object_slice: a new array with copies of a part of the items
Slice(o, i, j, new) ==
  /\ Held(o) /\ i \in DOMAIN slots[o] /\ j \in i..Len(slots[o])
  /\ j - i + 1 <= Width[new]
  /\ New(new, SubSeq(slots[o], i, j))

-----------------------------------------------------------------------------
(* A count update of another thread.  The thread holds a reference of the  *)
(* object; a decrement gives it up.                                        *)

OtherLoad(o, op) ==
  /\ Running /\ Held(o) /\ other = NoUpdate
  /\ other' = [op |-> op, obj |-> o, read |-> rc[o]]
  /\ UNCHANGED <<alive, rc, roots, slots, tracked, lost, crash>>

OtherStore ==
  /\ Running /\ other # NoUpdate
  /\ LET o == other.obj
         rcRead == [rc EXCEPT ![o] = other.read]
     IN  /\ lost' = (rc[o] # other.read)
         /\ \/ /\ other.op = "inc" /\ RoomForRoot
               /\ roots' = [roots EXCEPT ![o] = @ + 1]
               /\ rc' = [rcRead EXCEPT ![o] = @ + 1]
               /\ UNCHANGED <<alive, slots>>
            \/ /\ other.op = "dec"
               /\ roots' = [roots EXCEPT ![o] = @ - 1]
               /\ Release(rcRead, slots, Drop({o}))
  /\ other' = NoUpdate
  /\ UNCHANGED <<tracked, crash>>

-----------------------------------------------------------------------------
(* The collector *)

\* vigil_gc_track: nothing happens if there is a node for this address.
Track(o) ==
  /\ Running /\ Held(o) /\ o \notin tracked
  /\ tracked' = tracked \union {o}
  /\ UNCHANGED <<alive, rc, roots, slots, other, lost, crash>>

Untrack(o) ==
  /\ Running /\ Held(o) /\ o \in tracked
  /\ tracked' = tracked \ {o}
  /\ UNCHANGED <<alive, rc, roots, slots, other, lost, crash>>

\* Faulty: the references between tracked objects are not subtracted.
MutantGcRefs(o) == rc[o]

\* phases 1 and 2: the count without the references between tracked objects
GcRefs(o) == rc[o] - RefCount(slots, tracked, o)

\* phase 3: what a tracked object with references from outside reaches
\* through tracked objects stays.
Restored == Reach(slots, {o \in tracked : GcRefs(o) > 0},
                  {o \in tracked : GcRefs(o) = 0})
\* Faulty: what a referenced object reaches is not restored.
MutantGarbage == {o \in tracked : GcRefs(o) = 0}

Garbage == {o \in tracked : GcRefs(o) = 0} \ Restored

\* phase 4a: the references between objects of g are replaced by nil
Cut(g) ==
  [o \in Objects |-> IF o \in g THEN [i \in DOMAIN slots[o] |->
                                        IF slots[o][i] \in g THEN Nil ELSE slots[o][i]]
                     ELSE slots[o]]

\* Faulty: the nodes of the destroyed objects stay in the list.
MutantCollect ==
  /\ Running /\ tracked # {}
  /\ IF tracked \subseteq alive
     THEN \E g \in {Garbage} : \E s \in {Cut(g)} :
            /\ Release([o \in Objects |-> IF o \in g THEN rc[o] - RefCount(slots, g, o)
                                          ELSE rc[o]],
                       s, Drop(g))
            /\ UNCHANGED tracked
            /\ UNCHANGED crash
     ELSE /\ crash' = TRUE
          /\ UNCHANGED <<alive, rc, slots, tracked>>
  /\ UNCHANGED <<roots, other, lost>>

\* phase 4: references between garbage objects are cut without a release
\* (4a), then each garbage object is destroyed, which releases what else it
\* holds (4b).
Collect ==
  /\ Running /\ tracked # {}
  /\ IF tracked \subseteq alive
     THEN \E g \in {Garbage} : \E s \in {Cut(g)} :
            /\ Release([o \in Objects |-> IF o \in g THEN rc[o] - RefCount(slots, g, o)
                                          ELSE rc[o]],
                       s, Drop(g))
            /\ tracked' = tracked \ g
            /\ UNCHANGED crash
     ELSE /\ crash' = TRUE
          /\ UNCHANGED <<alive, rc, slots, tracked>>
  /\ UNCHANGED <<roots, other, lost>>

-----------------------------------------------------------------------------
Init ==
  /\ alive = {} /\ tracked = {}
  /\ rc = [o \in Objects |-> 0]
  /\ roots = [o \in Objects |-> 0]
  /\ slots = [o \in Objects |-> <<>>]
  /\ other = NoUpdate /\ lost = FALSE /\ crash = FALSE

Next ==
  \/ \E o \in Objects :
       \/ \E n \in 0..Width[o] : \E init \in [1..n -> Values] : New(o, init)
       \/ Copy(o) \/ Let(o)
       \/ \E i \in 1..Width[o] :
            \/ Get(o, i) \/ TakeOut(o, i) \/ RemoveAt(o, i)
            \/ \E v \in Values : SetSlot(o, i, v) \/ InsertAt(o, i, v)
            \/ \E j \in 1..Width[o], new \in Objects : Slice(o, i, j, new)
       \/ Clear(o)
       \/ \E op \in {"inc", "dec"} : OtherLoad(o, op)
       \/ Track(o) \/ Untrack(o)
  \/ OtherStore
  \/ Collect

Spec == Init /\ [][Next]_vars

-----------------------------------------------------------------------------
(* Properties *)

TypeOK ==
  /\ alive \subseteq Objects /\ tracked \subseteq Objects
  /\ rc \in [Objects -> Int]
  /\ roots \in [Objects -> 0..MaxRoots]
  /\ DOMAIN slots = Objects
  /\ \A o \in Objects : slots[o] \in Seq(Objects \union {Nil}) /\ Len(slots[o]) <= Width[o]
  /\ other \in {NoUpdate} \union [op : {"inc", "dec"}, obj : Objects, read : Int]
  /\ lost \in BOOLEAN /\ crash \in BOOLEAN

\* Until an update is lost, the count of an object is the number of
\* references to it, from outside and from live objects, and an object lives
\* exactly as long as there is one: releases, moves, the cutting of cycles
\* by the collector all balance (value.c:773, gc.c:211).
CountsExact ==
  \/ lost
  \/ /\ \A o \in alive : rc[o] = roots[o] + RefCount(slots, alive, o) /\ rc[o] > 0
     /\ \A o \in Objects \ alive : roots[o] = 0

\* Until an update is lost, whatever the program can reach is allocated:
\* neither a release nor the collector frees it (value.c:390, gc.c:390).
NothingReachableFreed == lost \/ Reachable \subseteq alive

\* Trial deletion finds exactly the tracked objects that can be reached
\* neither from a reference outside the heap nor from an object that is not
\* tracked, whatever cycles, shared children and repeated references there
\* are (header of gc.c, lines 7 to 15; gc.h: garbage is reachable only from
\* the tracked set).
GarbageExact ==
  \/ lost \/ ~(tracked \subseteq alive)
  \/ Garbage = tracked \ Reach(slots, Rooted \union (alive \ tracked), Objects)

\* Only if a garbage object holds a tracked object through one that is not
\* tracked may a collection leave a node for a freed object, which the next
\* collection reads (gc.c:390, gc.c:441).
CollectLeavesNodesLive ==
  [][UNCHANGED roots /\ tracked \subseteq alive /\ Collect =>
       \/ tracked' \subseteq alive'
       \/ \E g \in tracked \ Reach(slots, Rooted, Objects), u \in alive \ tracked :
            /\ u \in Reach(slots, {g}, Objects)
            /\ Reach(slots, {u}, Objects) \intersect tracked # {}]_vars
=============================================================================
