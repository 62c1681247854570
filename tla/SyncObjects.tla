----------------------------- MODULE SyncObjects -----------------------------
(***************************************************************************)
(* The mutexes, condition variables and read-write locks of the "thread"   *)
(* standard library module (src/stdlib/thread.c) over the POSIX wrappers   *)
(* (platform/platform_posix.c).                                            *)
(*                                                                         *)
(* A script holds handles.  A handle is an index into the registry of its  *)
(* kind; the entry points to a heap object that wraps the pthread object.  *)
(* Every call looks its handles up under the registry's lock and works on  *)
(* the object after that lock is released, so that what a call holds is a  *)
(* pointer that another call may free.                                     *)
(*                                                                         *)
(* A slot is a pair of a kind and a handle.  What pthread does inside lock,*)
(* wait, signal and so on is left open: a call that entered it may return, *)
(* or never return; the module is about the objects calls reach.           *)
(***************************************************************************)
EXTENDS Integers

CONSTANTS
  Actors,           \* the threads that run VIGIL code
  MaxHandles,       \* bound: handles a registry gives out in the model
  MaxInitFailures,  \* bound: failed attempts to set the registries up
  None              \* NULL

ASSUME SyncAssumption ==
  /\ MaxHandles \in Nat \ {0}
  /\ MaxInitFailures \in Nat
  /\ None \notin Nat

VARIABLES
  registriesState,  \* g_registries_state: 0 untouched, 1 being set up, 2 ready
  initAt,           \* the registry the set-up is at, or "done"
  initFailures,     \* how often the set-up failed so far (for the bound)
  ready,            \* the kinds whose registry has a lock
  count,            \* r->count
  item,             \* r->items[handle], by slot
  live,             \* the objects that are allocated
  created,          \* how many objects were ever created: the next is new
  pc, op,           \* where each actor is in which call
  about,            \* the slots the call is about
  pending,          \* those of them it has still to look up
  got,              \* the pointers it holds
  published,        \* slots whose handle a create has returned
  retired,          \* slots whose destroy has returned true
  disturbed,        \* a destroy has overlapped with another call on its handle
  fault             \* why the process died

vars == <<registriesState, initAt, initFailures, ready, count, item, live,
          created, pc, op, about, pending, got, published, retired, disturbed,
          fault>>

setup   == <<registriesState, initAt, initFailures, ready>>
entries == <<count, item>>
objects == <<live, created>>
history == <<published, retired, disturbed>>

Kinds   == {"mutex", "cond", "rwlock"}
Handles == 0 .. MaxHandles - 1
Slots   == Kinds \X Handles

\* ensure_registries sets the registries up in this order.
Following == [mutex |-> "cond", cond |-> "rwlock", rwlock |-> "done"]

Running      == fault = "none"
At(a, label) == Running /\ pc[a] = label
Go(a, label) == pc' = [pc EXCEPT ![a] = label]

Goes(a, label, o, slots) ==
  /\ Go(a, label)
  /\ op' = [op EXCEPT ![a] = o]
  /\ about' = [about EXCEPT ![a] = slots]
  /\ pending' = [pending EXCEPT ![a] = slots]
  /\ got' = [got EXCEPT ![a] = {}]

Begin(a, label, o, slots) ==
  /\ At(a, "idle")
  /\ Goes(a, label, o, slots)
  /\ UNCHANGED <<setup, entries, objects, published, retired, fault>>

Finish(a) == Goes(a, "idle", "none", {})

TypeOK ==
  /\ registriesState \in 0 .. 2
  /\ initAt \in Kinds \cup {"done"}
  /\ initFailures \in 0 .. MaxInitFailures
  /\ ready \subseteq Kinds
  /\ count \in [Kinds -> 0 .. MaxHandles]
  /\ item \in [Slots -> Nat \cup {None}]
  /\ live \subseteq Nat
  /\ created \in Nat
  /\ pc \in [Actors -> {"idle", "ensure", "init", "alloc", "create", "store",
                        "lookup", "inside", "clear", "dead"}]
  /\ op \in [Actors -> Kinds \cup {"none", "use", "wait", "destroy"}]
  /\ about \in [Actors -> SUBSET Slots]
  /\ pending \in [Actors -> SUBSET Slots]
  /\ got \in [Actors -> SUBSET (Nat \cup {None})]
  /\ published \subseteq Slots
  /\ retired \subseteq Slots
  /\ disturbed \in BOOLEAN
  /\ fault \in {"none", "null lock", "freed object"}

Init ==
  /\ registriesState = 0
  /\ initAt = "mutex"
  /\ initFailures = 0
  /\ ready = {}
  /\ count = [k \in Kinds |-> 0]
  /\ item = [s \in Slots |-> None]
  /\ live = {}
  /\ created = 0
  /\ pc = [a \in Actors |-> "idle"]
  /\ op = [a \in Actors |-> "none"]
  /\ about = [a \in Actors |-> {}]
  /\ pending = [a \in Actors |-> {}]
  /\ got = [a \in Actors |-> {}]
  /\ published = {}
  /\ retired = {}
  /\ disturbed = FALSE
  /\ fault = "none"
------------------------------------------------------------------------------
(***************************************************************************)
(* Faulty variants of definitions below, one for each property.            *)
(***************************************************************************)
MutantEnsureReady(a) ==  \* does not wait for the set-up to end
  /\ At(a, "ensure") /\ registriesState # 0
  /\ Go(a, "alloc")
  /\ UNCHANGED <<setup, entries, objects, op, about, pending, got, history, fault>>

MutantInitRegistry(a) ==  \* leaves the read-write locks out
  /\ At(a, "init") /\ initAt \in Kinds
  /\ count' = [count EXCEPT ![initAt] = 0]
  /\ item' = [s \in Slots |-> IF s[1] = initAt THEN None ELSE item[s]]
  /\ ready' = ready \cup {initAt}
  /\ initAt' = IF initAt = "mutex" THEN "cond" ELSE "done"
  /\ UNCHANGED <<registriesState, initFailures, objects, pc, op, about, pending,
                 got, history, fault>>

\* registry_alloc with another choice of the handle.
AllocAs(a, h, counted) ==
  /\ At(a, "alloc") /\ h \in Handles
  /\ about' = [about EXCEPT ![a] = {<<op[a], h>>}]
  /\ count' = [count EXCEPT ![op[a]] = counted]
  /\ Go(a, "create")
  /\ UNCHANGED <<setup, item, objects, op, pending, got, history, fault>>

MutantAllocUnlocked(a) ==  \* may read the count before another raised it
  \E stale \in {0, 1} : AllocAs(a, count[op[a]] - stale, count[op[a]] + 1 - stale)

MutantAllocReuses(a) ==  \* takes the place of a destroyed object
  \E h \in Handles :
    /\ At(a, "alloc")
    /\ \/ <<op[a], h>> \in retired /\ AllocAs(a, h, count[op[a]])
       \/ h = count[op[a]] /\ AllocAs(a, h, h + 1)

MutantFreeObject(a) ==  \* does not free it
  /\ At(a, "lookup") /\ pending[a] = {}
  /\ op[a] = "destroy" /\ got[a] \subseteq live
  /\ Go(a, "clear")
  /\ UNCHANGED <<setup, entries, objects, op, about, pending, got, history, fault>>

MutantClear(a) ==  \* leaves the pointer in the registry
  /\ At(a, "clear")
  /\ retired' = retired \cup about[a]
  /\ Finish(a)
  /\ UNCHANGED <<setup, entries, objects, published, disturbed, fault>>
------------------------------------------------------------------------------
(***************************************************************************)
(* thread.mutex, thread.cond and thread.rwlock; op names the kind.  They   *)
(* start with ensure_registries: an actor that finds state 1 spins (it     *)
(* takes no step until the state changes).                                 *)
(***************************************************************************)
CallCreate(a, k) == Begin(a, "ensure", k, {}) /\ UNCHANGED disturbed

EnsureReady(a) ==
  /\ At(a, "ensure") /\ registriesState = 2
  /\ Go(a, "alloc")
  /\ UNCHANGED <<setup, entries, objects, op, about, pending, got, history, fault>>

EnsureClaim(a) ==
  /\ At(a, "ensure") /\ registriesState = 0
  /\ registriesState' = 1
  /\ initAt' = "mutex"
  /\ Go(a, "init")
  /\ UNCHANGED <<initFailures, ready, entries, objects, op, about, pending, got,
                 history, fault>>

\* registry_init stores a new table, a count of 0 and a new lock, whether or
\* not an earlier attempt has set this registry up.  The four stores are one
\* step here, although no lock protects them: what a lookup with a guessed
\* handle does that reads between them, at worst locking the old lock and
\* unlocking the new one, is left out.  Before an attempt has succeeded no
\* handle has been given out.
Emptied(k) ==
  /\ count' = [count EXCEPT ![k] = 0]
  /\ item' = [s \in Slots |-> IF s[1] = k THEN None ELSE item[s]]

InitRegistry(a) ==
  /\ At(a, "init") /\ initAt \in Kinds
  /\ Emptied(initAt)
  /\ ready' = ready \cup {initAt}
  /\ initAt' = Following[initAt]
  /\ UNCHANGED <<registriesState, initFailures, objects, pc, op, about, pending,
                 got, history, fault>>

\* No memory for the table or its lock: the state returns to 0, this call
\* answers -1, and the registries before it stay as they are.
InitFails(a) ==
  /\ At(a, "init") /\ initAt \in Kinds /\ initFailures < MaxInitFailures
  /\ Emptied(initAt)
  /\ registriesState' = 0
  /\ initFailures' = initFailures + 1
  /\ Finish(a)
  /\ UNCHANGED <<initAt, ready, objects, history, fault>>

InitDone(a) ==
  /\ At(a, "init") /\ initAt = "done"
  /\ registriesState' = 2
  /\ initFailures' = 0
  /\ Go(a, "alloc")
  /\ UNCHANGED <<initAt, ready, entries, objects, op, about,
                 pending, got, history, fault>>

\* registry_alloc, under the registry's lock: the handle is reserved before
\* there is an object.
Alloc(a) ==
  /\ At(a, "alloc") /\ count[op[a]] < MaxHandles
  /\ about' = [about EXCEPT ![a] = {<<op[a], count[op[a]]>>}]
  /\ count' = [count EXCEPT ![op[a]] = @ + 1]
  /\ Go(a, "create")
  /\ UNCHANGED <<setup, item, objects, op, pending, got, history, fault>>

\* The table could not grow, or the object could not be created: -1.  The
\* handle of the second stays reserved for nothing.
CreateFails(a) ==
  /\ At(a, "alloc") \/ At(a, "create")
  /\ Finish(a)
  /\ UNCHANGED <<setup, entries, objects, history, fault>>

CreateObject(a) ==
  /\ At(a, "create")
  /\ got' = [got EXCEPT ![a] = {created}]
  /\ live' = live \cup {created}
  /\ created' = created + 1
  /\ Go(a, "store")
  /\ UNCHANGED <<setup, entries, op, about, pending, history, fault>>

\* registry_set, and the handle is returned.
Store(a) ==
  /\ At(a, "store")
  /\ \E s \in about[a], o \in got[a] : item' = [item EXCEPT ![s] = o]
  /\ published' = published \cup about[a]
  /\ Finish(a)
  /\ UNCHANGED <<setup, count, objects, retired, disturbed, fault>>
------------------------------------------------------------------------------
(***************************************************************************)
(* The calls that take handles.  Any thread may pass any integer.  "use"   *)
(* stands for lock, unlock, try_lock, signal, broadcast, read_lock,        *)
(* write_lock and rw_unlock; "wait" for wait and wait_timeout, which look  *)
(* up two handles, each under the lock of its own registry.  None of them  *)
(* calls ensure_registries.                                                *)
(***************************************************************************)
BeingDestroyed(s) == \E b \in Actors : s \in about[b] /\ op[b] = "destroy"
InCall(s) ==
  \E b \in Actors : s \in about[b] /\ op[b] \in {"use", "wait", "destroy"}

CallUse(a, s) ==
  /\ Begin(a, "lookup", "use", {s})
  /\ disturbed' = (disturbed \/ BeingDestroyed(s))

CallWait(a, c, m) ==
  /\ Begin(a, "lookup", "wait", {c, m})
  /\ disturbed' = (disturbed \/ BeingDestroyed(c) \/ BeingDestroyed(m))

CallDestroy(a, s) ==
  /\ Begin(a, "lookup", "destroy", {s})
  /\ disturbed' = (disturbed \/ InCall(s))

\* The condition variable before its mutex.
NextLookup(a, s) ==
  /\ At(a, "lookup") /\ s \in pending[a]
  /\ s[1] = "mutex" => \A t \in pending[a] : t[1] = "mutex"

Named(s) == IF s[2] < count[s[1]] THEN item[s] ELSE None

Lookup(a, s) ==
  /\ NextLookup(a, s) /\ s[1] \in ready
  /\ got' = [got EXCEPT ![a] = @ \cup {Named(s)}]
  /\ pending' = [pending EXCEPT ![a] = @ \ {s}]
  /\ UNCHANGED <<setup, entries, objects, pc, op, about, history, fault>>

\* registry_get locks r->lock without testing it.
LookupFaults(a, s) ==
  /\ NextLookup(a, s) /\ s[1] \notin ready
  /\ fault' = "null lock"
  /\ Go(a, "dead")
  /\ UNCHANGED <<setup, entries, objects, op, about, pending, got, history>>

LookedUp(a) == At(a, "lookup") /\ pending[a] = {}

\* The handle names nothing: false.
Reject(a) ==
  /\ LookedUp(a) /\ None \in got[a]
  /\ Finish(a)
  /\ UNCHANGED <<setup, entries, objects, history, fault>>

Enter(a) ==
  /\ LookedUp(a) /\ op[a] # "destroy" /\ got[a] \subseteq live
  /\ Go(a, "inside")
  /\ UNCHANGED <<setup, entries, objects, op, about, pending, got, history, fault>>

\* The platform's call ends, and the script has its answer.
Return(a) ==
  /\ At(a, "inside") /\ got[a] \subseteq live
  /\ Finish(a)
  /\ UNCHANGED <<setup, entries, objects, history, fault>>

\* vigil_platform_..._destroy: the pthread object and its memory.
FreeObject(a) ==
  /\ LookedUp(a) /\ op[a] = "destroy" /\ got[a] \subseteq live
  /\ live' = live \ got[a]
  /\ Go(a, "clear")
  /\ UNCHANGED <<setup, entries, created, op, about, pending, got, history, fault>>

\* registry_set(handle, NULL), and destroy returns true.
Clear(a) ==
  /\ At(a, "clear")
  /\ item' = [s \in Slots |-> IF s \in about[a] THEN None ELSE item[s]]
  /\ retired' = retired \cup about[a]
  /\ Finish(a)
  /\ UNCHANGED <<setup, count, objects, published, disturbed, fault>>

\* The actor is about to work, or works, on the objects it got.
Works(a) ==
  /\ pc[a] = "inside" \/ (pc[a] = "lookup" /\ pending[a] = {})
  /\ None \notin got[a]

\* Work on memory that a destroy has freed, a second free among it: what
\* follows is undefined, and the model ends.
TouchFreed(a) ==
  /\ Running /\ Works(a) /\ ~ got[a] \subseteq live
  /\ fault' = "freed object"
  /\ Go(a, "dead")
  /\ UNCHANGED <<setup, entries, objects, op, about, pending, got, history>>
------------------------------------------------------------------------------
\* The steps inside a call.
Step(a) ==
  \/ EnsureReady(a)
  \/ EnsureClaim(a)
  \/ InitRegistry(a)
  \/ InitFails(a)
  \/ InitDone(a)
  \/ Alloc(a)
  \/ CreateFails(a)
  \/ CreateObject(a)
  \/ Store(a)
  \/ \E s \in Slots : Lookup(a, s) \/ LookupFaults(a, s)
  \/ Reject(a)
  \/ Enter(a)
  \/ FreeObject(a)
  \/ Clear(a)
  \/ TouchFreed(a)

OfKind(k) == {s \in Slots : s[1] = k}

\* Any script.
Next ==
  \E a \in Actors :
    \/ Step(a) \/ Return(a)
    \/ \E k \in Kinds : CallCreate(a, k)
    \/ \E s \in Slots : CallUse(a, s) \/ CallDestroy(a, s)
    \/ \E c \in OfKind("cond"), m \in OfKind("mutex") : CallWait(a, c, m)

Spec == Init /\ [][Next]_vars
------------------------------------------------------------------------------
(***************************************************************************)
(* Properties.                                                             *)
(***************************************************************************)
Creating(a) == pc[a] \in {"create", "store"}

\* A handle is given out once: while a create fills its slot, the slot is
\* empty, no other create works on it, and no script has been told of it.
\* The window is between registry_alloc and registry_set, which take the
\* registry's lock twice.
HandleGivenOnce ==
  \A a \in Actors, s \in Slots :
    Creating(a) /\ s \in about[a] =>
      /\ item[s] = None /\ s \notin published
      /\ \A b \in Actors : Creating(b) /\ s \in about[b] => a = b

\* A handle works from the return of its create until a destroy of it frees
\* the object, whatever other threads create, destroy or set up meanwhile.
HandleKeepsObject ==
  \A s \in published \ retired :
    \/ Named(s) \in live
    \/ \E a \in Actors : s \in about[a] /\ op[a] = "destroy" /\ pc[a] = "clear"

\* Nothing leaks: an object that is allocated is in its slot, or its create
\* is about to put it there.
NoLostObject ==
  \A o \in live :
    \/ \E s \in Slots : Named(s) = o
    \/ \E a \in Actors : pc[a] = "store" /\ o \in got[a]

\* Once a destroy has returned true, the handle names nothing for ever: no
\* late store, no second destroy and no new object makes an old handle, which
\* scripts may still hold, name another object.
RetiredStaysEmpty == \A s \in retired : item[s] = None

\* Only before any handle was given out can a call reach a registry without
\* a lock, also when an attempt to set the registries up failed half way.
NullLockOnlyBeforeReady == fault = "null lock" => published = {}

\* Unless a script destroys a handle while another call is about it: no call
\* works on an object that was freed, none is freed twice, and none is freed
\* under a call that works on it, although calls hold their pointers without a
\* lock.  The script may well use a handle that was destroyed before, destroy
\* it again, or pass a handle that does not exist.
NoUseAfterFree ==
  \/ disturbed
  \/ /\ fault # "freed object"
     /\ \A a \in Actors : Works(a) => got[a] \subseteq live
==============================================================================
