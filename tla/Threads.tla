------------------------------- MODULE Threads -------------------------------
(***************************************************************************)
(* The thread table of the "thread" standard library module:               *)
(* thread.spawn, thread.join and thread.detach (src/stdlib/thread.c) over  *)
(* the POSIX thread wrapper (platform/platform_posix.c).                   *)
(*                                                                         *)
(* A handle is the index of a slot in g_threads.  Slots are allocated and  *)
(* never reused, so a handle stays a valid index for ever; what a slot     *)
(* lets a caller do is decided by its in_use word, which join and detach   *)
(* take with a compare-and-swap before they touch slot->thread.            *)
(*                                                                         *)
(* An actor is an OS thread running VIGIL code: the main thread, or the    *)
(* thread of a slot between its creation and the return of its function.   *)
(* Any actor may pass any integer as a handle.  Each step below is one     *)
(* atomic access to the shared table, or a run of accesses no other actor  *)
(* can observe in part.                                                    *)
(***************************************************************************)
EXTENDS Integers

CONSTANTS
  MaxThreads,       \* bound: g_thread_count never exceeds it in the model
  MaxInitFailures,  \* bound: failed attempts to set the table up
  Inline,           \* integers a NaN-boxed value holds in its payload
  Boxed,            \* integers it holds behind a pointer to a heap object
  Zero,             \* the 0 that thread_spawn stores in slot->result
  Address,          \* the payload of a boxed integer, read as if inline
  NonInteger,       \* a function that returned no integer, or failed
  Main,             \* the actor that is not in any slot
  None

ASSUME ThreadsAssumption ==
  /\ MaxThreads \in Nat \ {0}
  /\ MaxInitFailures \in Nat
  /\ Zero \in Inline
  /\ Main \notin Nat
  /\ None \notin Nat
  /\ None \notin Inline \cup {Address, NonInteger} \cup Boxed
  /\ NonInteger \notin Inline \cup Boxed

VARIABLES
  threadsState,  \* g_threads_state: 0 untouched, 1 being set up, 2 ready
  initFailures,  \* how often the set-up failed (for the bound)
  threadCount,   \* g_thread_count
  inUse,         \* slot->in_use
  thread,        \* slot->thread is not NULL
  result,        \* slot->result
  function,      \* the slot holds its reference to the function object
  os,            \* the OS thread: "none", "running", "returned", "ended"
  desc,          \* its vigil_platform_thread_t: "none", "live", "freed"
  detached,      \* the detached field of that descriptor
  pc, arg,       \* where each actor is in a call, and the handle it is about
  published,     \* handles some thread.spawn has returned
  outcome,       \* what the function of each thread returned
  delivered,     \* what a successful thread.join returned
  consumed,      \* how many joins and detaches of the handle succeeded
  crash          \* the handle whose NULL descriptor an actor dereferenced

vars == <<threadsState, initFailures, threadCount, inUse, thread, result,
          function, os, desc, detached, pc, arg, published, outcome,
          delivered, consumed, crash>>

table   == <<threadsState, initFailures, threadCount>>
history == <<outcome, delivered, consumed>>

Handles == 0 .. MaxThreads - 1
Actors  == {Main} \cup Handles
Results == Inline \cup {Address}

\* An actor executes VIGIL code: the main thread always does, the thread of
\* a slot from its creation to the return of its function.
Alive(a) == crash = None /\ (a \in Handles => os[a] = "running")

At(a, label)       == Alive(a) /\ pc[a] = label
Go(a, label)       == pc' = [pc EXCEPT ![a] = label]
GoWith(a, label, h) == Go(a, label) /\ arg' = [arg EXCEPT ![a] = h]
Finish(a)          == GoWith(a, "idle", None)

\* vigil_nanbox_is_int admits both representations of an integer, and
\* vigil_nanbox_decode_int reads the payload of either.
Decode(v) == IF v \in Inline THEN v ELSE Address

\* pthread_join reports EDEADLK to a thread that joins itself, and may report
\* it to one of two threads that join each other.
JoinEachOther(a, h) ==
  h # a /\ os[h] = "running" /\ pc[h] = "joining" /\ arg[h] = a
JoinsInCircle(a, h) == h = a \/ JoinEachOther(a, h)

TypeOK ==
  /\ threadsState \in 0 .. 2
  /\ initFailures \in 0 .. MaxInitFailures
  /\ threadCount \in 0 .. MaxThreads
  /\ inUse \in [Handles -> {0, 1}]
  /\ thread \in [Handles -> BOOLEAN]
  /\ result \in [Handles -> Results]
  /\ function \in [Handles -> BOOLEAN]
  /\ os \in [Handles -> {"none", "running", "returned", "ended"}]
  /\ desc \in [Handles -> {"none", "live", "freed"}]
  /\ detached \in [Handles -> BOOLEAN]
  /\ pc \in [Actors -> {"idle", "ensure", "init", "alloc", "prepare", "create",
                        "publish", "joining", "detaching", "marking"}]
  /\ arg \in [Actors -> Handles \cup {None}]
  /\ published \in SUBSET Handles
  /\ outcome \in [Handles -> Inline \cup Boxed \cup {NonInteger, None}]
  /\ delivered \in [Handles -> Results \cup {None}]
  /\ consumed \in [Handles -> Nat]
  /\ crash \in Handles \cup {None}

Init ==
  /\ threadsState = 0
  /\ initFailures = 0
  /\ threadCount = 0
  /\ inUse = [h \in Handles |-> 0]
  /\ thread = [h \in Handles |-> FALSE]
  /\ result = [h \in Handles |-> Zero]
  /\ function = [h \in Handles |-> FALSE]
  /\ os = [h \in Handles |-> "none"]
  /\ desc = [h \in Handles |-> "none"]
  /\ detached = [h \in Handles |-> FALSE]
  /\ pc = [a \in Actors |-> "idle"]
  /\ arg = [a \in Actors |-> None]
  /\ published = {}
  /\ outcome = [h \in Handles |-> None]
  /\ delivered = [h \in Handles |-> None]
  /\ consumed = [h \in Handles |-> 0]
  /\ crash = None
------------------------------------------------------------------------------
(***************************************************************************)
(* Faulty variants of definitions below, one for each property.            *)
(***************************************************************************)
MutantInitFails(a) ==  \* the state stays at 1
  /\ At(a, "init") /\ initFailures < MaxInitFailures
  /\ initFailures' = initFailures + 1
  /\ Finish(a)
  /\ UNCHANGED <<threadsState, threadCount, inUse, thread, result, function,
                 os, desc, detached, published, history, crash>>

MutantWrapperExits(h) ==  \* does not look at detached
  /\ crash = None /\ os[h] = "returned"
  /\ os' = [os EXCEPT ![h] = "ended"]
  /\ desc' = [desc EXCEPT ![h] = "freed"]
  /\ UNCHANGED <<table, inUse, thread, result, function, detached, pc, arg,
                 published, history, crash>>

MutantClaimable(h) == h < threadCount  \* a load in place of the swap

MutantOsCallFails(a) ==  \* in_use is not restored
  /\ Alive(a) /\ pc[a] \in {"joining", "detaching"}
  /\ thread[arg[a]]
  /\ pc[a] = "joining" => JoinsInCircle(a, arg[a])
  /\ Finish(a)
  /\ UNCHANGED <<table, inUse, thread, result, function, os, desc, detached,
                 published, history, crash>>

\* A join under another condition, that leaves in_use as given.
JoinWhen(a, condition, inUseAfter) ==
  /\ At(a, "joining") /\ thread[arg[a]]
  /\ condition
  /\ desc' = [desc EXCEPT ![arg[a]] = "freed"]
  /\ thread' = [thread EXCEPT ![arg[a]] = FALSE]
  /\ delivered' = [delivered EXCEPT ![arg[a]] = result[arg[a]]]
  /\ consumed' = [consumed EXCEPT ![arg[a]] = @ + 1]
  /\ inUse' = [inUse EXCEPT ![arg[a]] = inUseAfter]
  /\ Finish(a)
  /\ UNCHANGED <<table, result, function, os, detached, published, outcome,
                 crash>>

MutantOsJoinEarly(a)    == JoinWhen(a, TRUE, 0)  \* does not wait
MutantOsJoinGivesBack(a) == JoinWhen(a, os[arg[a]] = "ended", 1)

\* A join that fails is tried again.
MutantOsCallRetries(a) ==
  /\ Alive(a) /\ pc[a] = "detaching"
  /\ thread[arg[a]]
  /\ inUse' = [inUse EXCEPT ![arg[a]] = 1]
  /\ Finish(a)
  /\ UNCHANGED <<table, thread, result, function, os, desc, detached,
                 published, history, crash>>
------------------------------------------------------------------------------
(***************************************************************************)
(* thread.spawn.  ensure_threads sets the table up once; an actor that     *)
(* finds state 1 spins (it takes no step until the state changes).         *)
(***************************************************************************)
CallSpawn(a) ==
  /\ At(a, "idle")
  /\ Go(a, "ensure")
  /\ UNCHANGED <<table, inUse, thread, result, function, os, desc, detached,
                 arg, published, history, crash>>

EnsureReady(a) ==
  /\ At(a, "ensure") /\ threadsState = 2
  /\ Go(a, "alloc")
  /\ UNCHANGED <<table, inUse, thread, result, function, os, desc, detached,
                 arg, published, history, crash>>

EnsureClaim(a) ==
  /\ At(a, "ensure") /\ threadsState = 0
  /\ threadsState' = 1
  /\ Go(a, "init")
  /\ UNCHANGED <<initFailures, threadCount, inUse, thread, result, function,
                 os, desc, detached, arg, published, history, crash>>

InitSucceeds(a) ==
  /\ At(a, "init")
  /\ threadsState' = 2
  /\ Go(a, "alloc")
  /\ UNCHANGED <<initFailures, threadCount, inUse, thread, result, function,
                 os, desc, detached, arg, published, history, crash>>

\* No memory for the table or its mutex: the state returns to 0 and this
\* spawn returns -1; a spinning actor may try again.
InitFails(a) ==
  /\ At(a, "init") /\ initFailures < MaxInitFailures
  /\ threadsState' = 0
  /\ initFailures' = initFailures + 1
  /\ Finish(a)
  /\ UNCHANGED <<threadCount, inUse, thread, result, function, os, desc,
                 detached, published, history, crash>>

\* The argument is not callable, or alloc_thread_slot found no memory.
SpawnRejected(a) ==
  /\ At(a, "alloc")
  /\ Finish(a)
  /\ UNCHANGED <<table, inUse, thread, result, function, os, desc, detached,
                 published, history, crash>>

\* alloc_thread_slot, under g_thread_lock: a zeroed slot joins the table.
AllocSlot(a) ==
  /\ At(a, "alloc") /\ threadCount < MaxThreads
  /\ GoWith(a, "prepare", threadCount)
  /\ threadCount' = threadCount + 1
  /\ UNCHANGED <<threadsState, initFailures, inUse, thread, result, function,
                 os, desc, detached, published, history, crash>>

\* The stores before the thread exists.  From here in_use = 1 is visible to
\* an actor that guesses the handle, while slot->thread is still NULL.
Prepare(a) ==
  /\ At(a, "prepare")
  /\ function' = [function EXCEPT ![arg[a]] = TRUE]
  /\ inUse' = [inUse EXCEPT ![arg[a]] = 1]
  /\ result' = [result EXCEPT ![arg[a]] = Zero]
  /\ Go(a, "create")
  /\ UNCHANGED <<table, thread, os, desc, detached, arg, published, history,
                 crash>>

\* vigil_platform_thread_create failed: the blind store of 0 to in_use.
CreateFails(a) ==
  /\ At(a, "create")
  /\ function' = [function EXCEPT ![arg[a]] = FALSE]
  /\ inUse' = [inUse EXCEPT ![arg[a]] = 0]
  /\ Finish(a)
  /\ UNCHANGED <<table, thread, result, os, desc, detached, published,
                 history, crash>>

\* pthread_create succeeded: the thread runs, *out_thread is not yet written.
Create(a) ==
  /\ At(a, "create")
  /\ os' = [os EXCEPT ![arg[a]] = "running"]
  /\ desc' = [desc EXCEPT ![arg[a]] = "live"]
  /\ Go(a, "publish")
  /\ UNCHANGED <<table, inUse, thread, result, function, detached, arg,
                 published, history, crash>>

\* *out_thread = t, and spawn returns the handle.
Publish(a) ==
  /\ At(a, "publish")
  /\ thread' = [thread EXCEPT ![arg[a]] = TRUE]
  /\ published' = published \cup {arg[a]}
  /\ Finish(a)
  /\ UNCHANGED <<table, inUse, result, function, os, desc, detached, history,
                 crash>>
------------------------------------------------------------------------------
(***************************************************************************)
(* The spawned thread: thread_spawn_entry (NonInteger covers a VM that did *)
(* not open, a function that failed, and a value that is no integer), then *)
(* thread_wrapper, which reads detached once the function has returned.    *)
(***************************************************************************)
EntryReturns(h, v) ==
  /\ h \in Handles
  /\ At(h, "idle")
  /\ outcome' = [outcome EXCEPT ![h] = v]
  /\ result' = [result EXCEPT ![h] = IF v = NonInteger THEN @ ELSE Decode(v)]
  /\ function' = [function EXCEPT ![h] = FALSE]
  /\ os' = [os EXCEPT ![h] = "returned"]
  /\ UNCHANGED <<table, inUse, thread, desc, detached, pc, arg, published,
                 delivered, consumed, crash>>

WrapperExits(h) ==
  /\ crash = None /\ os[h] = "returned"
  /\ os' = [os EXCEPT ![h] = "ended"]
  /\ desc' = IF detached[h] THEN [desc EXCEPT ![h] = "freed"] ELSE desc
  /\ UNCHANGED <<table, inUse, thread, result, function, detached, pc, arg,
                 published, history, crash>>
------------------------------------------------------------------------------
(***************************************************************************)
(* thread.join and thread.detach.  Both start with the lookup and the      *)
(* compare-and-swap of in_use; slots never leave the table, so the lookup  *)
(* and the swap take effect together, at the swap.                         *)
(***************************************************************************)
Claimable(h) == h < threadCount /\ inUse[h] = 1

Claim(a, h, label) ==
  /\ At(a, "idle") /\ Claimable(h)
  /\ inUse' = [inUse EXCEPT ![h] = 0]
  /\ GoWith(a, label, h)
  /\ UNCHANGED <<table, thread, result, function, os, desc, detached,
                 published, history, crash>>

CallJoin(a, h)   == Claim(a, h, "joining")
CallDetach(a, h) == Claim(a, h, "detaching")

\* No such slot, or the swap lost: INT64_MIN from join, false from detach.
CallRejected(a, h) ==
  /\ At(a, "idle") /\ ~ Claimable(h)
  /\ UNCHANGED vars

\* The wrapper dereferences slot->thread without testing it.
NullThread(a) ==
  /\ Alive(a) /\ pc[a] \in {"joining", "detaching"}
  /\ ~ thread[arg[a]]
  /\ crash' = arg[a]
  /\ UNCHANGED <<table, inUse, thread, result, function, os, desc, detached,
                 pc, arg, published, history>>

\* A failed join or detach gives the handle back.
OsCallFails(a) ==
  /\ Alive(a) /\ pc[a] \in {"joining", "detaching"}
  /\ thread[arg[a]]
  /\ pc[a] = "joining" => JoinsInCircle(a, arg[a])
  /\ inUse' = [inUse EXCEPT ![arg[a]] = 1]
  /\ Finish(a)
  /\ UNCHANGED <<table, thread, result, function, os, desc, detached,
                 published, history, crash>>

\* pthread_join returns once the thread has ended; the wrapper frees the
\* descriptor, and join answers with slot->result.
OsJoin(a) ==
  /\ At(a, "joining") /\ thread[arg[a]]
  /\ os[arg[a]] = "ended"
  /\ desc' = [desc EXCEPT ![arg[a]] = "freed"]
  /\ thread' = [thread EXCEPT ![arg[a]] = FALSE]
  /\ delivered' = [delivered EXCEPT ![arg[a]] = result[arg[a]]]
  /\ consumed' = [consumed EXCEPT ![arg[a]] = @ + 1]
  /\ Finish(a)
  /\ UNCHANGED <<table, inUse, result, function, os, detached, published,
                 outcome, crash>>

\* pthread_detach succeeded; the descriptor's flag is still to be set.
OsDetach(a) ==
  /\ At(a, "detaching") /\ thread[arg[a]]
  /\ Go(a, "marking")
  /\ UNCHANGED <<table, inUse, thread, result, function, os, desc, detached,
                 arg, published, history, crash>>

\* thread->detached = 1 and slot->thread = NULL.
MarkDetached(a) ==
  /\ At(a, "marking")
  /\ detached' = [detached EXCEPT ![arg[a]] = TRUE]
  /\ thread' = [thread EXCEPT ![arg[a]] = FALSE]
  /\ consumed' = [consumed EXCEPT ![arg[a]] = @ + 1]
  /\ Finish(a)
  /\ UNCHANGED <<table, inUse, result, function, os, desc, published, outcome,
                 delivered, crash>>
------------------------------------------------------------------------------
\* The steps an actor takes inside a call it has started.
Step(a) ==
  \/ EnsureReady(a)
  \/ EnsureClaim(a)
  \/ InitSucceeds(a)
  \/ InitFails(a)
  \/ SpawnRejected(a)
  \/ AllocSlot(a)
  \/ Prepare(a)
  \/ CreateFails(a)
  \/ Create(a)
  \/ Publish(a)
  \/ NullThread(a)
  \/ OsCallFails(a)
  \/ OsJoin(a)
  \/ OsDetach(a)
  \/ MarkDetached(a)

Next ==
  \/ \E a \in Actors : CallSpawn(a) \/ Step(a)
  \/ \E a \in Actors, h \in Handles :
       CallJoin(a, h) \/ CallDetach(a, h) \/ CallRejected(a, h)
  \/ \E h \in Handles :
       \/ \E v \in Inline \cup Boxed \cup {NonInteger} : EntryReturns(h, v)
       \/ WrapperExits(h)

Spec == Init /\ [][Next]_vars

\* The scheduler runs every thread that can run; nothing says that a script
\* makes a call, that a spawned function returns, or that pthread_join
\* notices that two threads join each other.
Fairness ==
  /\ \A a \in Actors :
       WF_vars(Step(a) /\ (pc[a] = "joining" => ~ JoinEachOther(a, arg[a])))
  /\ \A h \in Handles : WF_vars(WrapperExits(h))

FairSpec == Spec /\ Fairness
------------------------------------------------------------------------------
(***************************************************************************)
(* Properties.                                                             *)
(***************************************************************************)
Holds(a, h) == pc[a] \in {"joining", "detaching", "marking"} /\ arg[a] = h

\* A handle is joined or detached at most once, and two calls are never
\* inside pthread_join / pthread_detach for one descriptor: the swap of
\* in_use hands each thread to one caller, whatever the interleaving with a
\* failed join that gives the handle back.
OneOwner ==
  \A h \in Handles :
    /\ consumed[h] <= 1
    /\ \A a \in Actors : Holds(a, h) => inUse[h] = 0 /\ consumed[h] = 0
    /\ \A a, b \in Actors : Holds(a, h) /\ Holds(b, h) => a = b

\* A thread is never lost: once spawn has returned a handle, either someone
\* is joining or detaching it, or that has been done, or the handle can
\* still be claimed.  A failed join must restore in_use for this to hold.
StillJoinable ==
  \A h \in published :
    inUse[h] = 1 \/ consumed[h] = 1 \/ \E a \in Actors : Holds(a, h)

\* No call reaches a descriptor that the wrapper or a joiner has freed: the
\* detached flag may be written only while the thread still waits for it, or
\* has ended without freeing.
DescriptorAlive ==
  /\ \A a \in Actors :
       pc[a] \in {"joining", "detaching", "marking"} /\ thread[arg[a]]
         => desc[arg[a]] = "live"
  /\ \A h \in Handles : os[h] = "running" => desc[h] = "live" /\ function[h]

\* Only a handle no spawn has returned can lead to a NULL descriptor: the
\* window between in_use = 1 and the write of slot->thread.
CrashOnlyBeforePublish == crash # None => crash \notin published

\* A successful join of a thread whose function returned an inline integer
\* returns that integer, and 0 for a function that returned no integer: the
\* store to slot->result is complete before pthread_join returns.
JoinSeesResult ==
  \A h \in Handles :
    delivered[h] # None =>
      /\ os[h] = "ended"
      /\ outcome[h] \in Inline => delivered[h] = outcome[h]
      /\ outcome[h] = NonInteger => delivered[h] = Zero

\* platform_posix.c:1462: "wrapper will free after func returns".
DetachedIsFreed ==
  \A h \in Handles : detached[h] /\ os[h] = "ended" => desc[h] = "freed"

\* The once-initialisation terminates for everyone: an actor that spins in
\* ensure_threads leaves the loop, also when the actor it waited for failed.
EnsureTerminates ==
  \A a \in Actors : pc[a] = "ensure" ~> (pc[a] # "ensure" \/ crash # None)

\* The threads a waits for in thread.join, the one they wait for, and so on.
WaitsFor(a) ==
  {h \in Handles : \A X \in SUBSET Handles :
     (\A b \in {a} \cup X : pc[b] = "joining" => arg[b] \in X) => h \in X}

\* h is in a circle of two or more.
InCircle(h) == h \in WaitsFor(h) /\ arg[h] # h

\* A join is stuck for ever only in a circle of threads that join each other:
\* otherwise, as long as it has not returned, some thread it waits for, be it
\* through joins of its own, comes back to the code of its script again and
\* again.  No join waits for a thread that is stuck in the set-up, in another
\* call or in its end, nor for itself (thread.c:402, platform_posix.c:1444).
JoinsStuckInCircleOnly ==
  \A a \in Actors :
    []<>(pc[a] = "joining" =>
           \/ crash # None
           \/ \E h \in WaitsFor(a) : At(h, "idle")
           \/ \E h \in WaitsFor(a) : InCircle(h))
==============================================================================
