---------------------------- MODULE FfiCallbacks ----------------------------
(***************************************************************************)
(* Callbacks of the foreign function interface: the pool of slots           *)
(* (ffi_callback.c) and the runtime their invocations run in (ffi.c).       *)
(*                                                                         *)
(* A script thread registers a closure (ffi.callback) and frees a slot      *)
(* (ffi.callback_free); foreign code calls the C function of a slot from    *)
(* any thread, also after the slot has been freed.  The pool is guarded by  *)
(* one spin lock, the runtime, its count of registered callbacks and its    *)
(* count of active invocations by another.  Each step here is one critical  *)
(* section; the calls are several steps.                                    *)
(*                                                                         *)
(* The references of a closure are counted with a plain ++ and -- (value.c), *)
(* some of them under the lock of the pool (set, free, undo, retain) and    *)
(* some under none (the VM's own of an argument, ffi.callback's caller, the *)
(* end of an invocation).  A thread may have read a count that it has not   *)
(* yet written (half); if the count changes in between, an update is lost.  *)
(* The first update to be lost needs one thread half way and no more: what  *)
(* the others have written by then they have written whole.  From then on   *)
(* the counts are not followed, and neither is what becomes of a closure    *)
(* whose count is wrong.                                                    *)
(***************************************************************************)
EXTENDS Integers, FiniteSets, FiniteSetsExt

CONSTANTS
  Scripts,      \* threads that run scripts
  Natives,      \* threads of foreign code
  Slots,        \* 0..VIGIL_FFI_MAX_CALLBACKS-1
  Closures,     \* closures that every script holds at the start
  Runtimes,     \* addresses of runtimes; bound: as many can be open at once
  None

ASSUME FfiAssumption ==
  /\ Scripts \intersect Natives = {}
  /\ IsFiniteSet(Scripts) /\ IsFiniteSet(Natives)
  /\ IsFiniteSet(Slots) /\ Slots \subseteq Nat
  /\ None \notin Slots \union Closures \union Runtimes \union Scripts \union Natives

VARIABLES
  used,         \* g_cb_used
  closure,      \* g_cb_closures
  dispatch,     \* g_cb_dispatch is set
  current,      \* g_cb_runtime
  registered,   \* g_cb_registered_callbacks
  active,       \* g_cb_active_invocations
  open,         \* runtimes that are open
  rc,           \* reference count of each closure
  half,         \* the update of a count that a thread has begun: what it read
  lost,         \* an update of a count has been lost
  held,         \* closures each script still holds a reference of
  pc, slot, obj, rt,   \* where each thread is, its slot, closure and runtime
  disturbed     \* a free has met a registration or another free half way

table == <<used, closure, dispatch>>
runtimes == <<current, registered, active, open>>
counts == <<rc, half, lost>>
vars == <<table, runtimes, counts, held, pc, slot, obj, rt, disturbed>>

Threads == Scripts \union Natives

Goto(t, label) == pc' = [pc EXCEPT ![t] = label]

\* between ensure_callback_runtime and the count of the registration
Registering(t) == pc[t] \in {"install", "set", "count"}

-----------------------------------------------------------------------------
(* Reference counts: vigil_object_retain, vigil_object_release *)

NoLoad == [by |-> None, obj |-> None, read |-> 0]

\* The closures whose count the thread is about to change.
ToUpdate(t) ==
  {k \in Closures :
     \/ pc[t] = "idle" /\ t \in Scripts /\ k \in held[t]
     \/ pc[t] = "set" /\ k \in {obj[t], closure[slot[t]]}
     \/ pc[t] \in {"free", "undo", "retain"} /\ k = closure[slot[t]]
     \/ pc[t] \in {"return", "refused", "run", "drop"} /\ k = obj[t]}

\* The count is read; the thread's next step writes it.  What lies between
\* stands for every retain and release of that step: the VM's copies and pops
\* of the argument around a call (regvm.c), those of the closure while it runs.
Load(t) ==
  /\ half = NoLoad /\ ~lost
  /\ \E k \in ToUpdate(t) : half' = [by |-> t, obj |-> k, read |-> rc[k]]
  /\ UNCHANGED <<table, runtimes, rc, lost, held, pc, slot, obj, rt, disturbed>>

Stale(t) == half.by = t /\ rc[half.obj] # half.read

\* A reference of one closure is added, one of another is given up.
Update(t, up, down) ==
  /\ lost' = (lost \/ Stale(t))
  /\ rc' = [k \in Closures |->
              IF lost' THEN 0
              ELSE rc[k] + (IF k = up THEN 1 ELSE 0) - (IF k = down THEN 1 ELSE 0)]
  /\ half' = IF half.by = t THEN NoLoad ELSE half

\* No other thread is half way through an update under the lock of the pool.
PoolFree(t) ==
  half.by \in Threads \ {t} => pc[half.by] \notin {"set", "free", "undo", "retain"}

\* A thread at rest has begun no update, or the update of k.
MayUpdate(t, k) == half.by = t => half.obj = k

-----------------------------------------------------------------------------
(* ffi.callback *)

\* The call holds a reference of its argument until it returns.
CallRegister(t, k) ==
  /\ pc[t] = "idle" /\ k \in held[t] /\ MayUpdate(t, k)
  /\ obj' = [obj EXCEPT ![t] = k]
  /\ Update(t, k, None)
  /\ Goto(t, "alloc")
  /\ UNCHANGED <<table, runtimes, held, slot, rt, disturbed>>

\* Back in the script, with or without an error.
RegisterReturns(t) ==
  /\ pc[t] = "return"
  /\ obj' = [obj EXCEPT ![t] = None]
  /\ Update(t, None, obj[t])
  /\ Goto(t, "idle")
  /\ UNCHANGED <<table, runtimes, held, slot, rt, disturbed>>

\* vigil_ffi_callback_alloc takes the first free slot.
AllocSlot(t) ==
  /\ pc[t] = "alloc" /\ PoolFree(t)
  /\ LET free == {s \in Slots : ~used[s]}
     IN  IF free = {}
         THEN Goto(t, "return") /\ UNCHANGED <<used, slot>>
         ELSE /\ used' = [used EXCEPT ![Min(free)] = TRUE]
              /\ slot' = [slot EXCEPT ![t] = Min(free)]
              /\ Goto(t, "ensure")
  /\ UNCHANGED <<closure, dispatch, runtimes, counts, held, obj, rt, disturbed>>

\* ensure_callback_runtime, under the lock.  Opening a runtime may fail.
EnsureRuntime(t) ==
  /\ pc[t] = "ensure"
  /\ \/ /\ current # None /\ Goto(t, "set")
        /\ UNCHANGED <<current, open>>
     \/ /\ current = None
        /\ \/ \E r \in Runtimes \ open :
                /\ current' = r /\ open' = open \union {r}
                /\ Goto(t, "install")
           \/ Goto(t, "undo") /\ UNCHANGED <<current, open>>
  /\ UNCHANGED <<table, registered, active, counts, held, slot, obj, rt, disturbed>>

InstallDispatch(t) ==
  /\ pc[t] = "install" /\ PoolFree(t)
  /\ dispatch' = TRUE
  /\ Goto(t, "set")
  /\ UNCHANGED <<used, closure, runtimes, counts, held, slot, obj, rt, disturbed>>

\* Mutant: the closure a reused slot still has is not released.
MutantSetClosure(t) ==
  /\ pc[t] = "set" /\ PoolFree(t)
  /\ closure' = [closure EXCEPT ![slot[t]] = obj[t]]
  /\ Update(t, obj[t], None)
  /\ Goto(t, "count")
  /\ UNCHANGED <<used, dispatch, runtimes, held, slot, obj, rt, disturbed>>

\* vigil_ffi_callback_set_closure: release the old closure, store, retain.
SetClosure(t) ==
  /\ pc[t] = "set" /\ PoolFree(t)
  /\ closure' = [closure EXCEPT ![slot[t]] = obj[t]]
  /\ Update(t, obj[t], closure[slot[t]])
  /\ Goto(t, "count")
  /\ UNCHANGED <<used, dispatch, runtimes, held, slot, obj, rt, disturbed>>

CountRegistered(t) ==
  /\ pc[t] = "count"
  /\ registered' = registered + 1
  /\ slot' = [slot EXCEPT ![t] = None]
  /\ Goto(t, "return")
  /\ UNCHANGED <<table, current, active, open, counts, held, obj, rt, disturbed>>

\* vigil_ffi_callback_free: the closure of slot s is released, s is free.
ClearSlot(t, s) ==
  /\ PoolFree(t)
  /\ used' = [used EXCEPT ![s] = FALSE]
  /\ closure' = [closure EXCEPT ![s] = None]
  /\ Update(t, None, closure[s])

UndoRegister(t) ==
  /\ pc[t] = "undo"
  /\ ClearSlot(t, slot[t])
  /\ slot' = [slot EXCEPT ![t] = None]
  /\ Goto(t, "return")
  /\ UNCHANGED <<dispatch, runtimes, held, obj, rt, disturbed>>

-----------------------------------------------------------------------------
(* ffi.callback_free *)

\* The argument is a function pointer or a number: any slot.  Nothing more
\* happens if it is not allocated.
CallFree(t, s) ==
  /\ pc[t] = "idle" /\ half.by # t /\ PoolFree(t)
  /\ used[s]
  /\ slot' = [slot EXCEPT ![t] = s]
  /\ Goto(t, "free")
  /\ UNCHANGED <<table, runtimes, counts, held, obj, rt, disturbed>>

FreeSlot(t) ==
  /\ pc[t] = "free"
  /\ ClearSlot(t, slot[t])
  /\ disturbed' = (disturbed \/ closure[slot[t]] = None
                     \/ \E u \in Scripts \ {t} : slot[u] = slot[t] /\ pc[u] # "free")
  /\ Goto(t, "uncount")
  /\ UNCHANGED <<dispatch, runtimes, held, slot, obj, rt>>

Uncount(t) ==
  /\ pc[t] = "uncount"
  /\ registered' = IF registered > 0 THEN registered - 1 ELSE 0
  /\ slot' = [slot EXCEPT ![t] = None]
  /\ Goto(t, "shutdown")
  /\ UNCHANGED <<table, current, active, open, counts, held, obj, rt, disturbed>>

-----------------------------------------------------------------------------
(* maybe_shutdown_callback_runtime, at the end of a free and of an          *)
(* invocation                                                              *)

\* Mutant: the test of the invocations is missing.
MutantTakeWhileActive(t) ==
  /\ pc[t] = "shutdown"
  /\ IF registered = 0 /\ current # None
     THEN /\ rt' = [rt EXCEPT ![t] = current]
          /\ current' = None
          /\ disturbed' = (disturbed \/ \E u \in Scripts \ {t} : Registering(u))
          /\ Goto(t, "close")
     ELSE /\ Goto(t, "idle")
          /\ UNCHANGED <<rt, current, disturbed>>
  /\ UNCHANGED <<table, registered, active, open, counts, held, slot, obj>>

\* Mutant: the test of the registered callbacks is missing.
MutantTakeWhileRegistered(t) ==
  /\ pc[t] = "shutdown"
  /\ IF active = 0 /\ current # None
     THEN /\ rt' = [rt EXCEPT ![t] = current]
          /\ current' = None
          /\ disturbed' = (disturbed \/ \E u \in Scripts \ {t} : Registering(u))
          /\ Goto(t, "close")
     ELSE /\ Goto(t, "idle")
          /\ UNCHANGED <<rt, current, disturbed>>
  /\ UNCHANGED <<table, registered, active, open, counts, held, slot, obj>>

TakeRuntime(t) ==
  /\ pc[t] = "shutdown"
  /\ IF registered = 0 /\ active = 0 /\ current # None
     THEN /\ rt' = [rt EXCEPT ![t] = current]
          /\ current' = None
          /\ disturbed' = (disturbed \/ \E u \in Scripts \ {t} : Registering(u))
          /\ Goto(t, "close")
     ELSE /\ Goto(t, "idle")
          /\ UNCHANGED <<rt, current, disturbed>>
  /\ UNCHANGED <<table, registered, active, open, counts, held, slot, obj>>

CloseRuntime(t) ==
  /\ pc[t] = "close"
  /\ open' = open \ {rt[t]}
  /\ rt' = [rt EXCEPT ![t] = None]
  /\ Goto(t, "idle")
  /\ UNCHANGED <<table, current, registered, active, counts, held, slot, obj, disturbed>>

-----------------------------------------------------------------------------
(* Foreign code calls a slot *)

\* cb_invoke reads the dispatch function; without one the call returns 0.
Invoke(n, s) ==
  /\ pc[n] = "idle" /\ dispatch /\ PoolFree(n)
  /\ slot' = [slot EXCEPT ![n] = s]
  /\ Goto(n, "retain")
  /\ UNCHANGED <<table, runtimes, counts, held, obj, rt, disturbed>>

\* vigil_ffi_callback_retain_closure; without a closure the call returns 0.
RetainClosure(n) ==
  /\ pc[n] = "retain" /\ PoolFree(n)
  /\ slot' = [slot EXCEPT ![n] = None]
  /\ LET k == closure[slot[n]]
     IN  IF k = None
         THEN Goto(n, "idle") /\ UNCHANGED <<obj, counts>>
         ELSE /\ obj' = [obj EXCEPT ![n] = k]
              /\ Update(n, k, None)
              /\ Goto(n, "enter")
  /\ UNCHANGED <<table, runtimes, held, rt, disturbed>>

ReleaseClosure(n) ==
  /\ obj' = [obj EXCEPT ![n] = None]
  /\ Update(n, None, obj[n])

\* The runtime is read and the invocation counted under the lock.
EnterRuntime(n) ==
  /\ pc[n] = "enter"
  /\ IF current = None
     THEN Goto(n, "refused") /\ UNCHANGED <<active, rt>>
     ELSE /\ rt' = [rt EXCEPT ![n] = current]
          /\ active' = active + 1
          /\ Goto(n, "run")
  /\ UNCHANGED <<table, current, registered, open, counts, held, slot, obj, disturbed>>

\* Without a runtime the call returns 0.
RefuseCall(n) ==
  /\ pc[n] = "refused"
  /\ ReleaseClosure(n)
  /\ Goto(n, "idle")
  /\ UNCHANGED <<table, runtimes, held, slot, rt, disturbed>>

\* A VM is opened in the runtime, runs the closure and is closed.
RunClosure(n) ==
  /\ pc[n] = "run"
  /\ ReleaseClosure(n)
  /\ Goto(n, "leave")
  /\ UNCHANGED <<table, runtimes, held, slot, rt, disturbed>>

\* Opening the VM fails: the invocation is uncounted first.
OpenFails(n) ==
  /\ pc[n] = "run" /\ half.by # n
  /\ active' = active - 1
  /\ rt' = [rt EXCEPT ![n] = None]
  /\ Goto(n, "drop")
  /\ UNCHANGED <<table, current, registered, open, counts, held, slot, obj, disturbed>>

\* Mutant: the path of the failed call forgets the shutdown.
MutantDropClosure(n) ==
  /\ pc[n] = "drop"
  /\ ReleaseClosure(n)
  /\ Goto(n, "idle")
  /\ UNCHANGED <<table, runtimes, held, slot, rt, disturbed>>

DropClosure(n) ==
  /\ pc[n] = "drop"
  /\ ReleaseClosure(n)
  /\ Goto(n, "shutdown")
  /\ UNCHANGED <<table, runtimes, held, slot, rt, disturbed>>

LeaveRuntime(n) ==
  /\ pc[n] = "leave"
  /\ active' = active - 1
  /\ rt' = [rt EXCEPT ![n] = None]
  /\ Goto(n, "shutdown")
  /\ UNCHANGED <<table, current, registered, open, counts, held, slot, obj, disturbed>>

-----------------------------------------------------------------------------
\* A script drops its own reference of a closure.
Forget(t, k) ==
  /\ pc[t] = "idle" /\ k \in held[t] /\ MayUpdate(t, k)
  /\ held' = [held EXCEPT ![t] = @ \ {k}]
  /\ Update(t, None, k)
  /\ UNCHANGED <<table, runtimes, pc, slot, obj, rt, disturbed>>

Init ==
  /\ used = [s \in Slots |-> FALSE]
  /\ closure = [s \in Slots |-> None]
  /\ dispatch = FALSE
  /\ current = None /\ registered = 0 /\ active = 0 /\ open = {}
  /\ rc = [k \in Closures |-> Cardinality(Scripts)] /\ half = NoLoad /\ lost = FALSE
  /\ held = [t \in Scripts |-> Closures]
  /\ pc = [t \in Threads |-> "idle"]
  /\ slot = [t \in Threads |-> None]
  /\ obj = [t \in Threads |-> None]
  /\ rt = [t \in Threads |-> None]
  /\ disturbed = FALSE

ScriptStep(t) ==
  \/ AllocSlot(t) \/ EnsureRuntime(t) \/ InstallDispatch(t) \/ SetClosure(t)
  \/ CountRegistered(t) \/ UndoRegister(t) \/ RegisterReturns(t)
  \/ FreeSlot(t) \/ Uncount(t)

NativeStep(n) ==
  \/ RetainClosure(n) \/ EnterRuntime(n) \/ RefuseCall(n) \/ RunClosure(n)
  \/ OpenFails(n) \/ DropClosure(n) \/ LeaveRuntime(n)

ShutdownStep(t) == TakeRuntime(t) \/ CloseRuntime(t)

Next ==
  \/ \E t \in Scripts :
       \/ ScriptStep(t)
       \/ \E k \in Closures : CallRegister(t, k) \/ Forget(t, k)
       \/ \E s \in Slots : CallFree(t, s)
  \/ \E n \in Natives :
       \/ NativeStep(n)
       \/ \E s \in Slots : Invoke(n, s)
  \/ \E t \in Threads : ShutdownStep(t) \/ Load(t)

Spec == Init /\ [][Next]_vars

\* A thread inside a call goes on (each step moves its pc); nothing is
\* assumed about new calls.
FairSpec ==
  /\ Spec
  /\ \A t \in Scripts : WF_pc(ScriptStep(t) \/ ShutdownStep(t))
  /\ \A n \in Natives : WF_pc(NativeStep(n) \/ ShutdownStep(n))

-----------------------------------------------------------------------------
(* Properties *)

TypeOK ==
  /\ used \in [Slots -> BOOLEAN]
  /\ closure \in [Slots -> Closures \union {None}]
  /\ dispatch \in BOOLEAN /\ disturbed \in BOOLEAN
  /\ current \in Runtimes \union {None}
  /\ registered \in Nat /\ active \in Nat
  /\ open \subseteq Runtimes /\ held \in [Scripts -> SUBSET Closures]
  /\ rc \in [Closures -> Int] /\ lost \in BOOLEAN
  /\ half \in {NoLoad} \union [by : Threads, obj : Closures, read : Int]
  /\ pc \in [Threads -> {"idle", "alloc", "ensure", "install", "set", "count", "undo",
                         "return", "free", "uncount", "shutdown", "close",
                         "retain", "enter", "refused", "run", "drop", "leave"}]
  /\ slot \in [Threads -> Slots \union {None}]
  /\ obj \in [Threads -> Closures \union {None}]
  /\ rt \in [Threads -> Runtimes \union {None}]

\* The runtime of an invocation is open until the invocation has been
\* uncounted, whoever frees callbacks or shuts the runtime down meanwhile
\* (ffi.c:766, ffi.c:797).
RuntimeOpenWhileRunning ==
  \A n \in Natives : pc[n] \in {"run", "leave"} => rt[n] \in open

\* Until an update is lost, a slot, a call and an invocation each own a
\* reference of their closure: the count is never short, so that no closure
\* is destroyed while a slot offers it or an invocation runs it, also if its
\* slot is freed or reused meanwhile (ffi_callback.c:47, ffi_callback.c:85),
\* and a closure that nothing uses has none.
ClosureCountsExact ==
  \/ lost
  \/ \A k \in Closures :
       rc[k] = Cardinality({s \in Slots : closure[s] = k})
               + Cardinality({t \in Threads : obj[t] = k})
               + Cardinality({t \in Scripts : k \in held[t]})

\* Unless a free has met, half way, a registration or a free of the same
\* slot, or has shut the runtime down under a registration, a registered
\* callback can be invoked: there is a runtime, and the count of registered
\* callbacks is that of the slots with a closure (ffi.c:847 "when called by
\* C code, invokes the given Vigil closure").
RegisteredCanRun ==
  ~disturbed =>
    /\ (\E s \in Slots : closure[s] # None) => current # None
    /\ registered + Cardinality({t \in Scripts : pc[t] = "count"})
         = Cardinality({s \in Slots : closure[s] # None})
           + Cardinality({t \in Scripts : pc[t] = "uncount"})

\* A runtime without callbacks and invocations is closed, or used again.
IdleRuntimeGoes ==
  (registered = 0 /\ active = 0 /\ open # {})
    ~> (open = {} \/ registered > 0 \/ active > 0)
=============================================================================
