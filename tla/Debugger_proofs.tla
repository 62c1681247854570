---------------------------- MODULE Debugger_proofs ----------------------------
(***************************************************************************)
(* Proofs about the debugger, for every number of threads, lines, frames   *)
(* and breakpoints: a callback sees its own VM, the registry lists exactly *)
(* the VMs that may run, and freed memory is used only in the three ways   *)
(* that the model names.                                                   *)
(***************************************************************************)
EXTENDS Debugger, TLAPS

\* A thread that executes instructions, or is in the hook between two.
Active   == {"running", "calling", "ready"} \cup InHook
Callback == {"paused", "stepping", "leaving"}

MainLabels   == {"created", "finished", "detaching", "detached", "destroyed"} \cup Active
WorkerLabels == {"none", "spawned", "opening", "ending", "closing", "closed"} \cup Active

\* The main thread starts alone, and ends the debugger.
PcInv ==
  /\ pc \in [Vms -> MainLabels \cup WorkerLabels]
  /\ pc[Main] \in MainLabels
  /\ \A w \in Workers : pc[w] \in WorkerLabels
  /\ pc[Main] = "created" => \A w \in Workers : pc[w] = "none"
  /\ alive \in BOOLEAN /\ (alive <=> pc[Main] # "destroyed")

RegistryInv ==
  /\ registry \subseteq Vms /\ Main \in registry
  /\ \A v \in Vms :
       /\ v \in registry => pc[v] \notin {"none", "spawned", "opening", "closing", "closed"}
       /\ pc[v] \in Active => v \in registry

\* From attach to the first step of detach the runtime has the hook; a VM
\* that is being opened has copied it, although it is not registered yet.
Hooked == pc[Main] \notin {"created", "detaching", "detached", "destroyed"}

HookInv ==
  /\ hook \in [Vms -> BOOLEAN] /\ runtimeHook \in BOOLEAN
  /\ Hooked => runtimeHook
  /\ Hooked => \A v \in Vms : v \in registry \/ pc[v] = "opening" => hook[v]

PositionInv ==
  /\ line \in [Vms -> Lines]
  /\ depth \in [Vms -> Nat] /\ \A v \in Vms : depth[v] <= MaxDepth[v]

StepInv ==
  /\ mode \in {"run", "pause"} \cup Steps
  /\ \E v \in Vms : stepDepth \in 0 .. MaxDepth[v]
  /\ stepLine \in Lines \cup {0}
  /\ asked \in {"none"} \cup Steps

\* The capacity doubles from its first value on.  An array is replaced by a
\* paused thread, so that one that scans the old one is another thread.
PointInv ==
  /\ breakpoints \in [BreakpointIds -> BreakLines \cup {None}]
  /\ capacity \in Nat /\ (capacity = 0 \/ capacity >= FirstCapacity)
  /\ \A i \in BreakpointIds : breakpoints[i] # None => i < capacity

OutdatedInv ==
  /\ outdated \subseteq {v \in Vms : pc[v] \in Scans}
  /\ outdated # {} => capacity > FirstCapacity /\ \E w \in Workers : pc[w] # "none"

\* The thread in the callback is the one that holds the pause mutex.
CallbackInv ==
  /\ current \in Vms \cup {None} /\ owner \in Vms \cup {None}
  /\ listed \subseteq Vms /\ switched \in BOOLEAN
  /\ \A v \in Vms : pc[v] \in Callback <=> owner = v
  /\ CallbackSeesOwnVm

CrashInv ==
  /\ crash \in {"none", "vm", "debugger", "breakpoints"}
  /\ CrashNeedsSwitchOrDetach

IInv == PcInv /\ RegistryInv /\ HookInv /\ PositionInv /\ StepInv /\ PointInv
        /\ OutdatedInv /\ CallbackInv /\ CrashInv
------------------------------------------------------------------------------
LEMMA Constants ==
  /\ Main \in Vms /\ Main \notin Workers /\ Workers \subseteq Vms
  /\ \A v \in Vms : v = Main \/ v \in Workers
  /\ None \notin Vms
  /\ \A v \in Vms : MaxDepth[v] \in Nat \ {0}
BY DebuggerAssumption DEF Vms

\* The move of one thread.
LEMMA Moves ==
  ASSUME PcInv, NEW v \in Vms, NEW l, pc' = [pc EXCEPT ![v] = l]
  PROVE  pc'[v] = l /\ \A u \in Vms : u # v => pc'[u] = pc[u]
BY DEF PcInv

LEMMA InitIInv == Init => IInv
<1> SUFFICES ASSUME Init PROVE IInv
  OBVIOUS
<1>1. pc = [v \in Vms |-> IF v = Main THEN "created" ELSE "none"]
  BY DEF Init
<1>2. PcInv
  BY <1>1, Constants DEF Init, PcInv, MainLabels, WorkerLabels
<1>3. RegistryInv /\ HookInv
  BY <1>1, Constants DEF Init, RegistryInv, HookInv, Hooked, Active, InHook, Scans
<1>4. PositionInv
  BY Constants DEF Init, PositionInv
<1>5. StepInv
  BY Constants DEF Init, StepInv
<1>6. PointInv /\ OutdatedInv
  BY DEF Init, PointInv, OutdatedInv
<1>7. CallbackInv
  BY <1>1, Constants DEF Init, CallbackInv, CallbackSeesOwnVm, Callback
<1>8. CrashInv
  BY DEF Init, CrashInv, CrashNeedsSwitchOrDetach
<1> QED
  BY <1>2, <1>3, <1>4, <1>5, <1>6, <1>7, <1>8 DEF IInv
------------------------------------------------------------------------------
(***************************************************************************)
(* What a step leaves alone.                                               *)
(***************************************************************************)
Threads == PcInv /\ RegistryInv /\ HookInv

\* A thread goes from one place in its run to another.
LEMMA RunKeeps ==
  ASSUME IInv, NEW v \in Vms, pc[v] \in Active, NEW l \in Active,
         pc' = [pc EXCEPT ![v] = l], UNCHANGED <<hooks, alive>>
  PROVE  Threads'
<1>1. pc'[v] = l /\ \A u \in Vms : u # v => pc'[u] = pc[u]
  BY Moves DEF IInv
<1>2. /\ pc' \in [Vms -> MainLabels \cup WorkerLabels]
      /\ l \in MainLabels /\ l \in WorkerLabels
      /\ pc[v] \notin {"created", "detaching", "detached", "destroyed", "none", "opening"}
      /\ l \notin {"created", "detaching", "detached", "destroyed", "none", "spawned",
                   "opening", "closing", "closed"}
  BY DEF IInv, PcInv, MainLabels, WorkerLabels, Active, InHook, Scans
<1>3. PcInv'
  BY <1>1, <1>2, Constants DEF IInv, PcInv
<1>4. RegistryInv'
  BY <1>1, <1>2 DEF IInv, RegistryInv, hooks
<1>5. HookInv'
  BY <1>1, <1>2, Constants DEF IInv, HookInv, Hooked, hooks
<1> QED
  BY <1>3, <1>4, <1>5 DEF Threads

LEMMA ThreadsKeep ==
  ASSUME IInv, UNCHANGED <<pc, hooks, alive>>
  PROVE  Threads'
BY DEF IInv, Threads, PcInv, RegistryInv, HookInv, Hooked, hooks

LEMMA PositionKeeps ==
  ASSUME IInv, UNCHANGED position
  PROVE  PositionInv'
BY DEF IInv, PositionInv, position

LEMMA SteppingKeeps ==
  ASSUME IInv, UNCHANGED <<stepDepth, stepLine>>, mode' \in {"run", "pause"} \cup Steps,
         asked' \in {"none"} \cup Steps
  PROVE  StepInv'
BY DEF IInv, StepInv

\* A thread that scans an old array leaves it, or goes on.
LEMMA PointsKeep ==
  ASSUME IInv, UNCHANGED <<breakpoints, capacity>>, outdated' \subseteq outdated,
         \A u \in outdated' : pc'[u] \in Scans,
         \A w \in Workers : pc[w] # "none" => pc'[w] # "none"
  PROVE  PointInv' /\ OutdatedInv'
BY DEF IInv, PointInv, OutdatedInv

LEMMA CallbackKeeps ==
  ASSUME IInv, UNCHANGED <<current, owner, listed, switched>>,
         \A u \in Vms : pc'[u] \in Callback <=> pc[u] \in Callback
  PROVE  CallbackInv'
BY DEF IInv, CallbackInv, CallbackSeesOwnVm, Callback

LEMMA NoCrash ==
  ASSUME crash' = "none"
  PROVE  CrashInv'
BY DEF CrashInv, CrashNeedsSwitchOrDetach

LEMMA Together ==
  ASSUME Threads', PositionInv', StepInv', PointInv' /\ OutdatedInv', CallbackInv', CrashInv'
  PROVE  IInv'
BY DEF IInv, Threads
------------------------------------------------------------------------------
(***************************************************************************)
(* Every step keeps the invariant.  First the hook.                        *)
(***************************************************************************)

\* A thread passes the test of the hook, or looks for a reason to stop.
LEMMA HookStep ==
  ASSUME IInv, NEW v \in Vms, TestHook(v) \/ Unresolved(v) \/ Decide(v) \/ Scan(v)
  PROVE  IInv'
<1>1. PICK l \in {"calling", "ready", "stopping"} \cup Scans : pc' = [pc EXCEPT ![v] = l]
  BY DEF TestHook, Unresolved, Decide, Scan, Go, Scans
<1>2. pc[v] \in {"running", "deciding"} \cup Scans /\ crash = "none"
  BY DEF TestHook, Unresolved, Decide, Scan, At
<1>3. pc'[v] = l /\ \A u \in Vms : u # v => pc'[u] = pc[u]
  BY <1>1, Moves DEF IInv
<1>4. /\ UNCHANGED <<position, hooks, alive, stepping, breakpoints, capacity, current, owner,
                     callback, crash>>
      /\ outdated' = outdated \/ (outdated' = outdated \ {v} /\ pc[v] \in Scans)
  BY DEF TestHook, Unresolved, Decide, Scan, points
<1>5. pc[v] \in Active /\ l \in Active /\ pc[v] \notin Callback /\ l \notin Callback
      /\ pc[v] # "none" /\ l # "none"
  BY <1>2 DEF Active, InHook, Scans, Callback
<1>6. Threads'
  BY <1>1, <1>4, <1>5, RunKeeps
<1>7. PositionInv' /\ StepInv'
  BY <1>4, PositionKeeps, SteppingKeeps DEF IInv, StepInv, stepping, callback
<1>8. PointInv' /\ OutdatedInv'
  <2>1. outdated' \subseteq outdated /\ v \notin outdated'
    BY <1>2, <1>4 DEF TestHook, Unresolved, Decide, Scan, At, IInv, OutdatedInv, Scans
  <2>2. \A u \in outdated' : pc'[u] \in Scans
    BY <1>3, <2>1 DEF IInv, OutdatedInv
  <2> QED
    BY <1>3, <1>4, <1>5, <2>1, <2>2, Constants, PointsKeep
<1>9. CallbackInv'
  BY <1>3, <1>4, <1>5, CallbackKeeps DEF callback
<1>10. CrashInv'
  BY <1>2, <1>4, NoCrash
<1> QED
  BY <1>6, <1>7, <1>8, <1>9, <1>10, Together

\* The call finds no hook only when the main thread has cleared it.
LEMMA CallHookStep ==
  ASSUME IInv, NEW v \in Vms, CallHook(v)
  PROVE  IInv'
<1>1. /\ pc' = [pc EXCEPT ![v] = "deciding"] /\ pc[v] = "calling"
      /\ UNCHANGED <<position, hooks, alive, stepping, points, current, owner, callback>>
  BY DEF CallHook, At, Go
<1>2. pc'[v] = "deciding" /\ \A u \in Vms : u # v => pc'[u] = pc[u]
  BY <1>1, Moves DEF IInv
<1>3. Threads'
  BY <1>1, RunKeeps DEF Active, InHook
<1>4. PositionInv' /\ StepInv'
  BY <1>1, PositionKeeps, SteppingKeeps DEF IInv, StepInv, stepping, callback
<1>5. PointInv' /\ OutdatedInv'
  <2>1. outdated' = outdated /\ v \notin outdated /\ UNCHANGED <<breakpoints, capacity>>
    BY <1>1 DEF IInv, OutdatedInv, Scans, points
  <2>2. \A u \in outdated' : pc'[u] \in Scans
    BY <1>2, <2>1 DEF IInv, OutdatedInv
  <2> QED
    BY <1>1, <1>2, <2>1, <2>2, Constants, PointsKeep
<1>6. CallbackInv'
  BY <1>1, <1>2, CallbackKeeps DEF callback, Callback
<1>7. CrashInv'
  <2>1. CASE hook[v]
    BY <2>1, NoCrash DEF CallHook
  <2>2. CASE ~ hook[v]
    <3>1. v \in registry
      BY <1>1 DEF IInv, RegistryInv, Active
    <3>2. pc[Main] \in {"created", "detaching", "detached", "destroyed"}
      BY <2>2, <3>1 DEF IInv, HookInv, Hooked
    <3>3. pc[Main] # "created"
      BY <1>1, Constants DEF IInv, PcInv
    <3>4. pc'[Main] = pc[Main]
      BY <1>1, <1>2, <3>2, Constants
    <3>5. crash' \in {"none", "debugger"}
      BY DEF CallHook
    <3> QED
      BY <3>2, <3>3, <3>4, <3>5 DEF CrashInv, CrashNeedsSwitchOrDetach
  <2> QED
    BY <2>1, <2>2
<1> QED
  BY <1>3, <1>4, <1>5, <1>6, <1>7, Together

\* The mutex is free, so that no other thread is in the callback.
LEMMA EnterStep ==
  ASSUME IInv, NEW v \in Vms, EnterCallback(v)
  PROVE  IInv'
<1>1. /\ pc' = [pc EXCEPT ![v] = "paused"] /\ pc[v] = "stopping"
      /\ UNCHANGED <<position, hooks, alive, stepping, points, callback, crash>>
      /\ crash = "none" /\ owner = None /\ owner' = v /\ current' = v
  BY DEF EnterCallback, At, Go
<1>2. pc'[v] = "paused" /\ \A u \in Vms : u # v => pc'[u] = pc[u]
  BY <1>1, Moves DEF IInv
<1>3. Threads'
  BY <1>1, RunKeeps DEF Active, InHook
<1>4. PositionInv' /\ StepInv'
  BY <1>1, PositionKeeps, SteppingKeeps DEF IInv, StepInv, stepping, callback
<1>5. PointInv' /\ OutdatedInv'
  <2>1. outdated' = outdated /\ v \notin outdated /\ UNCHANGED <<breakpoints, capacity>>
    BY <1>1 DEF IInv, OutdatedInv, Scans, points
  <2>2. \A u \in outdated' : pc'[u] \in Scans
    BY <1>2, <2>1 DEF IInv, OutdatedInv
  <2> QED
    BY <1>1, <1>2, <2>1, <2>2, Constants, PointsKeep
<1>6. CallbackInv'
  <2>1. \A u \in Vms : pc[u] \notin Callback
    BY <1>1, Constants DEF IInv, CallbackInv
  <2>2. \A u \in Vms : pc'[u] \in Callback <=> u = v
    BY <1>2, <2>1 DEF Callback
  <2>3. \A u \in Vms : pc'[u] \in Callback <=> owner' = u
    BY <1>1, <2>2
  <2>4. CallbackSeesOwnVm'
    BY <1>1, <2>2 DEF CallbackSeesOwnVm, Callback
  <2> QED
    BY <1>1, <2>3, <2>4 DEF IInv, CallbackInv, callback
<1>7. CrashInv'
  BY <1>1, NoCrash
<1> QED
  BY <1>3, <1>4, <1>5, <1>6, <1>7, Together

\* The thread that leaves is the owner: nobody else is in the callback.
LEMMA LeaveStep ==
  ASSUME IInv, NEW v \in Vms, LeaveHook(v)
  PROVE  IInv'
<1>1. /\ pc' = [pc EXCEPT ![v] = "ready"] /\ pc[v] = "leaving"
      /\ UNCHANGED <<position, hooks, alive, stepping, points, crash>>
      /\ crash = "none" /\ owner' = None /\ current' = None
      /\ listed' = {} /\ asked' = "none" /\ switched' = FALSE
  BY DEF LeaveHook, At, Go
<1>2. pc'[v] = "ready" /\ \A u \in Vms : u # v => pc'[u] = pc[u]
  BY <1>1, Moves DEF IInv
<1>3. Threads'
  BY <1>1, RunKeeps DEF Active, InHook
<1>4. PositionInv' /\ StepInv'
  BY <1>1, PositionKeeps, SteppingKeeps DEF IInv, StepInv, stepping
<1>5. PointInv' /\ OutdatedInv'
  <2>1. outdated' = outdated /\ v \notin outdated /\ UNCHANGED <<breakpoints, capacity>>
    BY <1>1 DEF IInv, OutdatedInv, Scans, points
  <2>2. \A u \in outdated' : pc'[u] \in Scans
    BY <1>2, <2>1 DEF IInv, OutdatedInv
  <2> QED
    BY <1>1, <1>2, <2>1, <2>2, Constants, PointsKeep
<1>6. CallbackInv'
  <2>1. \A u \in Vms : pc'[u] \notin Callback
    BY <1>1, <1>2 DEF IInv, CallbackInv, Callback
  <2> QED
    BY <1>1, <2>1, Constants DEF CallbackInv, CallbackSeesOwnVm, Callback
<1>7. CrashInv'
  BY <1>1, NoCrash
<1> QED
  BY <1>3, <1>4, <1>5, <1>6, <1>7, Together
------------------------------------------------------------------------------
(***************************************************************************)
(* The commands of a paused thread.                                        *)
(***************************************************************************)

\* From one place in the callback to another.
LEMMA InCallbackStep ==
  ASSUME IInv, NEW v \in Vms,
         \/ \E m \in Steps : BeginStep(v, m)
         \/ StepOrigin(v)
         \/ \E action \in {"continue", "pause"} : ReturnFromCallback(v, action)
  PROVE  IInv'
<1>1. PICK l \in Callback : pc' = [pc EXCEPT ![v] = l]
  BY DEF BeginStep, StepOrigin, ReturnFromCallback, Go, Callback
<1>2. /\ pc[v] \in Callback /\ crash = "none"
      /\ UNCHANGED <<position, hooks, alive, points, current, owner, listed, switched, crash>>
  BY DEF BeginStep, StepOrigin, ReturnFromCallback, At, Callback, callback
<1>3. pc'[v] = l /\ \A u \in Vms : u # v => pc'[u] = pc[u]
  BY <1>1, Moves DEF IInv
<1>4. pc[v] \in Active /\ l \in Active /\ pc[v] \notin Scans /\ l # "none"
  BY <1>2 DEF Active, InHook, Callback, Scans
<1>5. Threads'
  BY <1>1, <1>2, <1>4, RunKeeps
<1>6. PositionInv'
  BY <1>2, PositionKeeps
<1>7. StepInv'
  <2>1. CASE StepOrigin(v)
    <3>1. ActiveVm \in Vms
      BY Constants DEF ActiveVm, IInv, CallbackInv
    <3>2. stepDepth' \in 0 .. MaxDepth[ActiveVm]
      BY <2>1, <3>1, Constants DEF StepOrigin, IInv, PositionInv
    <3>3. stepLine' \in Lines \cup {0}
      BY <2>1, <3>1 DEF StepOrigin, LineOf, IInv, PositionInv
    <3> QED
      BY <2>1, <3>1, <3>2, <3>3 DEF StepOrigin, IInv, StepInv, callback
  <2>2. CASE ~ StepOrigin(v)
    <3>1. UNCHANGED <<stepDepth, stepLine>>
      BY <2>2 DEF BeginStep, ReturnFromCallback
    <3>2. mode' \in {"run", "pause"} \cup Steps /\ asked' \in {"none"} \cup Steps
      BY <2>2 DEF BeginStep, ReturnFromCallback, IInv, StepInv, callback
    <3> QED
      BY <3>1, <3>2, SteppingKeeps
  <2> QED
    BY <2>1, <2>2
<1>8. PointInv' /\ OutdatedInv'
  <2>1. outdated' = outdated /\ v \notin outdated /\ UNCHANGED <<breakpoints, capacity>>
    BY <1>2, <1>4 DEF IInv, OutdatedInv, points
  <2>2. \A u \in outdated' : pc'[u] \in Scans
    BY <1>3, <2>1 DEF IInv, OutdatedInv
  <2> QED
    BY <1>3, <1>4, <2>1, <2>2, Constants, PointsKeep
<1>9. CallbackInv'
  BY <1>2, <1>3, CallbackKeeps
<1>10. CrashInv'
  BY <1>2, NoCrash
<1> QED
  BY <1>5, <1>6, <1>7, <1>8, <1>9, <1>10, Together

\* The first slot that is free lies at the end of the array or before it.
LEMMA BreakpointStep ==
  ASSUME IInv, NEW v \in Vms, NEW l \in BreakLines, SetBreakpoint(v, l)
  PROVE  IInv'
<1>1. /\ UNCHANGED <<pc, position, hooks, alive, stepping, current, owner, callback, crash>>
      /\ crash = "none"
  BY DEF SetBreakpoint, At
<1>2. PICK i \in BreakpointIds :
        /\ breakpoints[i] = None
        /\ \A j \in BreakpointIds : breakpoints[j] = None => i <= j
        /\ breakpoints' = [breakpoints EXCEPT ![i] = l]
        /\ IF i < capacity THEN UNCHANGED <<capacity, outdated>>
           ELSE IF capacity = 0 THEN capacity' = FirstCapacity /\ UNCHANGED outdated
           ELSE /\ capacity' = 2 * capacity
                /\ outdated' = {w \in Vms : pc[w] \in Scans}
  BY DEF SetBreakpoint
<1>3. Threads'
  BY <1>1, ThreadsKeep
<1>4. PositionInv' /\ StepInv'
  BY <1>1, PositionKeeps, SteppingKeeps DEF IInv, StepInv, stepping, callback
<1>5. capacity \in Nat /\ (capacity = 0 \/ capacity >= FirstCapacity)
      /\ FirstCapacity \in Nat \ {0} /\ i \in Nat
  BY <1>2, DebuggerAssumption DEF IInv, PointInv
<1>6. i <= capacity
  <2>1. CASE i = 0
    BY <1>5, <2>1
  <2>2. CASE i # 0
    <3>1. i - 1 \in 0 .. i /\ i - 1 \in Nat /\ ~ (i <= i - 1)
      BY <1>5, <2>2
    <3>2. i - 1 \in BreakpointIds
      BY <1>2, <3>1, DebuggerAssumption
    <3>3. breakpoints[i - 1] # None
      BY <1>2, <3>1, <3>2
    <3>4. i - 1 < capacity
      BY <3>2, <3>3 DEF IInv, PointInv
    <3> QED
      BY <1>5, <3>4
  <2> QED
    BY <2>1, <2>2
<1>7. /\ capacity' \in Nat /\ (capacity' = 0 \/ capacity' >= FirstCapacity)
      /\ i < capacity' /\ capacity <= capacity'
      /\ outdated' # outdated => capacity' > FirstCapacity
  BY <1>2, <1>5, <1>6
<1>8. PointInv'
  <2>1. breakpoints' \in [BreakpointIds -> BreakLines \cup {None}]
    BY <1>2 DEF IInv, PointInv
  <2>2. ASSUME NEW j \in BreakpointIds, breakpoints'[j] # None PROVE j < capacity'
    <3>1. CASE j = i
      BY <1>7, <3>1
    <3>2. CASE j # i
      <4>1. breakpoints[j] # None
        BY <1>2, <2>2, <3>2 DEF IInv, PointInv
      <4>2. j < capacity /\ j \in Nat
        BY <4>1, DebuggerAssumption DEF IInv, PointInv
      <4> QED
        BY <1>5, <1>7, <4>2
    <3> QED
      BY <3>1, <3>2
  <2> QED
    BY <1>7, <2>1, <2>2 DEF PointInv
<1>9. OutdatedInv'
  <2>1. CASE outdated' = outdated
    BY <1>1, <1>5, <1>7, <2>1 DEF IInv, OutdatedInv
  <2>2. CASE outdated' # outdated
    <3>1. outdated' = {w \in Vms : pc[w] \in Scans} /\ capacity' > FirstCapacity
      BY <1>2, <1>7, <2>2
    <3>2. ASSUME NEW u \in outdated' PROVE \E w \in Workers : pc[w] # "none"
      <4>1. u \in Vms /\ pc[u] \in Scans
        BY <3>1
      <4>2. CASE u \in Workers
        BY <4>1, <4>2 DEF Scans
      <4>3. CASE u = Main
        <5>1. v # Main /\ pc[v] = "paused"
          BY <4>1, <4>3 DEF SetBreakpoint, At, Scans
        <5> QED
          BY <5>1, Constants
      <4> QED
        BY <4>1, <4>2, <4>3, Constants
    <3> QED
      BY <1>1, <3>1, <3>2 DEF OutdatedInv
  <2> QED
    BY <2>1, <2>2
<1>10. CallbackInv'
  BY <1>1, CallbackKeeps DEF callback
<1>11. CrashInv'
  BY <1>1, NoCrash
<1> QED
  BY <1>3, <1>4, <1>8, <1>9, <1>10, <1>11, Together

LEMMA ClearStep ==
  ASSUME IInv, NEW v \in Vms, NEW ids, ClearBreakpoints(v, ids)
  PROVE  IInv'
<1>1. /\ UNCHANGED <<pc, position, hooks, alive, stepping, capacity, outdated, current, owner,
                     callback, crash>>
      /\ crash = "none"
      /\ breakpoints' = [i \in BreakpointIds |-> IF i \in ids THEN None ELSE breakpoints[i]]
  BY DEF ClearBreakpoints, At
<1>2. Threads'
  BY <1>1, ThreadsKeep
<1>3. PositionInv' /\ StepInv'
  BY <1>1, PositionKeeps, SteppingKeeps DEF IInv, StepInv, stepping, callback
<1>4. PointInv' /\ OutdatedInv'
  BY <1>1 DEF IInv, PointInv, OutdatedInv
<1>5. CallbackInv'
  BY <1>1, CallbackKeeps DEF callback
<1>6. CrashInv'
  BY <1>1, NoCrash
<1> QED
  BY <1>2, <1>3, <1>4, <1>5, <1>6, Together

\* The mode, the list of VMs and the current one.
LEMMA CommandStep ==
  ASSUME IInv, NEW v \in Vms,
         \/ \E m \in {"run", "pause"} : SetMode(v, m)
         \/ ListVms(v)
         \/ \E w \in Vms : SwitchThread(v, w)
  PROVE  IInv'
<1>1. /\ UNCHANGED <<pc, position, hooks, alive, stepDepth, stepLine, points, owner, crash>>
      /\ crash = "none" /\ pc[v] = "paused"
  BY DEF SetMode, ListVms, SwitchThread, At, stepping
<1>2. Threads'
  BY <1>1, ThreadsKeep
<1>3. mode' \in {"run", "pause"} \cup Steps /\ asked' \in {"none"} \cup Steps
  BY DEF SetMode, ListVms, SwitchThread, IInv, StepInv, stepping, callback
<1>4. PositionInv' /\ StepInv'
  BY <1>1, <1>3, PositionKeeps, SteppingKeeps
<1>5. PointInv' /\ OutdatedInv'
  BY <1>1 DEF IInv, PointInv, OutdatedInv, points
<1>6. CallbackInv'
  <2>1. CASE UNCHANGED <<current, listed, switched>>
    BY <1>1, <2>1, CallbackKeeps
  <2>2. CASE ListVms(v)
    <3>1. UNCHANGED <<current, switched>> /\ listed' \subseteq Vms
      BY <2>2 DEF ListVms, IInv, RegistryInv
    <3> QED
      BY <1>1, <3>1 DEF IInv, CallbackInv, CallbackSeesOwnVm
  <2>3. ASSUME NEW w \in Vms, SwitchThread(v, w) PROVE CallbackInv'
    <3>1. current' = w /\ switched' = (w # v) /\ listed' = {}
      BY <2>3 DEF SwitchThread
    <3>2. owner = v /\ \A u \in Vms : pc[u] \in Callback <=> u = v
      BY <1>1 DEF IInv, CallbackInv, Callback
    <3>3. CallbackSeesOwnVm'
      BY <1>1, <3>1, <3>2 DEF CallbackSeesOwnVm, Callback
    <3> QED
      BY <1>1, <3>1, <3>3 DEF IInv, CallbackInv
  <2> QED
    BY <2>1, <2>2, <2>3 DEF SetMode
<1>7. CrashInv'
  BY <1>1, NoCrash
<1> QED
  BY <1>2, <1>4, <1>5, <1>6, <1>7, Together
------------------------------------------------------------------------------
(***************************************************************************)
(* Freed memory is used.                                                   *)
(***************************************************************************)
LEMMA UseFreedStep ==
  ASSUME IInv, NEW v \in Vms, UseFreedBreakpoints(v) \/ UseFreedDebugger(v) \/ UseFreedVm(v)
  PROVE  IInv'
<1>1. UNCHANGED <<pc, position, hooks, alive, stepping, points, current, owner, callback>>
  BY DEF UseFreedBreakpoints, UseFreedDebugger, UseFreedVm
<1>2. Threads'
  BY <1>1, ThreadsKeep
<1>3. PositionInv' /\ StepInv'
  BY <1>1, PositionKeeps, SteppingKeeps DEF IInv, StepInv, stepping, callback
<1>4. PointInv' /\ OutdatedInv'
  BY <1>1 DEF IInv, PointInv, OutdatedInv, points
<1>5. CallbackInv'
  BY <1>1, CallbackKeeps DEF callback
<1>6. CrashInv'
  <2>1. CASE UseFreedBreakpoints(v)
    BY <1>1, <2>1 DEF UseFreedBreakpoints, IInv, OutdatedInv, CrashInv, CrashNeedsSwitchOrDetach, points
  <2>2. CASE UseFreedDebugger(v)
    BY <1>1, <2>2 DEF UseFreedDebugger, IInv, PcInv, CrashInv, CrashNeedsSwitchOrDetach
  <2>3. CASE UseFreedVm(v)
    <3>1. crash' = "vm" /\ pc[v] \in {"paused", "stepping"}
      BY <2>3 DEF UseFreedVm
    <3>2. switched \/ listed # {}
      <4>1. SUFFICES ASSUME ~ switched, listed = {} PROVE FALSE
        OBVIOUS
      <4>2. current = v
        BY <3>1, <4>1 DEF IInv, CallbackInv, CallbackSeesOwnVm
      <4>3. ActiveVm = v
        BY <4>2, Constants DEF ActiveVm
      <4> QED
        BY <2>3, <3>1, <4>1, <4>3 DEF UseFreedVm
    <3> QED
      BY <1>1, <3>1, <3>2 DEF CrashInv, CrashNeedsSwitchOrDetach, callback
  <2> QED
    BY <2>1, <2>2, <2>3
<1> QED
  BY <1>2, <1>3, <1>4, <1>5, <1>6, Together
------------------------------------------------------------------------------
(***************************************************************************)
(* The life of a thread and of its VM.                                     *)
(***************************************************************************)

\* Main is alone, and the first to be registered.
LEMMA AttachStep ==
  ASSUME IInv, NEW paused \in BOOLEAN, Attach(paused)
  PROVE  IInv'
<1>1. /\ pc[Main] = "created" /\ pc' = [pc EXCEPT ![Main] = "running"]
      /\ hook' = [hook EXCEPT ![Main] = TRUE] /\ runtimeHook' = TRUE
      /\ depth' = [depth EXCEPT ![Main] = 1]
      /\ mode' = IF paused THEN "pause" ELSE mode
      /\ crash = "none"
      /\ UNCHANGED <<line, registry, alive, stepDepth, stepLine, points, current, owner,
                     callback, crash>>
  BY DEF Attach, At, Go
<1>2. pc'[Main] = "running" /\ \A u \in Vms : u # Main => pc'[u] = pc[u]
  BY <1>1, Constants, Moves DEF IInv
<1>3. \A w \in Workers : pc[w] = "none" /\ pc'[w] = "none"
  BY <1>1, <1>2, Constants DEF IInv, PcInv
<1>4. PcInv'
  BY <1>1, <1>2, <1>3, Constants DEF IInv, PcInv, MainLabels, WorkerLabels, Active
<1>5. RegistryInv'
  BY <1>1, <1>2, <1>3, Constants DEF IInv, RegistryInv, Active, InHook, Scans
<1>6. HookInv'
  <2>1. hook' \in [Vms -> BOOLEAN] /\ hook'[Main]
    BY <1>1, Constants DEF IInv, HookInv
  <2>2. \A v \in Vms : v \in registry' \/ pc'[v] = "opening" => v = Main
    BY <1>1, <1>2, <1>3, Constants DEF IInv, RegistryInv
  <2> QED
    BY <1>1, <2>1, <2>2 DEF HookInv
<1>7. Threads'
  BY <1>4, <1>5, <1>6 DEF Threads
<1>8. PositionInv'
  BY <1>1, Constants DEF IInv, PositionInv
<1>9. StepInv'
  BY <1>1, SteppingKeeps DEF IInv, StepInv, callback
<1>10. PointInv' /\ OutdatedInv'
  <2>1. outdated' = outdated /\ UNCHANGED <<breakpoints, capacity>>
    BY <1>1 DEF points
  <2>2. \A u \in outdated' : pc'[u] \in Scans
    BY <1>1, <1>2, <2>1 DEF IInv, OutdatedInv, Scans
  <2> QED
    BY <1>3, <2>1, <2>2, PointsKeep
<1>11. CallbackInv'
  BY <1>1, <1>2, CallbackKeeps DEF callback, Callback
<1>12. CrashInv'
  BY <1>1, NoCrash
<1> QED
  BY <1>7, <1>8, <1>9, <1>10, <1>11, <1>12, Together

LEMMA SpawnStep ==
  ASSUME IInv, NEW v \in Vms, NEW w \in Workers, Spawn(v, w)
  PROVE  IInv'
<1>1. /\ pc[v] = "ready" /\ pc[w] = "none" /\ v # w /\ crash = "none"
      /\ pc' = [pc EXCEPT ![v] = "running", ![w] = "spawned"]
      /\ UNCHANGED <<position, hooks, alive, stepping, points, current, owner, callback, crash>>
  BY DEF Spawn, At
<1>2. /\ pc'[v] = "running" /\ pc'[w] = "spawned"
      /\ \A u \in Vms : u # v /\ u # w => pc'[u] = pc[u]
  BY <1>1, Constants DEF IInv, PcInv
<1>3. pc[Main] # "created"
  BY <1>1, Constants DEF IInv, PcInv
<1>4. PcInv'
  <2>1. pc' \in [Vms -> MainLabels \cup WorkerLabels]
    BY <1>1 DEF IInv, PcInv, MainLabels, WorkerLabels, Active
  <2>2. pc'[Main] \in MainLabels /\ pc'[Main] # "created"
        /\ (pc'[Main] # "destroyed" <=> pc[Main] # "destroyed")
    BY <1>1, <1>2, <1>3, Constants DEF IInv, PcInv, MainLabels, Active
  <2>3. \A u \in Workers : pc'[u] \in WorkerLabels
    BY <1>2, Constants DEF IInv, PcInv, WorkerLabels, Active
  <2> QED
    BY <1>1, <2>1, <2>2, <2>3 DEF IInv, PcInv
<1>5. RegistryInv'
  BY <1>1, <1>2 DEF IInv, RegistryInv, hooks, Active, InHook, Scans
<1>6. HookInv'
  BY <1>1, <1>2, <1>3, Constants DEF IInv, HookInv, Hooked, hooks
<1>7. Threads'
  BY <1>4, <1>5, <1>6 DEF Threads
<1>8. PositionInv' /\ StepInv'
  BY <1>1, PositionKeeps, SteppingKeeps DEF IInv, StepInv, stepping, callback
<1>9. PointInv' /\ OutdatedInv'
  <2>1. outdated' = outdated /\ UNCHANGED <<breakpoints, capacity>>
    BY <1>1 DEF points
  <2>2. \A u \in outdated' : pc'[u] \in Scans
    BY <1>1, <1>2, <2>1 DEF IInv, OutdatedInv, Scans
  <2>3. \A u \in Workers : pc[u] # "none" => pc'[u] # "none"
    BY <1>2, Constants
  <2> QED
    BY <2>1, <2>2, <2>3, PointsKeep
<1>10. CallbackInv'
  BY <1>1, <1>2, CallbackKeeps DEF callback, Callback
<1>11. CrashInv'
  BY <1>1, NoCrash
<1> QED
  BY <1>7, <1>8, <1>9, <1>10, <1>11, Together

\* What all the other steps of a VM's life have in common.
LEMMA LifeKeeps ==
  ASSUME IInv, NEW v \in Vms, NEW l, pc' = [pc EXCEPT ![v] = l],
         pc[v] \notin Callback \cup Scans, l \notin Callback \cup {"none"},
         Threads', PositionInv',
         UNCHANGED <<stepping, points, current, owner, callback, crash>>, crash = "none"
  PROVE  IInv'
<1>1. pc'[v] = l /\ \A u \in Vms : u # v => pc'[u] = pc[u]
  BY Moves DEF IInv
<1>2. StepInv'
  BY SteppingKeeps DEF IInv, StepInv, stepping, callback
<1>3. PointInv' /\ OutdatedInv'
  <2>1. outdated' = outdated /\ v \notin outdated /\ UNCHANGED <<breakpoints, capacity>>
    BY DEF points, IInv, OutdatedInv
  <2>2. \A u \in outdated' : pc'[u] \in Scans
    BY <1>1, <2>1 DEF IInv, OutdatedInv
  <2>3. \A u \in Workers : pc[u] # "none" => pc'[u] # "none"
    BY <1>1, Constants
  <2> QED
    BY <2>1, <2>2, <2>3, PointsKeep
<1>4. CallbackInv'
  BY <1>1, CallbackKeeps DEF callback
<1>5. CrashInv'
  BY NoCrash
<1> QED
  BY <1>2, <1>3, <1>4, <1>5, Together

\* The VM copies the hook that every registered VM has.
LEMMA OpenStep ==
  ASSUME IInv, NEW w \in Workers, OpenVm(w)
  PROVE  IInv'
<1>1. /\ pc[w] = "spawned" /\ pc' = [pc EXCEPT ![w] = "opening"] /\ crash = "none"
      /\ hook' = [hook EXCEPT ![w] = runtimeHook]
      /\ UNCHANGED <<position, runtimeHook, registry, alive, stepping, points, current, owner,
                     callback, crash>>
  BY DEF OpenVm, At, Go
<1>2. w \in Vms /\ w # Main /\ pc'[w] = "opening" /\ \A u \in Vms : u # w => pc'[u] = pc[u]
  BY <1>1, Constants, Moves DEF IInv
<1>3. PcInv'
  BY <1>1, <1>2, Constants DEF IInv, PcInv, WorkerLabels
<1>4. RegistryInv'
  BY <1>1, <1>2 DEF IInv, RegistryInv, Active, InHook, Scans
<1>5. HookInv'
  <2>1. pc'[Main] = pc[Main]
    BY <1>2, Constants
  <2>2. hook' \in [Vms -> BOOLEAN] /\ hook'[w] = runtimeHook /\ \A u \in Vms : u # w => hook'[u] = hook[u]
    BY <1>1, <1>2 DEF IInv, HookInv
  <2> QED
    BY <1>1, <1>2, <2>1, <2>2 DEF IInv, HookInv, Hooked
<1>6. Threads'
  BY <1>3, <1>4, <1>5 DEF Threads
<1>7. PositionInv'
  BY <1>1, PositionKeeps
<1> QED
  BY <1>1, <1>2, <1>6, <1>7, LifeKeeps DEF Callback, Scans

LEMMA RegisterStep ==
  ASSUME IInv, NEW w \in Workers, RegisterVm(w)
  PROVE  IInv'
<1>1. /\ pc[w] = "opening" /\ pc' = [pc EXCEPT ![w] = "running"] /\ crash = "none"
      /\ registry' = registry \cup {w} /\ depth' = [depth EXCEPT ![w] = 1]
      /\ UNCHANGED <<line, hook, runtimeHook, alive, stepping, points, current, owner,
                     callback, crash>>
  BY DEF RegisterVm, At, Go
<1>2. w \in Vms /\ w # Main /\ pc'[w] = "running" /\ \A u \in Vms : u # w => pc'[u] = pc[u]
  BY <1>1, Constants, Moves DEF IInv
<1>3. PcInv'
  BY <1>1, <1>2, Constants DEF IInv, PcInv, WorkerLabels, Active
<1>4. RegistryInv'
  BY <1>1, <1>2 DEF IInv, RegistryInv, Active, InHook, Scans
<1>5. HookInv'
  <2>1. pc'[Main] = pc[Main]
    BY <1>2, Constants
  <2> QED
    BY <1>1, <1>2, <2>1 DEF IInv, HookInv, Hooked
<1>6. Threads'
  BY <1>3, <1>4, <1>5 DEF Threads
<1>7. PositionInv'
  BY <1>1, <1>2, Constants DEF IInv, PositionInv
<1> QED
  BY <1>1, <1>2, <1>6, <1>7, LifeKeeps DEF Callback, Scans

\* The main thread ends, or a worker does, or the next line is reached.
LEMMA ExecuteStep ==
  ASSUME IInv, NEW v \in Vms, NEW l \in Lines, NEW d \in 0 .. MaxDepth[v], Execute(v, l, d)
  PROVE  IInv'
<1>1. PICK next \in {"running", "finished", "ending"} :
        /\ pc' = [pc EXCEPT ![v] = next]
        /\ next = "finished" => v = Main
        /\ next = "ending" => v # Main
  BY DEF Execute, Go
<1>2. /\ pc[v] = "ready" /\ crash = "none"
      /\ UNCHANGED <<hooks, alive, stepping, points, current, owner, callback, crash>>
  BY DEF Execute, At
<1>3. pc'[v] = next /\ \A u \in Vms : u # v => pc'[u] = pc[u]
  BY <1>1, Moves DEF IInv
<1>4. PcInv'
  BY <1>1, <1>2, <1>3, Constants DEF IInv, PcInv, MainLabels, WorkerLabels, Active
<1>5. RegistryInv'
  BY <1>2, <1>3 DEF IInv, RegistryInv, Active, InHook, Scans, hooks
<1>6. HookInv'
  BY <1>2, <1>3, Constants DEF IInv, HookInv, Hooked, hooks
<1>7. Threads'
  BY <1>4, <1>5, <1>6 DEF Threads
<1>8. PositionInv'
  <2>1. depth' = [depth EXCEPT ![v] = d] /\ d \in Nat /\ d <= MaxDepth[v]
    BY Constants DEF Execute
  <2>2. line' \in [Vms -> Lines]
    BY DEF Execute, IInv, PositionInv
  <2> QED
    BY <2>1, <2>2 DEF IInv, PositionInv
<1> QED
  BY <1>1, <1>2, <1>7, <1>8, LifeKeeps DEF Callback, Scans

LEMMA CloseStep ==
  ASSUME IInv, NEW w \in Workers, UnregisterVm(w) \/ FreeVm(w)
  PROVE  IInv'
<1>1. PICK l \in {"closing", "closed"} : pc' = [pc EXCEPT ![w] = l]
  BY DEF UnregisterVm, FreeVm, Go
<1>2. /\ pc[w] \in {"ending", "closing"} /\ crash = "none"
      /\ UNCHANGED <<position, hook, runtimeHook, alive, stepping, points, current, owner,
                     callback, crash>>
      /\ registry' = registry \ {w}
  BY DEF UnregisterVm, FreeVm, At, hooks, IInv, RegistryInv, Vms
<1>3. w \in Vms /\ w # Main /\ pc'[w] = l /\ \A u \in Vms : u # w => pc'[u] = pc[u]
  BY <1>1, Constants, Moves DEF IInv
<1>4. PcInv'
  BY <1>1, <1>2, <1>3, Constants DEF IInv, PcInv, WorkerLabels
<1>5. RegistryInv'
  BY <1>2, <1>3 DEF IInv, RegistryInv, Active, InHook, Scans
<1>6. HookInv'
  <2>1. pc'[Main] = pc[Main]
    BY <1>3, Constants
  <2> QED
    BY <1>2, <1>3, <2>1 DEF IInv, HookInv, Hooked
<1>7. Threads'
  BY <1>4, <1>5, <1>6 DEF Threads
<1>8. PositionInv'
  BY <1>2, PositionKeeps
<1> QED
  BY <1>1, <1>2, <1>3, <1>7, <1>8, LifeKeeps DEF Callback, Scans

\* The three steps of detach: the hooks may go, since it is under way.
LEMMA DetachStep ==
  ASSUME IInv, DetachRuntime \/ DetachVms \/ Destroy
  PROVE  IInv'
<1>1. PICK l \in {"detaching", "detached", "destroyed"} : pc' = [pc EXCEPT ![Main] = l]
  BY DEF DetachRuntime, DetachVms, Destroy, Go
<1>2. /\ pc[Main] \in {"finished", "detaching", "detached"} /\ crash = "none"
      /\ UNCHANGED <<position, registry, stepping, points, current, owner, callback, crash>>
      /\ hook' \in [Vms -> BOOLEAN] /\ runtimeHook' \in BOOLEAN
  BY DEF DetachRuntime, DetachVms, Destroy, At, hooks, IInv, HookInv
<1>3. pc'[Main] = l /\ \A u \in Vms : u # Main => pc'[u] = pc[u]
  BY <1>1, Constants, Moves DEF IInv
<1>4. alive' \in BOOLEAN /\ (alive' <=> pc'[Main] # "destroyed")
  <2>1. CASE Destroy
    <3>1. alive' = FALSE /\ pc' = [pc EXCEPT ![Main] = "destroyed"]
      BY <2>1 DEF Destroy, Go
    <3>2. pc'[Main] = "destroyed"
      BY <3>1, Constants, Moves DEF IInv
    <3> QED
      BY <3>1, <3>2
  <2>2. CASE DetachRuntime \/ DetachVms
    <3>1. alive' = alive /\ \E k \in {"detaching", "detached"} : pc' = [pc EXCEPT ![Main] = k]
      BY <2>2 DEF DetachRuntime, DetachVms, Go
    <3>2. pc'[Main] # "destroyed"
      BY <3>1, Constants, Moves DEF IInv
    <3>3. alive = TRUE
      BY <1>2 DEF IInv, PcInv
    <3> QED
      BY <3>1, <3>2, <3>3
  <2> QED
    BY <2>1, <2>2
<1>5. PcInv'
  BY <1>1, <1>3, <1>4, Constants DEF IInv, PcInv, MainLabels
<1>6. RegistryInv'
  BY <1>2, <1>3, Constants DEF IInv, RegistryInv, Active, InHook, Scans
<1>7. HookInv'
  BY <1>2, <1>3 DEF HookInv, Hooked
<1>8. Threads'
  BY <1>5, <1>6, <1>7 DEF Threads
<1>9. PositionInv'
  BY <1>2, PositionKeeps
<1> QED
  BY <1>1, <1>2, <1>8, <1>9, Constants, LifeKeeps DEF Callback, Scans
------------------------------------------------------------------------------
LEMMA NextIInv == IInv /\ [Next]_vars => IInv'
<1> SUFFICES ASSUME IInv, [Next]_vars PROVE IInv'
  OBVIOUS
<1>1. ASSUME NEW paused \in BOOLEAN, Attach(paused) PROVE IInv'
  BY <1>1, AttachStep
<1>2. ASSUME NEW v \in Vms, Run(v) PROVE IInv'
  <2>1. ASSUME NEW w \in Workers, Spawn(v, w) PROVE IInv'
    BY <2>1, SpawnStep
  <2>2. ASSUME NEW l \in Lines, NEW d \in 0 .. MaxDepth[v], Execute(v, l, d) PROVE IInv'
    BY <2>2, ExecuteStep
  <2>3. CASE TestHook(v) \/ Unresolved(v) \/ Decide(v) \/ Scan(v)
    BY <2>3, HookStep
  <2>4. CASE CallHook(v)
    BY <2>4, CallHookStep
  <2>5. CASE EnterCallback(v)
    BY <2>5, EnterStep
  <2>6. CASE LeaveHook(v)
    BY <2>6, LeaveStep
  <2>7. CASE StepOrigin(v)
    BY <2>7, InCallbackStep
  <2>8. CASE UseFreedDebugger(v) \/ UseFreedBreakpoints(v)
    BY <2>8, UseFreedStep
  <2> QED
    BY <1>2, <2>1, <2>2, <2>3, <2>4, <2>5, <2>6, <2>7, <2>8 DEF Run
<1>3. ASSUME NEW v \in Vms, Command(v) PROVE IInv'
  <2>1. ASSUME NEW l \in BreakLines, SetBreakpoint(v, l) PROVE IInv'
    BY <2>1, BreakpointStep
  <2>2. ASSUME NEW ids, ClearBreakpoints(v, ids) PROVE IInv'
    BY <2>2, ClearStep
  <2>3. CASE \/ \E m \in {"run", "pause"} : SetMode(v, m)
             \/ ListVms(v)
             \/ \E w \in Vms : SwitchThread(v, w)
    BY <2>3, CommandStep
  <2>4. CASE \/ \E m \in Steps : BeginStep(v, m)
             \/ \E action \in {"continue", "pause"} : ReturnFromCallback(v, action)
    BY <2>4, InCallbackStep
  <2>5. CASE UseFreedVm(v)
    BY <2>5, UseFreedStep
  <2> QED
    BY <1>3, <2>1, <2>2, <2>3, <2>4, <2>5 DEF Command
<1>4. ASSUME NEW w \in Workers, Lifecycle(w) PROVE IInv'
  BY <1>4, OpenStep, RegisterStep, CloseStep DEF Lifecycle
<1>5. CASE DetachRuntime \/ DetachVms \/ Destroy
  BY <1>5, DetachStep
<1>6. CASE UNCHANGED vars
  <2>1. UNCHANGED <<pc, position, hooks, alive, stepping, points, current, owner, callback, crash>>
    BY <1>6 DEF vars
  <2>2. Threads'
    BY <2>1, ThreadsKeep
  <2>3. PositionInv' /\ StepInv'
    BY <2>1, PositionKeeps, SteppingKeeps DEF IInv, StepInv, stepping, callback
  <2>4. PointInv' /\ OutdatedInv'
    BY <2>1 DEF IInv, PointInv, OutdatedInv, points
  <2>5. CallbackInv'
    BY <2>1, CallbackKeeps DEF callback
  <2>6. CrashInv'
    BY <2>1 DEF IInv, CrashInv, CrashNeedsSwitchOrDetach, callback, points
  <2> QED
    BY <2>2, <2>3, <2>4, <2>5, <2>6, Together
<1> QED
  BY <1>1, <1>2, <1>3, <1>4, <1>5, <1>6 DEF Next

\* The invariant from which the others follow: who is registered, hooked and
\* in the callback at each step of the threads.
THEOREM DebuggerInvariance == Spec => []IInv
<1> QED
  BY InitIInv, NextIInv, PTL DEF Spec

\* In particular a breakpoint lies inside its array, whose size is doubled
\* before it is full (debugger.c:366).
THEOREM DebuggerTypeCorrect == Spec => []TypeOK
<1>1. ASSUME IInv PROVE TypeOK
  <2>1. pc \in [Vms -> {"none", "spawned", "opening", "created", "running",
                        "calling", "ready", "ending", "closing", "closed",
                        "finished", "detaching", "detached", "destroyed"} \cup InHook]
    BY <1>1 DEF IInv, PcInv, MainLabels, WorkerLabels, Active
  <2> QED
    BY <1>1, <2>1 DEF IInv, TypeOK, PcInv, RegistryInv, HookInv, PositionInv, StepInv, PointInv,
                      OutdatedInv, CallbackInv, CrashInv
<1> QED
  BY <1>1, DebuggerInvariance, PTL

\* Whatever threads stop at the same time, a callback inspects its own VM
\* until it switches, and none is current outside (debugger.c:315).
THEOREM CallbackSeesOwnVmAlways == Spec => []CallbackSeesOwnVm
<1>1. IInv => CallbackSeesOwnVm
  BY DEF IInv, CallbackInv
<1> QED
  BY <1>1, DebuggerInvariance, PTL

\* The registry lists every VM that runs and none that is freed, and while
\* the debugger is attached each of them has its hook, whenever it was opened.
THEOREM RegistryLiveAlways == Spec => []RegistryLive
<1>1. IInv => RegistryLive
  BY DEF IInv, RegistryInv, HookInv, Hooked, Active, Attached, RegistryLive
<1> QED
  BY <1>1, DebuggerInvariance, PTL

\* Without switch_thread, growth of the breakpoints under running threads or
\* a detach that other threads outlive, no freed memory is used.
THEOREM CrashNeedsSwitchOrDetachAlways == Spec => []CrashNeedsSwitchOrDetach
<1>1. IInv => CrashNeedsSwitchOrDetach
  BY DEF IInv, CrashInv
<1> QED
  BY <1>1, DebuggerInvariance, PTL
===============================================================================
