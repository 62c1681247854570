------------------------------- MODULE Debugger -------------------------------
(***************************************************************************)
(* The source-level debugger (src/debugger.c) together with what it shares *)
(* with the threads it watches: the registry of VMs and the inherited hook *)
(* of the runtime (src/runtime.c), opening and closing a VM (src/vm.c) and *)
(* the hook test of the dispatch loop (REGVM_DEBUG_HOOK in src/regvm.c).   *)
(*                                                                         *)
(* Each VM is run by one OS thread, and pc[v] is where that thread is.     *)
(* The main thread owns VM Main, creates the debugger before it runs the   *)
(* program and destroys it when main has returned; the other VMs belong to *)
(* thread.spawn and may outlive main (thread.detach).  The user's commands *)
(* come in through the callback, in the thread that is paused.             *)
(*                                                                         *)
(* The operations under vm_registry_mutex are single steps.  mode, the     *)
(* breakpoints and the step origin are read by the hook without any lock,  *)
(* and the array of breakpoints is replaced when it is full.               *)
(***************************************************************************)
EXTENDS Integers

CONSTANTS
  Main, Workers,   \* the VMs
  Lines,           \* source lines (a positive number stands for a location)
  MaxDepth,        \* bound: call depth of each VM
  BreakLines,      \* bound: the lines breakpoints are set on
  BreakpointIds,   \* bound: breakpoint slots 0 .. n
  FirstCapacity,   \* of the array of breakpoints (8)
  None

ASSUME DebuggerAssumption ==
  /\ Main \notin Workers
  /\ None \notin Workers \cup {Main}
  /\ Lines \subseteq Nat \ {0}
  /\ MaxDepth \in [{Main} \cup Workers -> Nat \ {0}]
  /\ BreakLines \subseteq Lines
  /\ BreakpointIds \subseteq Nat
  /\ \A i \in BreakpointIds : 0 .. i \subseteq BreakpointIds
  /\ FirstCapacity \in Nat \ {0}

VARIABLES
  pc,           \* where the thread of each VM is
  line, depth,  \* source line of the innermost frame, vigil_vm_frame_depth
  hook,         \* vm->debug_hook is the debugger's
  runtimeHook,  \* runtime->debug_hook is the debugger's
  registry,     \* runtime->vm_registry
  alive,        \* the debugger has been created and not yet been freed
  mode, stepDepth, stepLine,
  breakpoints,  \* slot -> its line, or None when it is not active
  capacity,     \* debugger->breakpoint_capacity
  outdated,     \* threads that scan an array of breakpoints that was freed
  current,      \* debugger->current_vm
  owner,        \* the thread that holds pause_mutex
  listed,       \* what vigil_runtime_list_vms returned to the paused thread
  asked,        \* the step that the callback in progress has asked for
  switched,     \* the callback in progress has switched to another thread
  crash         \* freed memory that has been used, see TypeOK

position == <<line, depth>>
hooks    == <<hook, runtimeHook, registry>>
stepping == <<mode, stepDepth, stepLine>>
points   == <<breakpoints, capacity, outdated>>
callback == <<listed, asked, switched>>
vars == <<pc, position, hooks, alive, stepping, points, current, owner,
          callback, crash>>

Vms == {Main} \cup Workers
Steps == {"over", "into", "out"}

\* Labels inside vigil_debugger_vm_hook, where the debugger's memory is used.
Scans  == {"scanning", "rescanning"}
InHook == {"deciding", "stopping", "paused", "stepping", "leaving"} \cup Scans

TypeOK ==
  /\ pc \in [Vms -> {"none", "spawned", "opening", "created", "running",
                     "calling", "ready", "ending", "closing", "closed",
                     "finished", "detaching", "detached", "destroyed"}
                    \cup InHook]
  /\ line \in [Vms -> Lines]
  /\ depth \in [Vms -> Nat] /\ \A v \in Vms : depth[v] <= MaxDepth[v]
  /\ hook \in [Vms -> BOOLEAN]
  /\ runtimeHook \in BOOLEAN
  /\ registry \subseteq Vms
  /\ alive \in BOOLEAN
  /\ mode \in {"run", "pause"} \cup Steps
  /\ \E v \in Vms : stepDepth \in 0 .. MaxDepth[v]
  /\ stepLine \in Lines \cup {0}
  /\ breakpoints \in [BreakpointIds -> BreakLines \cup {None}]
  /\ capacity \in Nat
  /\ \A i \in BreakpointIds : breakpoints[i] # None => i < capacity
  /\ outdated \subseteq {v \in Vms : pc[v] \in Scans}
  /\ current \in Vms \cup {None}
  /\ owner \in Vms \cup {None}
  /\ listed \subseteq Vms
  /\ asked \in {"none"} \cup Steps
  /\ switched \in BOOLEAN
  /\ crash \in {"none", "vm", "debugger", "breakpoints"}

\* vigil_debugger_create has returned; the program has not started.
Init ==
  /\ pc = [v \in Vms |-> IF v = Main THEN "created" ELSE "none"]
  /\ \E l \in Lines : line = [v \in Vms |-> l]
  /\ depth = [v \in Vms |-> 0]
  /\ hook = [v \in Vms |-> FALSE]
  /\ runtimeHook = FALSE
  /\ registry = {Main}
  /\ alive = TRUE
  /\ mode = "run" /\ stepDepth = 0 /\ stepLine = 0
  /\ breakpoints = [i \in BreakpointIds |-> None]
  /\ capacity = 0 /\ outdated = {}
  /\ current = None
  /\ owner = None
  /\ listed = {} /\ asked = "none" /\ switched = FALSE
  /\ crash = "none"

At(v, label) == crash = "none" /\ pc[v] = label
Go(v, label) == pc' = [pc EXCEPT ![v] = label]

\* The VM the inspection functions and the step commands work on.
ActiveVm == IF current # None THEN current ELSE Main

\* Resolving the location of a VM reads its frames: none, no location.
LineOf(v) == IF depth[v] = 0 THEN 0 ELSE line[v]
------------------------------------------------------------------------------
(***************************************************************************)
(* Faulty variants of definitions below, one for each property.            *)
(***************************************************************************)
MutantUnregisterVm(w) ==  \* the VM stays in the registry
  /\ At(w, "ending")
  /\ Go(w, "closing")
  /\ UNCHANGED <<position, hooks, alive, stepping, points, current,
                 owner, callback, crash>>

MutantUnregisterVmDetaches(w) ==  \* clears the hook of every VM
  /\ At(w, "ending")
  /\ registry' = registry \ {w}
  /\ hook' = [v \in Vms |-> FALSE]
  /\ Go(w, "closing")
  /\ UNCHANGED <<position, runtimeHook, alive, stepping, points, current,
                 owner, callback, crash>>

MutantModeStops(v) ==  \* a pause is not looked at
  \/ mode = "into" /\ line[v] # stepLine
  \/ mode = "over" /\ line[v] # stepLine /\ depth[v] <= stepDepth
  \/ mode = "out"  /\ depth[v] < stepDepth

MutantEnterCallback(v) ==  \* without the pause mutex
  /\ At(v, "stopping") /\ alive
  /\ owner' = v
  /\ current' = v
  /\ Go(v, "paused")
  /\ UNCHANGED <<position, hooks, alive, stepping, points, callback,
                 crash>>

------------------------------------------------------------------------------
(***************************************************************************)
(* The life of a thread's VM.                                              *)
(***************************************************************************)

\* vigil_debugger_attach, while Main is the only VM, and (the command line
\* does) a vigil_debugger_pause; then the program starts.
Attach(paused) ==
  /\ At(Main, "created")
  /\ hook' = [hook EXCEPT ![Main] = TRUE]
  /\ runtimeHook' = TRUE
  /\ mode' = IF paused THEN "pause" ELSE mode
  /\ depth' = [depth EXCEPT ![Main] = 1]
  /\ Go(Main, "running")
  /\ UNCHANGED <<line, registry, alive, stepDepth, stepLine, points,
                 current, owner, callback, crash>>

\* An instruction that spawns a thread.
Spawn(v, w) ==
  /\ At(v, "ready") /\ pc[w] = "none"
  /\ pc' = [pc EXCEPT ![v] = "running", ![w] = "spawned"]
  /\ UNCHANGED <<position, hooks, alive, stepping, points, current,
                 owner, callback, crash>>

\* vigil_vm_open copies the runtime's hook without a lock ...
OpenVm(w) ==
  /\ At(w, "spawned")
  /\ hook' = [hook EXCEPT ![w] = runtimeHook]
  /\ Go(w, "opening")
  /\ UNCHANGED <<position, runtimeHook, registry, alive, stepping,
                 points, current, owner, callback, crash>>

\* ... and then registers the VM, which runs its function.
RegisterVm(w) ==
  /\ At(w, "opening")
  /\ registry' = registry \cup {w}
  /\ depth' = [depth EXCEPT ![w] = 1]
  /\ Go(w, "running")
  /\ UNCHANGED <<line, hook, runtimeHook, alive, stepping, points,
                 current, owner, callback, crash>>

\* Any other instruction: the next one is on this line or another, in this
\* frame, a callee or the caller.  The last return ends the function.
Execute(v, l, d) ==
  /\ At(v, "ready")
  /\ d \in depth[v] - 1 .. depth[v] + 1
  /\ line' = [line EXCEPT ![v] = IF d > 0 THEN l ELSE @]
  /\ depth' = [depth EXCEPT ![v] = d]
  /\ Go(v, IF d > 0 THEN "running" ELSE IF v = Main THEN "finished" ELSE "ending")
  /\ UNCHANGED <<hooks, alive, stepping, points, current, owner,
                 callback, crash>>

\* vigil_vm_close: out of the registry first, then the memory is freed.
UnregisterVm(w) ==
  /\ At(w, "ending")
  /\ registry' = registry \ {w}
  /\ Go(w, "closing")
  /\ UNCHANGED <<position, hook, runtimeHook, alive, stepping, points,
                 current, owner, callback, crash>>

FreeVm(w) ==
  /\ At(w, "closing")
  /\ Go(w, "closed")
  /\ UNCHANGED <<position, hooks, alive, stepping, points, current,
                 owner, callback, crash>>
------------------------------------------------------------------------------
(***************************************************************************)
(* The hook.                                                               *)
(***************************************************************************)

\* REGVM_DEBUG_HOOK tests vm->debug_hook ...
TestHook(v) ==
  /\ At(v, "running")
  /\ Go(v, IF hook[v] THEN "calling" ELSE "ready")
  /\ UNCHANGED <<position, hooks, alive, stepping, points, current,
                 owner, callback, crash>>

\* ... and calls it.  Cleared in between, the call uses what was loaded
\* before or what is there now, a null pointer.
CallHook(v) ==
  /\ At(v, "calling")
  /\ Go(v, "deciding")
  /\ crash' \in {"none"} \cup (IF hook[v] THEN {} ELSE {"debugger"})
  /\ UNCHANGED <<position, hooks, alive, stepping, points, current,
                 owner, callback>>

\* The switch over mode.
ModeStops(v) ==
  \/ mode = "pause"
  \/ mode = "into" /\ line[v] # stepLine
  \/ mode = "over" /\ line[v] # stepLine /\ depth[v] <= stepDepth
  \/ mode = "out"  /\ depth[v] < stepDepth

Decide(v) ==
  /\ At(v, "deciding") /\ alive
  /\ Go(v, IF mode = "run" THEN "scanning"
           ELSE IF ModeStops(v) THEN "stopping" ELSE "rescanning")
  /\ UNCHANGED <<position, hooks, alive, stepping, points, current, owner,
                 callback, crash>>

\* The instruction has no location in a registered source: the hook returns
\* before it reads mode.
Unresolved(v) ==
  /\ At(v, "deciding") /\ alive
  /\ Go(v, "ready")
  /\ UNCHANGED <<position, hooks, alive, stepping, points, current, owner,
                 callback, crash>>

\* vigil_debugger_check_breakpoint.  Without a hit mode is read again: a
\* second scan is for the stepping modes.
Hits(v) == \E i \in BreakpointIds : breakpoints[i] = line[v]

Scan(v) ==
  /\ crash = "none" /\ pc[v] \in Scans /\ alive
  /\ Go(v, CASE pc[v] = "scanning" /\ ~ Hits(v) -> "rescanning"
             [] pc[v] = "rescanning" /\ (mode = "run" \/ ~ Hits(v)) -> "ready"
             [] OTHER -> "stopping")
  /\ outdated' = outdated \ {v}
  /\ UNCHANGED <<position, hooks, alive, stepping, breakpoints, capacity,
                 current, owner, callback, crash>>

\* The scan goes on in an array that has been freed.
UseFreedBreakpoints(v) ==
  /\ crash = "none" /\ v \in outdated /\ alive
  /\ crash' = "breakpoints"
  /\ UNCHANGED <<pc, position, hooks, alive, stepping, points, current, owner,
                 callback>>

\* The pause mutex, current_vm, and into the user's callback.
EnterCallback(v) ==
  /\ At(v, "stopping") /\ alive
  /\ owner = None
  /\ owner' = v
  /\ current' = v
  /\ Go(v, "paused")
  /\ UNCHANGED <<position, hooks, alive, stepping, points, callback,
                 crash>>

\* The callback returns VIGIL_DEBUG_CONTINUE (mode is reset) or
\* VIGIL_DEBUG_PAUSE (nothing is).
ReturnFromCallback(v, action) ==
  /\ At(v, "paused") /\ alive
  /\ mode' = IF action = "continue" THEN "run" ELSE mode
  /\ Go(v, "leaving")
  /\ UNCHANGED <<position, hooks, alive, stepDepth, stepLine, points,
                 current, owner, callback, crash>>

LeaveHook(v) ==
  /\ At(v, "leaving") /\ alive
  /\ current' = None
  /\ owner' = None
  /\ listed' = {} /\ asked' = "none" /\ switched' = FALSE
  /\ Go(v, "ready")
  /\ UNCHANGED <<position, hooks, alive, stepping, points, crash>>

\* A thread inside the hook of a debugger that has been freed.
UseFreedDebugger(v) ==
  /\ crash = "none" /\ pc[v] \in InHook /\ ~ alive
  /\ crash' = "debugger"
  /\ UNCHANGED <<pc, position, hooks, alive, stepping, points, current,
                 owner, callback>>
------------------------------------------------------------------------------
(***************************************************************************)
(* The user's commands, in the callback; breakpoints also before the start.*)
(***************************************************************************)

\* Setting a breakpoint takes the first slot that is not active.  Beyond the
\* capacity the array is copied and the old one freed.
SetBreakpoint(v, l) ==
  /\ \/ At(v, "paused") /\ alive
     \/ v = Main /\ At(v, "created")
  /\ \E i \in BreakpointIds :
       /\ breakpoints[i] = None
       /\ \A j \in BreakpointIds : breakpoints[j] = None => i <= j
       /\ breakpoints' = [breakpoints EXCEPT ![i] = l]
       /\ IF i < capacity THEN UNCHANGED <<capacity, outdated>>
          ELSE IF capacity = 0 THEN capacity' = FirstCapacity /\ UNCHANGED outdated
          ELSE /\ capacity' = 2 * capacity
               /\ outdated' = {w \in Vms : pc[w] \in Scans}
  /\ UNCHANGED <<pc, position, hooks, alive, stepping, current, owner,
                 callback, crash>>

\* One of them, or all.
ClearBreakpoints(v, ids) ==
  /\ At(v, "paused") /\ alive
  /\ breakpoints' = [i \in BreakpointIds |-> IF i \in ids THEN None ELSE breakpoints[i]]
  /\ UNCHANGED <<pc, position, hooks, alive, stepping, capacity, outdated,
                 current, owner, callback, crash>>

\* continue and pause.
SetMode(v, m) ==
  /\ At(v, "paused") /\ alive
  /\ m \in {"run", "pause"}
  /\ mode' = m /\ asked' = "none"
  /\ UNCHANGED <<pc, position, hooks, alive, stepDepth, stepLine,
                 points, current, owner, listed, switched, crash>>

\* step_over, step_into and step_out set the mode, and then where it starts.
BeginStep(v, m) ==
  /\ At(v, "paused") /\ alive
  /\ m \in Steps
  /\ mode' = m /\ asked' = m
  /\ Go(v, "stepping")
  /\ UNCHANGED <<position, hooks, alive, stepDepth, stepLine, points,
                 current, owner, listed, switched, crash>>

StepOrigin(v) ==
  /\ At(v, "stepping") /\ alive
  /\ pc[ActiveVm] # "closed"
  /\ stepDepth' = depth[ActiveVm]
  /\ stepLine' = LineOf(ActiveVm)
  /\ Go(v, "paused")
  /\ UNCHANGED <<position, hooks, alive, mode, points, current, owner,
                 callback, crash>>

\* vigil_debugger_switch_thread lists the VMs, then reads their thread ids.
ListVms(v) ==
  /\ At(v, "paused") /\ alive
  /\ listed' = registry
  /\ UNCHANGED <<pc, position, hooks, alive, stepping, points, current,
                 owner, asked, switched, crash>>

SwitchThread(v, w) ==
  /\ At(v, "paused") /\ alive
  /\ w \in listed /\ pc[w] # "closed"
  /\ current' = w
  /\ switched' = (w # v) /\ listed' = {}
  /\ UNCHANGED <<pc, position, hooks, alive, stepping, points, owner,
                 asked, crash>>

\* Either of them, or an inspection, on a VM that has been freed.
UseFreedVm(v) ==
  /\ crash = "none" /\ pc[v] \in {"paused", "stepping"} /\ alive
  /\ \E w \in listed \cup {ActiveVm} : pc[w] = "closed"
  /\ crash' = "vm"
  /\ UNCHANGED <<pc, position, hooks, alive, stepping, points, current,
                 owner, callback>>
------------------------------------------------------------------------------
(***************************************************************************)
(* vigil_debugger_destroy by the main thread, once main has returned.      *)
(***************************************************************************)
DetachRuntime ==
  /\ At(Main, "finished")
  /\ runtimeHook' = FALSE
  /\ Go(Main, "detaching")
  /\ UNCHANGED <<position, hook, registry, alive, stepping, points,
                 current, owner, callback, crash>>

DetachVms ==
  /\ At(Main, "detaching")
  /\ hook' = [v \in Vms |-> hook[v] /\ v \notin registry]
  /\ Go(Main, "detached")
  /\ UNCHANGED <<position, runtimeHook, registry, alive, stepping,
                 points, current, owner, callback, crash>>

Destroy ==
  /\ At(Main, "detached")
  /\ alive' = FALSE
  /\ Go(Main, "destroyed")
  /\ UNCHANGED <<position, hooks, stepping, points, current, owner,
                 callback, crash>>
------------------------------------------------------------------------------
\* What a thread does without the user.
Run(v) ==
  \/ \E w \in Workers : Spawn(v, w)
  \/ \E l \in Lines, d \in 0 .. MaxDepth[v] : Execute(v, l, d)
  \/ TestHook(v) \/ CallHook(v)
  \/ Unresolved(v) \/ Decide(v) \/ Scan(v)
  \/ EnterCallback(v) \/ LeaveHook(v)
  \/ StepOrigin(v)
  \/ UseFreedDebugger(v) \/ UseFreedBreakpoints(v)

Lifecycle(w) == OpenVm(w) \/ RegisterVm(w) \/ UnregisterVm(w) \/ FreeVm(w)

Command(v) ==
  \/ \E l \in BreakLines : SetBreakpoint(v, l)
  \/ \E ids \in {{i} : i \in BreakpointIds} \cup {BreakpointIds} :
       ClearBreakpoints(v, ids)
  \/ \E m \in {"run", "pause"} : SetMode(v, m)
  \/ \E m \in Steps : BeginStep(v, m)
  \/ ListVms(v)
  \/ \E w \in Vms : SwitchThread(v, w)
  \/ UseFreedVm(v)
  \/ \E action \in {"continue", "pause"} : ReturnFromCallback(v, action)

Next ==
  \/ \E paused \in BOOLEAN : Attach(paused)
  \/ \E v \in Vms : Run(v) \/ Command(v)
  \/ \E w \in Workers : Lifecycle(w)
  \/ DetachRuntime \/ DetachVms \/ Destroy

Spec == Init /\ [][Next]_vars

\* Threads that can run do run, and the main thread, if it calls the hook
\* again and again, does so now and then at an instruction that has a
\* location.  The user may stay in the callback for ever.
FairSpec == Spec /\ (\A v \in Vms : WF_vars(Run(v))) /\ SF_vars(Decide(Main))
------------------------------------------------------------------------------
(***************************************************************************)
(* Properties.                                                             *)
(***************************************************************************)

\* debugger.h, "all inspection APIs operate on the correct thread": whatever
\* threads stop at the same time, the callback of one sees its own VM until
\* it asks for another, and outside a callback no VM is current.
CallbackSeesOwnVm ==
  /\ \A v \in Vms : pc[v] \in {"paused", "stepping", "leaving"} /\ ~ switched
       => current = v
  /\ current # None => \E v \in Vms : pc[v] \in {"paused", "stepping", "leaving"}

\* vigil_runtime_list_vms never hands out a VM that has been freed already,
\* and none that runs is missing from it.  Until the main thread begins to
\* detach, none of them escapes the debugger, whenever it was opened.
Attached ==
  pc[Main] \notin {"created", "finished", "detaching", "detached", "destroyed"}

RegistryLive ==
  \A v \in Vms :
    /\ v \in registry => pc[v] \notin {"none", "spawned", "opening", "closing", "closed"}
    /\ pc[v] \in {"running", "calling", "ready"} \cup InHook => v \in registry
    /\ Attached /\ v \in registry => hook[v]

\* Freed memory is used only in or after switch_thread, once the main thread
\* has begun to detach, or when the array of breakpoints grows while threads
\* run: otherwise a debugged program whose threads end before main does is
\* safe.
CrashNeedsSwitchOrDetach ==
  /\ crash = "vm" => switched \/ listed # {}
  /\ crash = "debugger" => pc[Main] \in {"detaching", "detached", "destroyed"}
  /\ crash = "breakpoints" =>
       capacity > FirstCapacity /\ \E w \in Workers : pc[w] # "none"

\* debugger.h, "Request a pause at the next opportunity": a pause is taken
\* by some thread unless the mode is changed or main ends first.
PauseTakesEffect ==
  (mode = "pause" /\ Attached) ~>
    \/ \E v \in Vms : pc[v] \in {"paused", "leaving"}
    \/ mode # "pause"
    \/ ~ Attached
    \/ crash # "none"

\* debugger.h:90, "Step one source line": a step the user asked for is still
\* the mode when the callback has returned.
StepSurvivesReturn ==
  \A v \in Vms : pc[v] = "leaving" /\ asked \in Steps => mode = asked

\* debugger.h:58, "Detach the debugger. VM runs at full speed."
DetachedRunsFree ==
  pc[Main] \in {"detached", "destroyed"} =>
    \A v \in registry : ~ hook[v]
==============================================================================
