# Models and proofs for VIGIL

VIGIL is a scripting language: a compiler to bytecode, a register VM, a
standard library in C, and tools around them (debugger, DAP and LSP servers,
formatter, packages, transpiler).  This directory holds TLA+ models of the parts
of it that keep shared or long-lived state, the TLC runs that check them and
TLAPS proofs.  Every definition follows the C source; `PROJECT.json` maps
each one to its lines.

## Inventory

| component | source | state | interacts with |
|---|---|---|---|
| thread table | `stdlib/thread.c`, `platform_posix.c` | `g_threads`: one slot per spawned thread (`in_use`, `thread`, `result`, `function`); the thread descriptors of the platform | a VM per thread (`vigil_vm_open`), the objects a thread's function captures |
| synchronisation objects | `stdlib/thread.c`, `platform_posix.c` | registries of mutexes, conditions, rwlocks: handle to pointer, one lock each; the state of their set-up | called from every thread |
| hash map | `map.c` | entries, capacity, count, tombstones | map objects in `value.c`, for-in loops |
| VM registry, debug hook | `runtime.c`, `vm.c` | VMs of all threads, the hook new VMs inherit | `vigil_vm_open`/`close`, debugger |
| debugger | `debugger.c` | mode, step origin, breakpoints, current VM, pause mutex | hook called by each VM's dispatch loop; user's callback; DAP server and command line |
| calls of the VM | `regvm.c`, `vm.c` | frame stack with deferred calls, nested dispatch loops, value stack | compiler (tail-call rule), natives, debugger hook |
| values | `value.c` | reference counts (not atomic), arrays, maps, closures, instances | everything; threads share objects |
| cycle collector | `gc.c` | a node per tracked object | the counts and slots of the objects |
| FFI callbacks | `ffi_callback.c`, `stdlib/ffi.c` | 8 callback slots with their closures, one runtime for all callbacks, two counters, two spin locks | foreign code calls a slot from any thread; reference counts; a VM per invocation |
| atomics | `stdlib/atomic.c` | a table of cells | every thread |
| regular expressions | `stdlib/regex_engine.c`, `stdlib/regex.c` | a compiled pattern; per call the position, the matches and the output; a cache of patterns per runtime | natives of `regex`; threads share the cache |
| DAP server, command line debugger | `dap.c`, `cli/main.c` | request loop that runs inside the debugger's callback | debugger |
| compiler and back ends | `lexer.c` ... `compiler.c`, `aot.c`, `transpile_*.c` | none that lives on | produces chunks |
| formats, text, system wrappers, tools | the rest of `src/` | local | - |

What is hard here:

- **threads**: guessed handles, a join racing a detach, a failing join, a thread
  that ends while it is being detached, set-up of the table by several threads;
- **synchronisation objects** are looked up under a lock and used after it, while
  other threads destroy them; handles are reserved before there is an object;
- **the debugger** watches threads that come and go: hooks are inherited,
  cleared and called without a common lock; one mode is shared by all threads;
- **calls** are made in two ways (inline frames and nested dispatch loops), and
  returns, tail calls, deferred calls and failures must agree on who takes
  which frame off;
- **references** are counted by plain integers that threads share, arrays and
  instances move, copy and drop them, and the collector frees what it finds by
  comparing the counts with the references between tracked objects;
- **callbacks** are called by foreign threads while scripts register, free and
  reuse slots, and whoever is last closes the runtime they run in;
- **the regular expression engine** has two shortcuts before its NFA, builds
  repetitions by copying states, and steps over empty matches;
- **the map** accumulates tombstones, moves its entries while memory may run
  out, and has a probe loop that only ends if an empty slot is left.

The full list of hazards, each at its line and with the properties that cover it,
is in `PROJECT.json`.

## Modules

| module | models | abstract counterpart |
|---|---|---|
| `Threads` | thread.spawn / join / detach and the POSIX wrapper | - |
| `Threads_proofs` | theorems about `Threads` | - |
| `SyncObjects` | mutexes, condition variables and read-write locks of `thread.c`: their registries and objects | - |
| `SyncObjects_proofs` | theorems about `SyncObjects` | - |
| `HashMap` | `map.c` | `KeyedMap`: a set of pairs, one per key |
| `HashMap_proofs` | theorems about `HashMap`, its refinement among them | - |
| `Debugger` | debugger, VM registry, opening and closing of VMs, the hook test | - |
| `Debugger_proofs` | theorems about `Debugger` | - |
| `VmCalls` | frames, dispatch loops, defers, tail calls | `CallStack`: a plain stack of activations |
| `VmCalls_proofs` | theorems about `VmCalls`: types, loops, register pointers, deferred calls, the refinement of `CallStack` | - |
| `RefHeap` | reference counts, arrays and instances, the collector, a second thread | reachability: what the program can reach is allocated |
| `RefHeap_proofs` | theorems about `RefHeap` | - |
| `FfiCallbacks` | slots, registration and freeing, invocations, the shared runtime | - |
| `FfiCallbacks_proofs` | theorems about `FfiCallbacks` | - |
| `RegexNfa` | the compiler of the regex engine: NFA, filter, fast path | - |
| `Regex` | match, find, find_all, replace_all, split over `RegexNfa` | the set of ends of a match, and leftmost-longest search |
| `SetLemmas` | facts about least elements, injections and counts that the proofs share | - |
| `MC*` | instances for TLC | - |

Definitions called `Mutant...` are faulty variants of a definition of the same
module; no specification uses them.  Each shows, put in the place of the right
definition, that a property of a run can fail.

### Threads

An actor is the main thread or the thread of a slot while its function runs.
`pc`/`arg` say where an actor is inside a call.  A handle is a slot index, and
an actor may pass any handle, published or guessed.  One step is one atomic
access to the table, or several that nobody can tell apart: slots are never
freed or reused, so the lookup of `thread_get_slot` and the compare-and-swap of
`in_use` are one step (`Claim`).  `Create` and `Publish` are two steps because
the new thread runs before `*out_thread` is written.  `detached` is read by
`WrapperExits`, and is set (`MarkDetached`) after `pthread_detach` (`OsDetach`).
`pthread_join` is modelled from its use: it returns when the thread has
ended, fails with EDEADLK for a thread that joins itself and may fail for two
that join each other.  An integer is `Inline` or `Boxed`; `Decode` reads the payload
of both, as `vigil_nanbox_decode_int` does: a function that returns an integer
too large for the payload gives its join the bits of a pointer, and `JoinSeesResult` speaks
of the others.

Properties: `OneOwner`, `StillJoinable`, `DescriptorAlive`,
`CrashOnlyBeforePublish`, `JoinSeesResult`; `EnsureTerminates` and
`JoinsStuckInCircleOnly` under weak fairness of each actor's steps and of the end of a
thread.  The scheduler of the operating system justifies that; nothing is assumed about a
script making calls or a function returning, nor about `pthread_join` noticing that two
threads join each other: it may, and may as well block both.  Actors spin in
`ensure_threads` by taking no step until the state changes.

A join has no timeout, so that it waits for its thread and for all that thread waits
for (`WaitsFor`).  `JoinsStuckInCircleOnly` says that one which never returns either waits
for a script that keeps running, or leads into a circle of threads that join each other,
which the run reaches: no join waits for ever for a thread that is stuck in the set-up,
in another call, in its own end, or for itself.

### SyncObjects

An actor is a thread that runs VIGIL code, `pc`/`op` say where it is in which
call, `about` which slots (a kind and a handle) the call is about and `got` the
pointers it holds.  A critical section of a registry's lock is one step
(`Alloc`, `Store`, `Lookup`, `Clear`), and what lies between two of them is open to every
other thread: a create reserves its handle, creates the object and stores
it in three steps; a use looks its handles up, one step each, enters
the platform's function and returns; a destroy frees the object and then clears
the entry.  What pthread does with an object is left open: a call that has
entered may return, or never return, and a fault is recorded where a call works
on an object that is not allocated (`TouchFreed`).  Objects are numbered as they are
created; an address that malloc hands out again would only hide a fault.
Handles are any integer a script likes: those beyond the count are all alike, and one
such handle is enough.  `MaxHandles` bounds what a registry gives out, where the code
grows its table; `Alloc` is disabled beyond it and the create fails instead.

`ensure_registries` sets the three registries up in order (`EnsureClaim`,
`InitRegistry`, `InitDone`), may fail half way (`InitFails`) and may be tried again,
which empties the registries that were set up before.  Only creates call it.
`registry_init` stores capacity, table, count and lock one after the other without a lock
(thread.c:36-44), which is one step in the model: a lookup with a guessed handle that reads
between these stores, and may lock the old lock and unlock the new one, is left out.

`HandleGivenOnce`, `HandleKeepsObject`, `NoLostObject` and `RetiredStaysEmpty` hold
for any script, also for one that destroys objects under calls that work
on them, as long as the process lives.  `NoUseAfterFree` holds until a destroy overlaps
with another call on the same handle, which `disturbed` records; the script may
use stale handles and destroy twice.  Before the first create every lookup locks a NULL
mutex, also where the documentation promises false ("Returns false on timeout or invalid
handles", thread.c:854); `NullLockOnlyBeforeReady` says that this is over when a
handle exists.

### HashMap

`slots` is `map->entries`.  `vigil_map_set_value` is a call of several steps:
`ensure` (room, rebuild, out of memory), `rebuild` (`MoveEntry` per slot,
`FinishRebuild`), `place`.  One VM uses a map at a time, so steps exist for the
failures between them and for the invariants of a half-filled new table.
The probe is `FindIndex`, defined as the first slot of the circular walk that
stops it, without recursion.  `KeyedMap` promises that a set stores its pair
or leaves the map as it was, and that nothing else is visible; `HashMap`
implements it with `content` mapped to the pairs of both tables
(`ImplementsKeyedMap`).

`EmptySlotRemains` is what makes the unbounded probe loop end; `ProbeSound`
says that no empty slot lies between a key's home and its entry, and that a key
has one entry; `CountersExact` relates the two counters, on which the growth
decision rests, to the slots; `LookupExact` is what a reader sees.

### Debugger

Each VM is run by one thread, `pc[v]` is where it is: between instructions, at
the hook test, or at one of the points inside `vigil_debugger_vm_hook` where the
debugger's memory is used.  The hook is tested and called in two steps
(`TestHook`, `CallHook`), a VM is opened in two (`OpenVm` copies the hook,
`RegisterVm`), closed in two and detached in two.  Operations under
`vm_registry_mutex` are one step.  Commands (`SetBreakpoint`, `BeginStep`,
`SetMode`, `SwitchThread`, ...) are available to a thread that is paused in the callback.
At an instruction whose location cannot be resolved the hook returns at once
(`Unresolved`).  Otherwise it reads mode (`Decide`) and scans the array of breakpoints (`Scan`) without a
lock; a breakpoint set beyond the capacity frees the array that other threads may
be scanning (`outdated`).  A breakpoint on a function is one on the line its name
resolves to.  `crash` records a use of freed memory.

`CallbackSeesOwnVm` and `RegistryLive` are the promises of the headers, the latter
also that no registered VM escapes an attached debugger;
`CrashNeedsSwitchOrDetach` bounds where freed memory can be reached: during or
after `switch_thread`, once the main thread has begun to detach, or, in a program
with threads, after the array of breakpoints has grown.
`PauseTakesEffect` is checked under weak fairness of each thread's own steps, not of
the user's commands: a user may stay in the callback for ever, which the
property counts as a pause that was taken.  Strong fairness of `Decide` for
the main thread says that, as long as it calls the hook, it comes to an instruction with a
location again and again: the compiler gives every statement one.  A request that another thread overwrites is excused (`mode # "pause"`).

### VmCalls

`execs` is the C stack of dispatch loops, `frames` the frame stack with each
frame's deferred calls, `mode` what the innermost loop does.  In mode `run` the
code may do anything: call inline (room in the array) or nested (always
possible), call a native function, tail call, defer, return, fail.  A deferred
call is a number, in the order of the DEFER instructions.  `abandoned`, `cleared`
and `lost` account for deferred calls that will not run.  A failure may come from
an instruction, inside a call before or after its frame was pushed (a failed tail
call takes its own frame off in both cases: `FailInTail`, `FailInCall`), or while deferred
calls are being started.  Each loop has a pointer into the value stack (`regs`), which every
call or push may move under all of them.

`CallStack` has no loops: a stack of activations that run their deferred
calls, the last one first, when they return.  `ImplementsCallStack` says
that both ways of calling are that one stack.  `LoopsOwnFrames` is the
discipline of frame counts, `DefersAccountedFor` that no deferred call is in two places
or run twice, `OnlyTailCallsDrop` that only a tail call makes a successful
program skip one.  `RegistersCurrent` says that code never goes on with an old
pointer, however deep the loop was that moved the stack; it names the two places
where the release of registers may use one: after deferred calls
(regvm.c:6296) and after a failed instruction.  `FailureEnds` assumes that the
VM's own steps go on.

### RefHeap

An object is a container with a sequence of `slots`; `roots` counts the references
that registers, C code and threads hold, `rc` is the integer in memory.  Each
operation of `value.c` is one step with the release of everything it
destroys (`Release`): the program may do anything with the objects it holds a
reference of.  `Destroyed` is the least set closed under "no reference is left"
(`Emptied`), as the recursion of `vigil_object_destroy` finds it.  It and `Reach` are
stated as least sets, by the sets that are not closed: no recursion over the
heap stands in the way of a proof.  A second thread updates
counts in two steps, the load and the store (`OtherLoad`, `OtherStore`); if
another update comes in between, one is lost and the behaviour ends there
(`lost`): from then on nothing is promised, and the code promises nothing
(the counts are not atomic, value.c:752).  `Collect` is `vigil_gc_collect`: the
trial deletion of phases 1 to 3 (`Garbage`), the cutting of references
inside the garbage without a release (`Cut`), then the destruction of each
garbage object, with the releases that follow from it.

`CountsExact` says that all of this balances, `NothingReachableFreed` that no
release and no collection takes what is in use, `GarbageExact` that trial deletion
is reachability.  A node of the collector is not taken off when its object
dies by reference counting: reading it is `crash`.  `CollectLeavesNodesLive`
bounds the collector's own part in that: it leaves such a node only for an
object held through an object that is not tracked.

### FfiCallbacks

Each step is one critical section of one of the two spin locks, or one update of a
reference count under neither; a call is
several.  A script thread goes through `ffi.callback` (`alloc`, `ensure`,
`install`, `set`, `count`, `return`) and `ffi.callback_free` (`free`, `uncount`), a thread
of foreign code through an invocation (`retain`, `enter`, `run`, `leave`, or
`drop` when the VM cannot be opened, `refused` when there is no runtime), and both end in
`maybe_shutdown_callback_runtime` (`shutdown`, `close`).  The argument of `ffi.callback`
is referenced by the VM from the call to its return (regvm.c:5156, regvm.c:5176), which is the
reference in `obj`; `held` are those of the scripts' variables.

The counts are plain integers (value.c:752).  `set`, `free`, `undo` and `retain` change
them under the lock of the pool; the call's argument, the script's own reference and the
end of an invocation (ffi.c:807, ffi.c:816, ffi.c:838) do so under no lock.  As in
`RefHeap`, a thread may therefore read a count (`Load`, kept in `half`) and write
it with its next step; if another thread has changed it in between, that change is overwritten
and `lost` is set.  A thread that is half way under the lock keeps the
lock (`PoolFree`).  One thread half way at a time is enough for the first loss: the
updates that it overwrites were written as a whole by then.  After it the counts are
not followed, and what the program does with a count that is too low or too high is
not modelled: a closure freed under an invocation, or never.  The run reaches
`lost`.

`RuntimeOpenWhileRunning` holds whatever meets whatever.  `ClosureCountsExact` holds until an
update is lost: nothing but the overwritten count, no order of registering, reusing,
freeing and calling slots, makes a closure die too early or stay.
`RegisteredCanRun` does not hold when a free has met a registration half way:
`ensure_callback_runtime` and the increment of the count are two critical
sections, so that a free in between finds the count at 0 and closes the runtime
under the new callback, whose calls then return 0; two frees of one slot count
it down twice; and a free of a slot whose registration is under way does both.
`disturbed` records exactly these meetings, and the property holds without them.
`IdleRuntimeGoes` is checked under weak fairness of each thread inside a call, where a
step counts only if it moves the thread's `pc`: the scheduler lets it go on, and a `Load`
alone is no progress.  Nothing is assumed about new calls.

### RegexNfa and Regex

An expression is the tree the parser recognises; the text of patterns is left
out.  `RegexNfa` follows the compiler: states are appended to a sequence, whose
index is the id of a state, fragments have dangling arrows, repetitions are
copies of the states from the start of the fragment on (`Copy`).  It also
computes the filter on the first byte and the segments of the fast path.

In `Regex` a behaviour is one call.  A step of a search is one start position: the
filter, the simulation of the NFA with its saved positions, the longest match.
`match` and the fast path are one step, because nothing can come in between.  A
replacement is a single `Marker`: `$1` in replacement texts is left out.
Inputs are shorter than 255 bytes: `visited` marks are bytes and generations are
not (regex_engine.c:1454), so that beyond that the marks do nothing.

The reference is a definition of its own: `Ends`, the positions where a
match of an expression can end, and `RefFind`, the leftmost match and of these the
longest.  `SearchExact` and `AllExact` compare match, find, find_all, replace_all
and split with it.  They hold where the engine does not depart from the
reference; the three departures are named by conditions on the expression, each
needed for both properties:

- `CopyIncomplete`: a repetition of a group, an alternation or another
  repetition loses the states below its start (`(a){2}` matches nothing), and
  `e{n,}` for n > 1 has no loop;
- `FilterMisses`: in an alternation a class clears the bytes collected before it
  (`a|[d]` does not find `a`), and the filter knows no flag `i`;
- `RunMisread`: the fast path takes any split behind a leaf for a `+` (`ab?` is
  searched as `a+`), and `[ab]+b+` finds nothing because the first class takes all.

A lazy quantifier does not shorten a match: the reference is leftmost-longest
for both kinds, as the simulation is.

Empty matches are part of `AllExact` with one exception, `EmptyMisread`: find_all and
split find an empty match that lies away from where the search began a second time
(regex_engine.c:2173), and replace_all drops the byte it steps over behind an empty
match, and after one at the end of the input computes a rest below 0
(`overrun`, regex_engine.c:2378).

find_all and split are given an array of 256 results (regex.c:262, regex.c:272) and stop
without an error when it is full (regex_engine.c:2403), while the documentation promises
"an array of all matched substrings" (regex.c:734) and of "substrings split by the
pattern" (regex.c:752), without a limit.  A text with more matches is silently cut
short.  The model has this limit (`MaxResults`), the run reaches it, and `AllExact` compares with the *first*
`MaxResults` matches: it says that the results are right as far as they go, not that they are
complete.  This departure from the documentation is noted under the hazards and
has no run of its own.

These definitions were compared with the compiled engine on more than a thousand
random expressions and inputs: every result agreed.

## Runs

Every module has a type invariant.  Those of `Threads`, `SyncObjects`, `HashMap`, `Debugger`,
`RefHeap` and `FfiCallbacks` are proved for all values of the constants, so that no run
repeats them; the runs check the properties that say more.

| run | question | bounds |
|---|---|---|
| `threads` | safety of the thread table, and which joins never return | 2 threads + main, 1 failed set-up |
| `thread_detach_leak` | is a detached thread always freed? (no) | same |
| `sync_objects` | handles and objects of any script, use of freed memory | 3 threads, 1 handle of each kind, 1 failed set-up |
| `hashmap` | the map and its promise | 4 keys, 2 values, tables of 4 and 8 slots |
| `debugger` | safety of hooks and registry, pauses | 2 VMs, 2 lines, depth 2 in main and 1 in the thread, 2 breakpoints on a line, an array that holds 1 at first |
| `debugger_step` | does a step survive the callback? (no) | same |
| `debugger_detach` | do detached VMs run free? (no) | same |
| `vmcalls` | the two ways of calling, defers, failures, register pointers | frame array of 2, 4 frames, 3 defers |
| `vm_defer_tail` | do deferred calls run on every return? (no) | same |
| `refheap` | counts, reachability, trial deletion | 3 addresses with 2, 1 and 1 slots, 2 references from outside, one second thread |
| `ffi_callbacks` | slots, closures with counts that are not atomic, and the shared runtime | 2 script threads, 1 foreign thread, 2 slots, 1 closure, 2 runtimes |
| `regex` | five operations against the reference | 28 expressions, 47 inputs up to 4 bytes, at most 2 results |

Two threads and main are enough for a claim, a competing claim and the thread
they are about.  Three threads are a create or a destroy, a call
it meets and another one on the same handle; one handle of each kind is enough for
those, since slots of one registry share only the count, and the theorems hold for any
number.  Three keys share a home slot in the table of 4, and two in the
table of 8, with probes that wrap past the end; the keys fill the small table so
that it grows, and removals fill it with tombstones.  A frame array of 2 grows
once within 4 frames, so that inline calls both succeed and fall back; the
second breakpoint replaces the array of the first.
Three addresses make self-references, cycles of two and three objects, shared
children, a cycle that hangs off another one, and an address that is used again
while the collector has a node for it; an object of two slots can hold one
object twice.  `b` and `c` have the same width and are symmetric.  Two script
threads are needed for a free that meets a registration, and two slots for a
callback that stays while another goes; two runtimes for one that is
closed while the next one is opened.  One closure is enough for its count to be
updated by three threads in every order.  Expressions of the regex run were chosen so
that each operator, anchor, flag and departure occurs, and each occurs without a
departure where that is possible; inputs hold two cases of a letter, a digit and
a newline.  Two results, where the code has 256, reach the limit of split and find_all, so that
lists are cut short in the run.
`CHECK_DEADLOCK FALSE` stands where the system stops: a script that ended, joins
that wait for each other, a process that a fault ended, a thread blocked in the pause mutex, a crash, a count
that was lost, a regex call that has returned; the FFI threads may stay idle
for ever.

Four disagreements with comments, documents or the syntax guide are the violation
runs; `PROJECT.json` quotes each text:

- a thread that ends between `pthread_detach` and the store to `detached` leaks
  its descriptor;
- a step asked for in the debugger's callback is reset by the callback's own
  return value;
- a VM opened during a detach keeps the hook;
- `defer f(); return g(x);` becomes a tail call and drops `f`.

## Proofs

`Threads_proofs` proves, for every number of threads and every set of values,
that type correctness, `OneOwner`, `StillJoinable`, `DescriptorAlive`,
`CrashOnlyBeforePublish` and `JoinSeesResult` hold in every reachable state of
`Spec` (and so of `FairSpec`).  The only assumption is `ThreadsAssumption`: the
bounds are naturals and the model values are distinct.

None of the invariants is inductive: that a claim finds `consumed = 0`, that a
failed creation cannot undo a claim, or that the result is stored when a join
returns, depends on what a slot looks like earlier.  `IInv` adds

- `CallsWellFormed`: a call about a handle has one, an ended thread makes no call;
- `UnusedSlots`: a slot beyond the count is untouched;
- `SpawnPhases`: a slot under construction has one builder, and its fields for
  each phase (a guessed claim may come in from the second phase on);
- `Descriptors`: `slot->thread` is set exactly from publication to consumption,
  and a claimable slot has not been consumed;
- `ResultStages`: what `slot->result` holds at each stage of the thread.

Six actions only move an actor through the phases where it owns no slot;
`SlotlessStep` treats them together.  Each other action has a lemma that first says
what becomes of `Holds` and `Spawning`, then treats each conjunct of `IInv`.
`NextIInv` puts them together, and each theorem follows by temporal logic.

`SyncObjects_proofs` proves `TypeOK` and all invariants of the run for every set of threads and every
number of handles and failed set-ups, from `SyncAssumption`: the bounds are naturals, and NULL is no
object.  `IInv` adds

- `PhaseInv`: what a call is about at each label;
- `SetUpInv`: the set-up has one actor, no one is past it before it is done, and until then
  there is no handle and no object, so that a repeated attempt loses nothing;
- `SlotInv`: entries are published, not retired, point to objects that were
  created, and no two to the same one;
- `CreateInv`, `NewInv`: a create owns the slot it has reserved, and the object it is about to
  store is known to no one else;
- `TakeInv`: a pointer that a call holds comes from one of its slots, which still holds it or was
  cleared after the object was freed.  This is what lets `FreeObject` and `Clear` be two steps;
- `KeepInv`, `LostInv`: the properties without the lookup.

Until a script is disturbed (`SafeInv`), `CarefulInv` adds `NoOverlap` and `GotLive`: a call that shares
a pointer with a destroy is about the same slot (`TakeInv` and the injectivity in `SlotInv`), and
the two would have met.  `QuietFrame` treats the steps that change no registry and no
object at once.

`VmCalls_proofs` proves `TypeOK`, `LoopsOwnFrames` and `RegistersCurrent` for every
capacity of the frame array and every number of frames and deferred calls, from
`VmCallsAssumption`: the capacity and the frame limit are positive, the number of
defers is a natural.  Its `IInv` has, beside the types (`FrameInv`, `AccountInv`),

- `LoopInv`: the loops are `Nested`, that is, the first and only the first is the
  embedder's, and each starts above the frames of the one below.
  This is what a nested loop that ends needs, to find that the loop it returns
  to still has a frame;
- `PointerInv`: a loop that drains its deferred calls is left with an old
  pointer only if one of them has been started, and a loop started by a drain is
  itself a deferred call that has been started.  `RegistersCurrent` says this only
  of the return that follows the drain.

`MayMoveSame` and `KeepLoops` reduce a growth of the value stack to a change of
pointers alone; `NestStep` and `PopStep` treat the start and the end of a
nested loop once for all the actions that do it.

Its second part proves `DefersAccountedFor` and `OnlyTailCallsDrop`.
The invariant there, `DeferInv`, is `IInv` with

- `PlaceInv`: no number occurs twice in the frames, nor in `ran`, and what waits,
  what has been started and what was given up are disjoint and together
  `1 .. deferCount`.  `DefersAccountedFor` counts; that a popped frame takes
  exactly its own deferred calls away needs the distinctness (`NoneTwice`), which a
  cardinality does not give;
- `DropInv`: without a failure on its way, the frame below each loop started by a tail
  call has only abandoned calls left, and so has the last frame of a loop that is
  about to return.  That is what `LoopReturns`, `EndInline` and `Finish` throw
  away, long after `TailCall` abandoned it.

Counting is by bijection: a list without duplicates has as many elements as
members (`CountDistinct`).

Its third part proves the refinement: `Spec => ImplementsCallStack`.  The kind of an activation
is the site of the loop that begins at its frame, so the proof follows which
loop begins where: loops begin at different frames (`SiteOf`, from `Ordered`), and neither
a move of the stack nor the loop on top changes the site of a frame below
(`SameSites`, `BelowSites`).  `StackKept`, `StackPushed` and `StackPopped` then
say what a step of the VM does to the abstract stack, and there is one lemma for each
abstract action: inline and nested calls are `Call`; `ReturnInline`, the end of an inline drain, of
a nested loop, of a tail call and of the program are `Return`; every failure is
`Fail` where it is met, and unwinding it is hidden, as is the
work on the value stack.  The invariant needed is `IInv` before and after the step.

`HashMap_proofs` proves `TypeOK`, `ProbeSound`, `CountersExact`, `EmptySlotRemains`, `LookupExact`
and `ImplementsKeyedMap` for every set of keys and values, every hash function and
every initial capacity that `HashMapAssumption` allows.  The probe ends where
the distance from the home of its key is least, so that it is found by the least number
principle, without induction over the walk (`WalkFirst`, `ProbeEnds`).  `IInv` adds to
the properties

- `CallInv`: what the call in progress holds at each label;
- `LoadInv`: entries and tombstones fill at most three quarters of the table, with
  one more at `place`; this is where the empty slot comes from.  `GrownFits` shows
  on the way that one doubling is always enough: the loop in `ensure_capacity` never
  doubles twice;
- `RebuildInv`: the new table has no tombstones and room for what is still in
  the old one, the entries behind the cursor have been moved, and no key is in both.

The refinement maps the pairs of both tables to the content of `KeyedMap`, so that
`MoveEntry`, `FinishRebuild` and the failures between are hidden.

`FfiCallbacks_proofs` proves `TypeOK`, `RuntimeOpenWhileRunning`, `ClosureCountsExact` (until
an update of a count is lost) and
`RegisteredCanRun` for every number of slots, closures and runtimes and of script and foreign
threads, finitely many (`FfiAssumption`).  Its `IInv` adds

- `CountsType`: the types of the counts and of an update that is half done;
- `Locals`: at which labels a call holds a closure, a slot or a runtime;
- `RuntimeInv`: `active` is the number of invocations that run, these have the
  current runtime, and a runtime that is being closed was taken out of `current`,
  by one thread: a runtime is only taken at count 0, so no invocation has it;
- `SlotInv`: unless disturbed, a registration owns its slot alone, the slot has
  a closure only between `set` and `count`, and the runtime it has ensured stays.

`UpdateMeans` is what the two-step counts come down to: an update that is not lost, with none lost
before, changes the count by the reference that is added and the one that is given up, because
what was read is still there.  Slots, calls and scripts that use a closure change by one per step
(`SlotChanges`, `CallChanges`, from `CountOfValue` in
`SetLemmas`); the sums follow by arithmetic, once for a change of a slot (`UpdateSlot`), of a call
(`UpdateCall`) and for the four ways a call gives its closure up (`GiveUpClosure`).

`Debugger_proofs` proves `TypeOK`, `CallbackSeesOwnVm`, `RegistryLive` and
`CrashNeedsSwitchOrDetach` for every number of threads, lines, frames and breakpoints,
from `DebuggerAssumption`: breakpoint slots are numbered without a gap, and every
thread has room for a frame.  Its `IInv` adds

- `PcInv`: which labels main and the spawned threads go through, and that main
  is alone before it attaches;
- `HookInv`: from `Attach` to `DetachRuntime` the runtime has the hook, and so has each VM that
  is registered *or is being opened*.  Without the latter a VM could be registered
  without the hook it should have copied;
- `CallbackInv`: the thread in the callback is the owner of the pause mutex, hence the
  only one.  A debugger that reads freed VMs needs a switch because `current` is otherwise
  the thread's own VM;
- `PointInv`, `OutdatedInv`: the first free slot is at most the capacity, since those below it
  are in use; a thread that scans a replaced array is another one than that which
  sets the breakpoint, so one of the two is a spawned thread.

`RunKeeps`, `LifeKeeps` and the lemmas next to them say what a step leaves alone; there is a
lemma for each action, or for a few that move a thread in the same way.

`RefHeap_proofs` proves `TypeOK`, `CountsExact`, `NothingReachableFreed`, `GarbageExact` and
`CollectLeavesNodesLive` for every finite set of objects and every width of each of them,
from `RefHeapAssumption`.  Its `IInv` says that until an update is lost the counts are
exact (`Balanced`), live objects refer to live ones only and freed ones to nothing (`Linked`),
and the other thread holds a reference of the object it updates (`OtherHolds`).  `Linked`
is what makes a freed address safe to hand out again: nobody refers to it.  The steps are

- sequences: what an insertion, a removal or a store does to the number of times an object
  occurs in the slots of another (`OccursInserted`, `OccursStore`);
- references: counts over disjoint sets of holders add up (`RefsSplit`, `RefsUpdate`);
- least sets: `Reach` is closed and inside every closed set, `Destroyed` empties each of its
  members and no other object (`DestroyedEmptied`, `DestroyedStable`);
- `ReleaseKeeps`: a release keeps the heap balanced if each count is what is held plus
  what is given up, or all that is left of it is given up (`Owes`).  Every operation
  that releases is an instance: let, set, remove, clear, the decrement of the other thread, and the
  collection, whose garbage is the second case after the cut;
- the collector: `GarbageMeans` (garbage is held by garbage only), `GarbageReach` (both inclusions
  between trial deletion and reachability), and `GoneBounded`: what a collection destroys is garbage
  or reached from it outside the tracked set.

Every inductive invariant was first checked by TLC on the instance of the
component's run.  Checked by TLC only: the liveness properties (they need
fairness) and all of `Regex`, which uses recursive operators over expressions and lists of
states: statements about them are inductions over data.

## Not modelled, and plan

`PROJECT.json` lists every component.  Compiler, back ends, formats, text and
tools are pure translations or I/O.  Of the modelled components these parts are
left out: function tables and globals, immortal objects and the order of items in
arrays (`value.c`); libraries and signatures of the FFI, `unsafe.cb_alloc` and
atomic cells; the text of patterns and replacements and the cache of compiled
patterns, which threads share without a lock; inspection of locals in the
debugger; the contents of registers and the operands of instructions.

Planned, in this order:

1. the regex cache and atomic cells: tables whose entries are used after the unlock;
2. `Dap`: the request loop composed with `Debugger`;
3. `MapIteration`: for-in over a live `HashMap`, and pointers kept across a set.
