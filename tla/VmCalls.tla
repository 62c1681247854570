------------------------------- MODULE VmCalls -------------------------------
(***************************************************************************)
(* Calls, returns, tail calls and deferred calls of the register VM        *)
(* (src/regvm.c), and the nested execution of src/vm.c they fall back on.  *)
(*                                                                         *)
(* A call is made in one of two ways.  Inline: a frame is pushed and the   *)
(* same dispatch loop goes on in the callee.  Nested: vigil_vm_execute_call*)
(* pushes a frame and runs a new dispatch loop on the C stack.  A loop     *)
(* remembers the frame count it started with; the RETURN of a frame above  *)
(* that count goes on in the loop, the RETURN of its first frame ends it.  *)
(*                                                                         *)
(* execs is the C stack of dispatch loops, each with that frame count and  *)
(* the site that started it.  frames[i] holds the deferred calls of frame  *)
(* i.  Values and code are left out: in "run", the code of the last frame  *)
(* may do anything.                                                        *)
(*                                                                         *)
(* A loop reads its registers through a pointer into vm->stack (R), which  *)
(* any push or call may move; regs says whether the pointer of a loop was  *)
(* loaded after the last move.                                             *)
(***************************************************************************)
EXTENDS Integers, Sequences, FiniteSets, SequencesExt

CONSTANTS
  InitialFrames,  \* VIGIL_VM_INITIAL_FRAME_CAPACITY
  MaxFrames,      \* bound: frames a program nests
  MaxDefers       \* bound: calls a program defers

ASSUME VmCallsAssumption ==
  /\ InitialFrames \in Nat \ {0}
  /\ MaxFrames \in Nat \ {0}
  /\ MaxDefers \in Nat

VARIABLES
  frames,     \* vm->frames[0 .. frame_count - 1]: the pending defers of each
  capacity,   \* vm->frame_capacity
  execs,      \* the dispatch loops on the C stack: [initial, site, regs]
  mode,       \* what the innermost of them does
  ran,        \* deferred calls that have been started, in order
  deferCount, \* deferred calls are numbered in the order of their DEFER
  abandoned,  \* deferred calls of a frame that has made a tail call
  cleared,    \* deferred calls whose values were released without a call
  lost        \* deferred calls whose memory no frame owns any more

accounts == <<deferCount, abandoned, cleared, lost>>
vars == <<frames, capacity, execs, mode, ran, accounts>>

\* The innermost dispatch loop; what the last frame has deferred.
Top     == Last(execs)
Pending == Last(frames)
Ids(s)  == {s[i] : i \in DOMAIN s}
SetPending(ds) == [frames EXCEPT ![Len(frames)] = ds]

\* The frame array is never written past its end.
TypeOK ==
  /\ frames \in Seq(Seq(1 .. MaxDefers)) /\ Len(frames) <= MaxFrames
  /\ capacity \in Nat /\ Len(frames) <= capacity
  /\ \A i \in DOMAIN execs :
       execs[i] \in [initial : 1 .. MaxFrames,
                     site : {"top", "call", "tail", "deferred"},
                     regs : {"current", "stale"}]
  /\ mode \in {"idle", "run", "drain", "return", "tailed", "tailfail", "fail", "error"}
  /\ ran \in Seq(1 .. MaxDefers)
  /\ deferCount \in 0 .. MaxDefers
  /\ abandoned \cup cleared \cup lost \subseteq 1 .. MaxDefers

\* Every loop has an old pointer; the innermost one loads it again.
Moved(es)  == [i \in DOMAIN es |-> [es[i] EXCEPT !.regs = "stale"]]
Loaded(es) == [es EXCEPT ![Len(es)] = [@ EXCEPT !.regs = "current"]]
MayMove    == {execs, Moved(execs)}

Init ==
  /\ frames = <<>>
  /\ capacity = InitialFrames
  /\ execs = <<>>
  /\ mode = "idle"
  /\ ran = <<>>
  /\ deferCount = 0 /\ abandoned = {} /\ cleared = {} /\ lost = {}

\* vigil_vm_execute_function: frames are cleared, one is pushed.
Execute ==
  /\ mode \in {"idle", "error"}
  /\ frames' = << <<>> >>
  /\ execs' = << [initial |-> 1, site |-> "top", regs |-> "current"] >>
  /\ mode' = "run"
  /\ ran' = <<>>
  /\ deferCount' = 0 /\ abandoned' = {} /\ cleared' = {} /\ lost' = {}
  /\ UNCHANGED capacity
------------------------------------------------------------------------------
(***************************************************************************)
(* Faulty variants of definitions below, one for each property.            *)
(***************************************************************************)
MutantInline == Len(frames) >= Top.initial  \* off by one

MutantInlineCall ==  \* into a full frame array
  /\ mode = "run" /\ Len(frames) < MaxFrames
  /\ frames' = Append(frames, <<>>)
  /\ UNCHANGED <<capacity, execs, mode, ran, accounts>>

MutantReturnInline ==  \* the fast path does not look for deferred calls
  /\ mode = "run" /\ Len(frames) > Top.initial
  /\ frames' = Front(frames)
  /\ UNCHANGED <<capacity, execs, mode, ran, accounts>>

MutantDrainNativeFifo ==  \* the first deferred call runs first
  /\ mode = "drain" /\ Pending # <<>>
  /\ ran' = Append(ran, Head(Pending))
  /\ frames' = SetPending(Tail(Pending))
  /\ mode' \in {"drain", "fail"}
  /\ UNCHANGED <<capacity, execs, accounts>>

MutantDrainNativeKeeps ==  \* the call stays with the frame until it is done
  /\ mode = "drain" /\ Pending # <<>>
  /\ ran' = Append(ran, Last(Pending))
  /\ \/ mode' = "drain" /\ frames' = SetPending(Front(Pending))
     \/ mode' = "fail"  /\ frames' = frames
  /\ UNCHANGED <<capacity, execs, accounts>>

MutantTailFails ==  \* the status of the call is not tested
  /\ mode = "tailfail"
  /\ mode' = "run"
  /\ UNCHANGED <<frames, capacity, execs, ran, accounts>>

MutantLoopReturns ==  \* the pointer to the registers is kept over a call
  /\ mode = "return" /\ Top.site # "top"
  /\ frames' = Front(frames)
  /\ cleared' = cleared \cup Ids(Pending)
  /\ execs' = Front(execs)
  /\ mode' = CASE Top.site = "call" -> "run"
               [] Top.site = "deferred" -> "drain"
               [] Top.site = "tail" -> "tailed"
  /\ UNCHANGED <<capacity, ran, deferCount, abandoned, lost>>
------------------------------------------------------------------------------
(***************************************************************************)
(* Calls.                                                                  *)
(***************************************************************************)

\* CALL and CALL_SELF while the frame array has room.
InlineCall ==
  /\ mode = "run" /\ Len(frames) < MaxFrames
  /\ Len(frames) < capacity
  /\ frames' = Append(frames, <<>>)
  /\ execs' \in {Loaded(es) : es \in MayMove}
  /\ UNCHANGED <<capacity, mode, ran, accounts>>

\* CALL_NATIVE, and every instruction that works on vm->stack.
NativeCall ==
  /\ mode = "run"
  /\ execs' = Loaded(Moved(execs))
  /\ UNCHANGED <<frames, capacity, mode, ran, accounts>>

\* vigil_vm_push_frame: the array grows by doubling.
Grown(fs) == IF Len(fs) < capacity THEN capacity ELSE 2 * capacity

\* vigil_vm_execute_call: a frame and a new dispatch loop.
Nest(site, fs) ==
  /\ frames' = Append(fs, <<>>)
  /\ capacity' = Grown(fs)
  /\ execs' \in {Append(es, [initial |-> Len(fs) + 1, site |-> site,
                             regs |-> "current"]) : es \in MayMove}
  /\ mode' = "run"

\* CALL and CALL_SELF with a full array, CALL_VALUE and CALL_INTERFACE always.
NestedCall ==
  /\ mode = "run" /\ Len(frames) < MaxFrames
  /\ Nest("call", frames)
  /\ UNCHANGED <<ran, accounts>>

\* TAIL_CALL: nested too, and the frame's deferred calls are not looked at.
TailCall ==
  /\ mode = "run" /\ Len(frames) < MaxFrames
  /\ Nest("tail", frames)
  /\ abandoned' = abandoned \cup Ids(Pending)
  /\ UNCHANGED <<ran, deferCount, cleared, lost>>

\* An instruction fails, perhaps after it has moved the stack; or a call does
\* before there is a frame for the callee.
Fail ==
  /\ mode = "run"
  /\ mode' = "fail"
  /\ execs' \in MayMove
  /\ UNCHANGED <<frames, capacity, ran, accounts>>

\* execute_call fails after the push, in the translation of the callee or the
\* growth of the stack: its frame is left behind.
LeaveFrame(fs) ==
  /\ frames' = Append(fs, <<>>)
  /\ capacity' = Grown(fs)

FailInCall ==
  /\ mode = "run" /\ Len(frames) < MaxFrames
  /\ LeaveFrame(frames)
  /\ execs' \in {Loaded(es) : es \in MayMove}
  /\ \/ mode' = "fail" /\ UNCHANGED abandoned
     \/ mode' = "tailfail" /\ abandoned' = abandoned \cup Ids(Pending)
  /\ UNCHANGED <<ran, deferCount, cleared, lost>>

\* TAIL_CALL fails before there is a frame for the callee: it has no chunk,
\* or vigil_vm_push_frame has no memory.
FailInTail ==
  /\ mode = "run"
  /\ mode' = "tailfail"
  /\ execs' \in {Loaded(es) : es \in MayMove}
  /\ abandoned' = abandoned \cup Ids(Pending)
  /\ UNCHANGED <<frames, capacity, ran, deferCount, cleared, lost>>

\* DEFER.
Defer ==
  /\ mode = "run" /\ deferCount < MaxDefers
  /\ deferCount' = deferCount + 1
  /\ frames' = SetPending(Append(Pending, deferCount + 1))
  /\ UNCHANGED <<capacity, execs, mode, ran, abandoned, cleared, lost>>
------------------------------------------------------------------------------
(***************************************************************************)
(* RETURN and regvm_drain_defers.                                          *)
(***************************************************************************)
Inline == Len(frames) > Top.initial

\* The fast path.
ReturnInline ==
  /\ mode = "run" /\ Pending = <<>> /\ Inline
  /\ frames' = Front(frames)
  /\ execs' = Loaded(execs)
  /\ UNCHANGED <<capacity, mode, ran, accounts>>

ReturnSlow ==
  /\ mode = "run" /\ ~ (Pending = <<>> /\ Inline)
  /\ mode' = "drain"
  /\ UNCHANGED <<frames, capacity, execs, ran, accounts>>

\* The action leaves the frame before its call starts.
DrainNative ==
  /\ mode = "drain" /\ Pending # <<>>
  /\ ran' = Append(ran, Last(Pending))
  /\ frames' = SetPending(Front(Pending))
  /\ mode' \in {"drain", "fail"}
  /\ execs' \in MayMove
  /\ UNCHANGED <<capacity, accounts>>

DrainCall ==
  /\ mode = "drain" /\ Pending # <<>> /\ Len(frames) < MaxFrames
  /\ ran' = Append(ran, Last(Pending))
  /\ Nest("deferred", SetPending(Front(Pending)))
  /\ UNCHANGED accounts

\* Its execute_call fails (see FailInCall).
DrainCallFails ==
  /\ mode = "drain" /\ Pending # <<>> /\ Len(frames) < MaxFrames
  /\ ran' = Append(ran, Last(Pending))
  /\ LeaveFrame(SetPending(Front(Pending)))
  /\ mode' = "fail"
  /\ execs' \in MayMove
  /\ UNCHANGED accounts

\* Its values find no room on the stack: they are freed, not released.
DrainPushFails ==
  /\ mode = "drain" /\ Pending # <<>>
  /\ frames' = SetPending(Front(Pending))
  /\ lost' = lost \cup {Last(Pending)}
  /\ mode' = "fail"
  /\ execs' \in MayMove
  /\ UNCHANGED <<capacity, ran, deferCount, abandoned, cleared>>

\* Nothing left to run: pop an inline frame, or leave the dispatch loop,
\* which then releases its registers through R as it is.
DrainDone ==
  /\ mode = "drain" /\ Pending = <<>>
  /\ \/ Inline /\ frames' = Front(frames) /\ execs' = Loaded(execs)
        /\ mode' = "run"
     \/ ~ Inline /\ mode' = "return" /\ UNCHANGED <<frames, execs>>
  /\ UNCHANGED <<capacity, ran, accounts>>
------------------------------------------------------------------------------
(***************************************************************************)
(* The end of a dispatch loop.  vigil_vm_execute_call pops the last frame, *)
(* whichever that is, and vigil_vm_pop_frame releases what is deferred.    *)
(***************************************************************************)
PopFrame ==
  /\ frames' = Front(frames)
  /\ cleared' = cleared \cup Ids(Pending)

\* A call loads the pointer again, the drain of deferred calls does not.
EndLoop ==
  execs' = IF Top.site = "deferred" THEN Front(execs) ELSE Loaded(Front(execs))

\* The loop ended well: on with the code after the call, with the next
\* deferred call, or with the rest of TAIL_CALL.
LoopReturns ==
  /\ mode = "return" /\ Top.site # "top"
  /\ PopFrame
  /\ EndLoop
  /\ mode' = CASE Top.site = "call" -> "run"
               [] Top.site = "deferred" -> "drain"
               [] Top.site = "tail" -> "tailed"
  /\ UNCHANGED <<capacity, ran, deferCount, abandoned, lost>>

\* TAIL_CALL ends its own frame: an inline one by the frame count alone.
\* The frame that began a loop is left to the caller of the loop.
EndInline(next) ==
  /\ Inline
  /\ frames' = Front(frames)
  /\ lost' = lost \cup Ids(Pending)
  /\ mode' = next
  /\ execs' = Loaded(execs)
  /\ UNCHANGED <<capacity, ran, deferCount, abandoned, cleared>>

TailReturns ==
  \/ mode = "tailed" /\ EndInline("run")
  \/ /\ mode = "tailed" /\ ~ Inline
     /\ mode' = "return"
     /\ UNCHANGED <<frames, capacity, execs, ran, accounts>>

\* The loop failed: so does the one that started it; a TAIL_CALL first takes
\* one more frame off.
LoopFails ==
  /\ mode = "fail" /\ Top.site # "top"
  /\ PopFrame
  /\ EndLoop
  /\ mode' = IF Top.site = "tail" THEN "tailfail" ELSE "fail"
  /\ UNCHANGED <<capacity, ran, deferCount, abandoned, lost>>

TailFails ==
  \/ mode = "tailfail" /\ EndInline("fail")
  \/ /\ mode = "tailfail" /\ ~ Inline
     /\ mode' = "fail"
     /\ UNCHANGED <<frames, capacity, execs, ran, accounts>>

\* The first loop ended: vigil_vm_execute_function clears every frame.
Finish ==
  /\ mode \in {"return", "fail"} /\ Top.site = "top"
  /\ frames' = <<>>
  /\ cleared' = cleared \cup UNION {Ids(frames[i]) : i \in DOMAIN frames}
  /\ execs' = <<>>
  /\ mode' = IF mode = "return" THEN "idle" ELSE "error"
  /\ UNCHANGED <<capacity, ran, deferCount, abandoned, lost>>
------------------------------------------------------------------------------
Work ==
  \/ ReturnInline \/ ReturnSlow
  \/ DrainNative \/ DrainCall \/ DrainCallFails \/ DrainPushFails \/ DrainDone
  \/ LoopReturns \/ TailReturns \/ LoopFails \/ TailFails \/ Finish

Next ==
  \/ Execute
  \/ InlineCall \/ NativeCall \/ NestedCall \/ TailCall
  \/ Fail \/ FailInCall \/ FailInTail \/ Defer
  \/ Work

Spec == Init /\ [][Next]_vars

\* The VM is a sequential program: it goes on until the run has ended.
FairSpec == Spec /\ WF_vars(Work)
------------------------------------------------------------------------------
(***************************************************************************)
(* Properties.                                                             *)
(***************************************************************************)
Ended == mode \in {"idle", "error"}

\* The frames of each dispatch loop lie above those of the loop that started
\* it, in every state, also while a failure is on its way out: so
\* vm->frames[frame_count - 1] exists wherever it is read, and after a
\* call that succeeded it is the frame that made the call.
LoopsOwnFrames ==
  ~ Ended =>
    /\ execs[1].initial = 1
    /\ \A i \in 2 .. Len(execs) : execs[i].initial > execs[i - 1].initial
    /\ Len(frames) >= Top.initial
    /\ mode = "return" => Len(frames) = Top.initial

\* Each deferred call is in one place: waiting in the frame that registered
\* it, started, or given up; so none runs twice, none has its values released
\* while it may still run, and no two frames share one.
DefersAccountedFor ==
  LET waiting == UNION {Ids(frames[i]) : i \in DOMAIN frames}
  IN /\ waiting \cup Ids(ran) \cup cleared \cup lost = 1 .. deferCount
     /\ waiting \cap Ids(ran) = {}
     /\ (waiting \cup Ids(ran)) \cap (cleared \cup lost) = {}
     /\ Len(ran) + Cardinality(waiting \cup cleared \cup lost) = deferCount

\* A program that succeeds has run every deferred call except those its tail
\* calls gave up.  Without a failure the memory of no other is lost; a
\* failure may leave a frame behind (see FailInCall), and lose more.
OnlyTailCallsDrop ==
  /\ mode = "idle" => 1 .. deferCount \subseteq Ids(ran) \cup abandoned
  /\ mode \notin {"fail", "tailfail", "error"} => lost \subseteq abandoned

\* Whatever moves the value stack, in whichever of the nested loops, code
\* that goes on has the registers of its own frame.  The release of the
\* registers at the end of a loop (r_cleanup) has them too, except in two
\* cases: deferred calls have been run, or an instruction failed.
RegistersCurrent ==
  /\ mode \in {"run", "tailed", "tailfail"} => Top.regs = "current"
  /\ mode = "return" /\ Top.regs = "stale" => ran # <<>>

\* Whichever way each call is made, the VM is the plain stack of CallStack.
Site(i) ==
  IF \E e \in DOMAIN execs : execs[e].initial = i
    THEN execs[CHOOSE e \in DOMAIN execs : execs[e].initial = i].site
    ELSE "call"

\* A frame that waits for a tail call, or has finished one, has no defers.
GaveUp(i) ==
  \/ i < Len(frames) /\ Site(i + 1) = "tail"
  \/ i = Len(frames) /\ mode \in {"tailed", "return"}

Live == IF mode \in {"idle", "error", "fail", "tailfail"} THEN <<>> ELSE frames

Kinds   == [i \in DOMAIN Live |-> Site(i)]
Waiting == [i \in DOMAIN Live |-> IF GaveUp(i) THEN <<>> ELSE Live[i]]

Status ==
  CASE mode = "idle" -> "done"
    [] mode \in {"fail", "tailfail", "error"} -> "failed"
    [] mode = "run" -> "running"
    [] OTHER -> "leaving"

Plain == INSTANCE CallStack WITH
           Deferrable <- 1 .. MaxDefers,
           kinds <- Kinds, waiting <- Waiting, status <- Status

ImplementsCallStack == Plain!Spec

\* A failure reaches the caller of vigil_vm_execute_function, with every
\* frame gone.
FailureEnds == (mode = "fail") ~> (mode = "error" /\ frames = <<>>)

\* docs/syntax.md:556, "defer schedules a function call to run when the
\* enclosing function returns".
DefersRunOnReturn ==
  mode = "idle" => 1 .. deferCount \subseteq Ids(ran)
==============================================================================
