--------------------------- MODULE VmCalls_proofs ---------------------------
(***************************************************************************)
(* Proofs about the calls of the register VM, for every capacity and every *)
(* number of frames and deferred calls: type correctness, the discipline   *)
(* of frame counts, the pointers to the registers, what becomes of the     *)
(* deferred calls, and the refinement of CallStack.                        *)
(***************************************************************************)
EXTENDS VmCalls, SetLemmas, SequenceTheorems

Exec == [initial : 1 .. MaxFrames,
         site : {"top", "call", "tail", "deferred"},
         regs : {"current", "stale"}]

\* The first loop is the only one that no other has started, and each starts
\* above the frames of the one below.
Nested(es) ==
  /\ es[1].site = "top" /\ es[1].initial = 1
  /\ \A i \in 2 .. Len(es) :
       es[i].site # "top" /\ es[i].initial > es[i - 1].initial

\* Two stacks of loops that differ in the register pointers only.
SameLoops(es, fs) ==
  /\ es \in Seq(Exec) /\ Len(es) = Len(fs)
  /\ \A i \in 1 .. Len(es) : es[i].initial = fs[i].initial /\ es[i].site = fs[i].site

FrameInv ==
  /\ frames \in Seq(Seq(1 .. MaxDefers)) /\ Len(frames) <= MaxFrames
  /\ capacity \in Nat \ {0} /\ Len(frames) <= capacity

AccountInv ==
  /\ mode \in {"idle", "run", "drain", "return", "tailed", "tailfail", "fail", "error"}
  /\ ran \in Seq(1 .. MaxDefers)
  /\ deferCount \in 0 .. MaxDefers
  /\ abandoned \cup cleared \cup lost \subseteq 1 .. MaxDefers

\* A loop runs on the frames from its first one up.
LoopInv ==
  ~ Ended =>
    /\ execs # <<>> /\ Nested(execs)
    /\ Len(frames) >= Top.initial
    /\ mode = "return" => Len(frames) = Top.initial

\* Only the drain of deferred calls leaves an old pointer with a loop that
\* has not failed, and then one of them has been started.
PointerInv ==
  /\ mode \in {"run", "tailed", "tailfail"} => Top.regs = "current"
  /\ mode \in {"drain", "return"} /\ Top.regs = "stale" => ran # <<>>
  /\ \A i \in 1 .. Len(execs) : execs[i].site = "deferred" => ran # <<>>

IInv ==
  /\ FrameInv
  /\ AccountInv
  /\ execs \in Seq(Exec)
  /\ LoopInv
  /\ PointerInv
------------------------------------------------------------------------------
USE VmCallsAssumption

(***************************************************************************)
(* Sequences.                                                              *)
(***************************************************************************)

\* What Front and Last are, element by element.
LEMMA FrontLast ==
  ASSUME NEW S, NEW s \in Seq(S), s # <<>>
  PROVE  /\ Front(s) \in Seq(S)
         /\ Len(s) \in Nat \ {0}
         /\ Len(Front(s)) = Len(s) - 1
         /\ \A i \in 1 .. Len(s) - 1 : Front(s)[i] = s[i]
         /\ Last(s) = s[Len(s)] /\ Last(s) \in S
<1>1. Len(s) \in Nat \ {0}
  BY EmptySeq, LenProperties
<1>2. /\ SubSeq(s, 1, Len(s) - 1) \in Seq(S)
      /\ Len(SubSeq(s, 1, Len(s) - 1)) = Len(s) - 1
      /\ \A i \in 1 .. Len(s) - 1 : SubSeq(s, 1, Len(s) - 1)[i] = s[i]
  <2> DEFINE n == Len(s) - 1
  <2>1. n \in Nat
    BY <1>1
  <2>2. \A i \in 1 .. n : s[i] \in S
    BY <1>1, ElementOfSeq
  <2> HIDE DEF n
  <2>3. /\ SubSeq(s, 1, n) \in Seq(S)
        /\ Len(SubSeq(s, 1, n)) = IF 1 <= n THEN n - 1 + 1 ELSE 0
        /\ \A i \in 1 .. n - 1 + 1 : SubSeq(s, 1, n)[i] = s[1 + i - 1]
    BY <2>1, <2>2, SubSeqProperties
  <2>4. /\ n = IF 1 <= n THEN n - 1 + 1 ELSE 0
        /\ \A i \in 1 .. n : i \in 1 .. n - 1 + 1 /\ 1 + i - 1 = i
    BY <2>1
  <2> QED
    BY <2>1, <2>3, <2>4 DEF n
<1>3. s[Len(s)] \in S
  BY <1>1, ElementOfSeq
<1> QED
  BY <1>1, <1>2, <1>3 DEF Front, Last

\* A loop with another pointer is the same loop.
LEMMA RegsOnly ==
  ASSUME NEW e \in Exec, NEW r \in {"current", "stale"}
  PROVE  /\ [e EXCEPT !.regs = r] \in Exec
         /\ [e EXCEPT !.regs = r].initial = e.initial
         /\ [e EXCEPT !.regs = r].site = e.site
         /\ [e EXCEPT !.regs = r].regs = r
  BY DEF Exec

\* Moving the value stack, and loading the pointer, keep the loops.
LEMMA MovedSame ==
  ASSUME NEW es \in Seq(Exec)
  PROVE  /\ SameLoops(Moved(es), es)
         /\ \A i \in 1 .. Len(es) : Moved(es)[i].regs = "stale"
<1>1. DOMAIN es = 1 .. Len(es) /\ Len(es) \in Nat
  BY LenProperties
<1>2. \A i \in 1 .. Len(es) : es[i] \in Exec
  BY ElementOfSeq
<1>3. \A i \in 1 .. Len(es) :
        /\ Moved(es)[i] \in Exec
        /\ Moved(es)[i].initial = es[i].initial
        /\ Moved(es)[i].site = es[i].site
        /\ Moved(es)[i].regs = "stale"
  <2> TAKE i \in 1 .. Len(es)
  <2>1. Moved(es)[i] = [es[i] EXCEPT !.regs = "stale"]
    BY <1>1 DEF Moved
  <2>2. es[i] \in Exec
    BY <1>2
  <2> QED
    BY <2>1, <2>2, RegsOnly
<1>4. Moved(es) = [i \in 1 .. Len(es) |-> Moved(es)[i]]
  BY <1>1 DEF Moved
<1>5. Moved(es) \in Seq(Exec) /\ Len(Moved(es)) = Len(es)
  BY <1>1, <1>3, <1>4, IsASeq, LenProperties
<1> QED
  BY <1>3, <1>5 DEF SameLoops

LEMMA LoadedSame ==
  ASSUME NEW es \in Seq(Exec), es # <<>>
  PROVE  /\ SameLoops(Loaded(es), es)
         /\ Loaded(es)[Len(es)].regs = "current"
<1>1. Len(es) \in 1 .. Len(es)
  BY EmptySeq, LenProperties
<1>2. \A i \in 1 .. Len(es) : es[i] \in Exec
  BY ElementOfSeq
<1> DEFINE f == [es[Len(es)] EXCEPT !.regs = "current"]
<1>3. f \in Exec /\ f.initial = es[Len(es)].initial /\ f.site = es[Len(es)].site
      /\ f.regs = "current"
  BY <1>1, <1>2, RegsOnly
<1>4. Loaded(es) = [es EXCEPT ![Len(es)] = f]
  BY DEF Loaded
<1> HIDE DEF f
<1>5. /\ Loaded(es) \in Seq(Exec) /\ Len(Loaded(es)) = Len(es)
      /\ \A i \in 1 .. Len(es) : Loaded(es)[i] = IF i = Len(es) THEN f ELSE es[i]
  BY <1>1, <1>3, <1>4, ExceptSeq
<1> QED
  BY <1>1, <1>3, <1>5 DEF SameLoops

\* A stack that differs in the pointers only has the same shape.
LEMMA SameNested ==
  ASSUME NEW es \in Seq(Exec), es # <<>>, NEW fs, SameLoops(fs, es)
  PROVE  /\ fs \in Seq(Exec) /\ fs # <<>>
         /\ Last(fs).initial = Last(es).initial /\ Last(fs).site = Last(es).site
         /\ Nested(es) => Nested(fs)
<1>1. Len(es) \in Nat \ {0} /\ Len(<<>>) = 0
  BY EmptySeq
<1>2. fs \in Seq(Exec) /\ Len(fs) = Len(es)
      /\ \A i \in 1 .. Len(es) : fs[i].initial = es[i].initial /\ fs[i].site = es[i].site
  BY DEF SameLoops
<1>3. 1 \in 1 .. Len(es) /\ Len(es) \in 1 .. Len(es)
      /\ \A i \in 2 .. Len(es) : i \in 1 .. Len(es) /\ i - 1 \in 1 .. Len(es)
  BY <1>1
<1> QED
  BY <1>1, <1>2, <1>3 DEF Last, Nested

\* Whether the value stack moves or not.
LEMMA MayMoveSame ==
  ASSUME execs \in Seq(Exec), execs # <<>>, NEW es \in MayMove
  PROVE  /\ SameLoops(es, execs)
         /\ SameLoops(Loaded(es), execs)
         /\ Last(Loaded(es)).regs = "current"
<1>1. SameLoops(execs, execs)
  BY DEF SameLoops
<1>2. SameLoops(es, execs)
  BY <1>1, MovedSame DEF MayMove
<1>3. es \in Seq(Exec) /\ es # <<>>
  BY <1>2, SameNested
<1>4. SameLoops(Loaded(es), es) /\ Loaded(es)[Len(es)].regs = "current"
  BY <1>3, LoadedSame
<1> QED
  BY <1>2, <1>4 DEF SameLoops, Last
------------------------------------------------------------------------------
(***************************************************************************)
(* What the steps have in common.                                          *)
(***************************************************************************)

\* While the VM runs there are a loop and a frame.
LEMMA Running ==
  ASSUME IInv, ~ Ended
  PROVE  /\ execs # <<>> /\ Top \in Exec /\ Top.initial \in Nat \ {0}
         /\ Len(frames) \in Nat \ {0} /\ frames # <<>>
         /\ Pending \in Seq(1 .. MaxDefers)
         /\ Front(frames) \in Seq(Seq(1 .. MaxDefers))
         /\ Len(Front(frames)) = Len(frames) - 1
<1>1. execs # <<>> /\ execs \in Seq(Exec) /\ Len(frames) >= Top.initial
      /\ frames \in Seq(Seq(1 .. MaxDefers))
  BY DEF IInv, LoopInv, FrameInv
<1>2. Top \in Exec
  BY <1>1, FrontLast DEF Top
<1>3. Top.initial \in Nat \ {0}
  BY <1>2 DEF Exec
<1>4. Len(frames) \in Nat \ {0}
  BY <1>1, <1>3, LenProperties
<1>5. frames # <<>>
  BY <1>4, EmptySeq
<1> QED
  BY <1>1, <1>2, <1>3, <1>4, <1>5, FrontLast DEF Pending

\* Changing what the last frame has deferred.
LEMMA SetPendingFrames ==
  ASSUME IInv, ~ Ended, NEW ds \in Seq(1 .. MaxDefers)
  PROVE  SetPending(ds) \in Seq(Seq(1 .. MaxDefers)) /\ Len(SetPending(ds)) = Len(frames)
<1>1. frames \in Seq(Seq(1 .. MaxDefers)) /\ Len(frames) \in 1 .. Len(frames)
  BY Running DEF IInv, FrameInv
<1> QED
  BY <1>1, ExceptSeq DEF SetPending

\* What has been deferred are numbers of deferred calls.
LEMMA IdsType ==
  ASSUME NEW ds \in Seq(1 .. MaxDefers)
  PROVE  Ids(ds) \subseteq 1 .. MaxDefers
  BY LenProperties, ElementOfSeq DEF Ids

\* A step that keeps the loops may add frames, and may remove those above the
\* first frame of the last loop.
LEMMA KeepLoops ==
  ASSUME IInv, ~ Ended, SameLoops(execs', execs),
         Len(frames') >= Top.initial,
         mode' = "return" => Len(frames') = Top.initial
  PROVE  execs' \in Seq(Exec) /\ LoopInv'
<1>1. execs \in Seq(Exec) /\ execs # <<>> /\ Nested(execs)
  BY DEF IInv, LoopInv
<1>2. /\ execs' \in Seq(Exec) /\ execs' # <<>>
      /\ Last(execs').initial = Top.initial /\ Nested(execs')
  BY <1>1, SameNested DEF Top
<1> QED
  BY <1>2 DEF LoopInv, Top, Nested

\* The sites of the loops, when they are kept.
LEMMA KeepSites ==
  ASSUME IInv, SameLoops(execs', execs), ran' # <<>> \/ ran' = ran
  PROVE  \A i \in 1 .. Len(execs') : execs'[i].site = "deferred" => ran' # <<>>
  BY DEF IInv, PointerInv, SameLoops

\* A nested call.
LEMMA NestStep ==
  ASSUME IInv, ~ Ended, NEW site \in {"call", "tail", "deferred"},
         NEW fs \in Seq(Seq(1 .. MaxDefers)), Len(fs) = Len(frames),
         Len(fs) < MaxFrames, Nest(site, fs),
         ran' # <<>> \/ (ran' = ran /\ site # "deferred")
  PROVE  FrameInv' /\ execs' \in Seq(Exec) /\ LoopInv' /\ PointerInv'
<1>1. PICK es \in MayMove :
        execs' = Append(es, [initial |-> Len(fs) + 1, site |-> site, regs |-> "current"])
  BY DEF Nest
<1> DEFINE e == [initial |-> Len(fs) + 1, site |-> site, regs |-> "current"]
<1>2. execs \in Seq(Exec) /\ execs # <<>> /\ Nested(execs) /\ Len(frames) >= Top.initial
      /\ Top.initial \in Nat \ {0} /\ Len(frames) \in Nat \ {0}
  BY Running DEF IInv, LoopInv
<1>3. SameLoops(es, execs)
  BY <1>2, MayMoveSame
<1>4. es \in Seq(Exec) /\ es # <<>> /\ Nested(es) /\ Last(es).initial = Top.initial
  BY <1>2, <1>3, SameNested DEF Top
<1>5. e \in Exec /\ e.initial = Len(fs) + 1 /\ e.site = site /\ e.regs = "current"
  BY <1>2 DEF Exec
<1> HIDE DEF e
<1>6. /\ execs' \in Seq(Exec) /\ execs' # <<>> /\ Len(execs') = Len(es) + 1
      /\ \A i \in 1 .. Len(es) : execs'[i] = es[i]
      /\ execs'[Len(es) + 1] = e
  BY <1>1, <1>4, <1>5, AppendProperties DEF e
<1>7. Len(es) \in Nat \ {0}
  BY <1>4, EmptySeq
<1>8. /\ frames' \in Seq(Seq(1 .. MaxDefers)) /\ Len(frames') = Len(fs) + 1
  <2>1. <<>> \in Seq(1 .. MaxDefers) /\ frames' = Append(fs, <<>>)
    BY EmptySeq DEF Nest
  <2> QED
    BY <2>1, AppendProperties
<1>9. FrameInv'
  <2>1. capacity \in Nat \ {0} /\ Len(frames) <= capacity
    BY DEF IInv, FrameInv
  <2>2. capacity' \in Nat \ {0} /\ Len(fs) + 1 <= capacity'
    BY <2>1, <1>2 DEF Nest, Grown
  <2> QED
    BY <2>2, <1>2, <1>8 DEF FrameInv
<1>10. Last(execs') = e
  BY <1>6 DEF Last
<1>11. Nested(execs')
  <2>1. execs'[1] = es[1]
    BY <1>6, <1>7
  <2>2. ASSUME NEW i \in 2 .. Len(execs')
        PROVE  execs'[i].site # "top" /\ execs'[i].initial > execs'[i - 1].initial
    <3>1. CASE i \in 2 .. Len(es)
      <4> i \in 1 .. Len(es) /\ i - 1 \in 1 .. Len(es)
        BY <3>1, <1>7
      <4>1. execs'[i] = es[i] /\ execs'[i - 1] = es[i - 1]
        BY <1>6
      <4> QED
        BY <4>1, <3>1, <1>4 DEF Nested
    <3>2. CASE i = Len(es) + 1
      <4>1. execs'[i] = e /\ execs'[i - 1] = Last(es)
        BY <3>2, <1>6, <1>7 DEF Last
      <4> QED
        BY <4>1, <1>2, <1>4, <1>5
    <3> QED
      BY <3>1, <3>2, <1>6, <1>7
  <2> QED
    BY <2>1, <2>2, <1>4 DEF Nested
<1>12. LoopInv'
  BY <1>2, <1>5, <1>6, <1>8, <1>10, <1>11 DEF LoopInv, Nest, Top, Nested
<1>13. PointerInv'
  <2>1. ASSUME NEW i \in 1 .. Len(execs'), execs'[i].site = "deferred"
        PROVE  ran' # <<>>
    <3>1. CASE i \in 1 .. Len(es)
      BY <3>1, <2>1, <1>3, <1>6 DEF SameLoops, IInv, PointerInv
    <3>2. CASE i = Len(es) + 1
      BY <3>2, <2>1, <1>5, <1>6
    <3> QED
      BY <3>1, <3>2, <1>6, <1>7
  <2> QED
    BY <2>1, <1>5, <1>10 DEF PointerInv, Top, Nest
<1> QED
  BY <1>6, <1>9, <1>12, <1>13

\* The end of a nested loop, which takes the last frame with it.
LEMMA PopStep ==
  ASSUME IInv, ~ Ended, Top.site # "top", PopFrame, EndLoop,
         UNCHANGED <<capacity, ran, deferCount, abandoned, lost>>,
         mode' \in {"run", "drain", "tailed", "tailfail", "fail"},
         mode' \in {"run", "tailed", "tailfail"} => Top.site # "deferred",
         mode' = "drain" => Top.site = "deferred"
  PROVE  IInv'
<1> DEFINE below == Front(execs)
<1>1. execs \in Seq(Exec) /\ execs # <<>> /\ Nested(execs) /\ Len(frames) >= Top.initial
      /\ Top \in Exec /\ Top.initial \in Nat \ {0}
  BY Running DEF IInv, LoopInv
<1>2. /\ below \in Seq(Exec) /\ Len(execs) \in Nat \ {0} /\ Len(below) = Len(execs) - 1
      /\ \A i \in 1 .. Len(execs) - 1 : below[i] = execs[i]
      /\ Top = execs[Len(execs)]
  BY <1>1, FrontLast DEF Top
<1> HIDE DEF below
<1>3. Len(execs) >= 2
  <2>1. Len(execs) # 1
    BY <1>1, <1>2 DEF Nested
  <2> QED
    BY <2>1, <1>2
<1>4. below # <<>>
  BY <1>2, <1>3, EmptySeq
<1>5. Nested(below) /\ Top.initial > Last(below).initial /\ Last(below) \in Exec
  <2>1. below[1] = execs[1] /\ Last(below) = execs[Len(execs) - 1]
    BY <1>2, <1>3 DEF Last
  <2>2. \A i \in 2 .. Len(below) :
          i \in 2 .. Len(execs) /\ below[i] = execs[i] /\ below[i - 1] = execs[i - 1]
    <3> TAKE i \in 2 .. Len(below)
    <3>1. i \in 2 .. Len(execs) /\ i \in 1 .. Len(execs) - 1 /\ i - 1 \in 1 .. Len(execs) - 1
      BY <1>2
    <3> QED
      BY <3>1, <1>2
  <2>3. Top.initial > execs[Len(execs) - 1].initial
    BY <1>1, <1>2, <1>3 DEF Nested
  <2> QED
    BY <2>1, <2>2, <2>3, <1>1, <1>2, <1>4, FrontLast DEF Nested
<1>6. /\ execs' = below \/ execs' = Loaded(below)
      /\ Top.site # "deferred" => execs' = Loaded(below)
  BY DEF EndLoop, below
<1>7. SameLoops(execs', below) /\ (Top.site # "deferred" => Last(execs').regs = "current")
  <2>1. SameLoops(below, below)
    BY <1>2 DEF SameLoops
  <2>2. SameLoops(Loaded(below), below) /\ Last(Loaded(below)).regs = "current"
    BY <1>2, <1>4, LoadedSame DEF SameLoops, Last
  <2> QED
    BY <2>1, <2>2, <1>6
<1>8. /\ execs' \in Seq(Exec) /\ execs' # <<>> /\ Nested(execs')
      /\ Last(execs').initial = Last(below).initial
  BY <1>2, <1>4, <1>5, <1>7, SameNested
<1>9. /\ frames' \in Seq(Seq(1 .. MaxDefers)) /\ Len(frames) \in Nat \ {0}
      /\ Len(frames') = Len(frames) - 1
  BY Running DEF PopFrame
<1>10. FrameInv'
  BY <1>9 DEF IInv, FrameInv
<1>11. LoopInv'
  <2>1. Last(below).initial \in Nat
    BY <1>5 DEF Exec
  <2> QED
    BY <2>1, <1>1, <1>5, <1>8, <1>9 DEF LoopInv, Top, Nested
<1>12. AccountInv'
  <2>1. cleared' = cleared \cup Ids(Pending) /\ Ids(Pending) \subseteq 1 .. MaxDefers
    BY Running, IdsType DEF PopFrame
  <2> QED
    BY <2>1 DEF IInv, AccountInv
<1>13. PointerInv'
  <2>1. Top.site = "deferred" => ran # <<>>
    BY <1>2 DEF IInv, PointerInv
  <2>2. \A i \in 1 .. Len(execs') : execs'[i].site = "deferred" => ran' # <<>>
    <3> SUFFICES ASSUME NEW i \in 1 .. Len(execs'), execs'[i].site = "deferred"
                 PROVE  ran # <<>>
      OBVIOUS
    <3>1. i \in 1 .. Len(execs) - 1 /\ execs'[i].site = below[i].site
      BY <1>2, <1>7 DEF SameLoops
    <3>2. i \in 1 .. Len(execs) /\ execs[i].site = "deferred"
      BY <3>1, <1>2
    <3> QED
      BY <3>2 DEF IInv, PointerInv
  <2> QED
    BY <2>1, <2>2, <1>7 DEF PointerInv, Top
<1> QED
  BY <1>8, <1>10, <1>11, <1>12, <1>13 DEF IInv
------------------------------------------------------------------------------
(***************************************************************************)
(* The invariant.                                                          *)
(***************************************************************************)
LEMMA InitIInv == Init => IInv
<1> SUFFICES ASSUME Init PROVE IInv
  OBVIOUS
<1>1. frames = <<>> /\ execs = <<>> /\ ran = <<>> /\ mode = "idle"
  BY DEF Init
<1>2. /\ frames \in Seq(Seq(1 .. MaxDefers)) /\ Len(frames) = 0
      /\ execs \in Seq(Exec) /\ Len(execs) = 0
      /\ ran \in Seq(1 .. MaxDefers)
  BY <1>1, EmptySeq
<1>3. FrameInv /\ AccountInv
  BY <1>2 DEF Init, FrameInv, AccountInv
<1>4. LoopInv /\ PointerInv
  BY <1>1, <1>2 DEF LoopInv, PointerInv, Ended
<1> QED
  BY <1>2, <1>3, <1>4 DEF IInv

LEMMA ExecuteStep == IInv /\ Execute => IInv'
<1> SUFFICES ASSUME IInv, Execute PROVE IInv'
  OBVIOUS
<1> DEFINE e == [initial |-> 1, site |-> "top", regs |-> "current"]
<1>1. e \in Exec /\ execs' = Append(<<>>, e) /\ frames' = Append(<<>>, <<>>)
  BY DEF Execute, Exec
<1>2. /\ execs' \in Seq(Exec) /\ execs' # <<>> /\ Len(execs') = 1 /\ execs'[1] = e
      /\ frames' \in Seq(Seq(1 .. MaxDefers)) /\ Len(frames') = 1
  <2>1. /\ <<>> \in Seq(Exec) /\ <<>> \in Seq(1 .. MaxDefers)
        /\ <<>> \in Seq(Seq(1 .. MaxDefers)) /\ Len(<<>>) = 0
    BY EmptySeq
  <2> HIDE DEF e
  <2> QED
    BY <1>1, <2>1, AppendProperties
<1>3. FrameInv' /\ AccountInv'
  BY <1>2, EmptySeq DEF Execute, IInv, FrameInv, AccountInv
<1>4. LoopInv' /\ PointerInv'
  BY <1>2 DEF Execute, LoopInv, PointerInv, Nested, Top, Last
<1> QED
  BY <1>2, <1>3, <1>4 DEF IInv

\* A call that shares its loop with the caller, or fails.
LEMMA CallStep ==
  IInv /\ (InlineCall \/ NativeCall \/ Fail \/ FailInTail \/ FailInCall \/ Defer \/ ReturnSlow) => IInv'
<1> SUFFICES ASSUME IInv,
                    InlineCall \/ NativeCall \/ Fail \/ FailInTail \/ FailInCall \/ Defer \/ ReturnSlow
             PROVE  IInv'
  OBVIOUS
<1>1. mode = "run" /\ ~ Ended /\ ran' = ran
  BY DEF InlineCall, NativeCall, Fail, FailInTail, FailInCall, Defer, ReturnSlow, Ended
<1>2. /\ execs \in Seq(Exec) /\ execs # <<>> /\ Top.regs = "current"
      /\ Len(frames) >= Top.initial /\ Top.initial \in Nat
      /\ Len(frames) \in Nat \ {0} /\ Pending \in Seq(1 .. MaxDefers)
  BY <1>1, Running DEF IInv, LoopInv, PointerInv
<1>3. SameLoops(execs, execs)
  BY <1>2 DEF SameLoops
<1>4. SameLoops(execs', execs) /\ (mode' \in {"run", "tailfail", "drain"} => Last(execs').regs = "current")
  BY <1>2, <1>3, MayMoveSame
     DEF InlineCall, NativeCall, Fail, FailInTail, FailInCall, Defer, ReturnSlow, Top, MayMove, accounts
<1>5. FrameInv' /\ Len(frames') \in Nat /\ Len(frames') >= Len(frames)
  <2>1. frames \in Seq(Seq(1 .. MaxDefers)) /\ capacity \in Nat \ {0}
        /\ Len(frames) <= capacity /\ Len(frames) <= MaxFrames
    BY DEF IInv, FrameInv
  <2>2. Append(frames, <<>>) \in Seq(Seq(1 .. MaxDefers)) /\ Len(Append(frames, <<>>)) = Len(frames) + 1
    BY <2>1, EmptySeq, AppendProperties
  <2>3. CASE InlineCall
    BY <2>1, <2>2, <2>3, <1>2 DEF InlineCall, FrameInv
  <2>4. CASE NativeCall \/ Fail \/ FailInTail \/ ReturnSlow
    BY <2>1, <2>4, <1>2 DEF NativeCall, Fail, FailInTail, ReturnSlow, FrameInv
  <2>5. CASE FailInCall
    BY <2>1, <2>2, <2>5, <1>2 DEF FailInCall, LeaveFrame, Grown, FrameInv
  <2>6. CASE Defer
    <3>1. Append(Pending, deferCount + 1) \in Seq(1 .. MaxDefers)
      <4>1. deferCount + 1 \in 1 .. MaxDefers
        BY <2>6 DEF Defer, IInv, AccountInv
      <4> QED
        BY <4>1, <1>2, AppendProperties
    <3>2. frames' \in Seq(Seq(1 .. MaxDefers)) /\ Len(frames') = Len(frames)
      BY <3>1, <2>6, <1>1, SetPendingFrames DEF Defer
    <3> QED
      BY <2>1, <2>6, <3>2, <1>2 DEF Defer, FrameInv
  <2> QED
    BY <2>3, <2>4, <2>5, <2>6
<1>6. AccountInv'
  <2>1. Ids(Pending) \subseteq 1 .. MaxDefers
    BY <1>2, IdsType
  <2> QED
    BY <2>1 DEF InlineCall, NativeCall, Fail, FailInTail, FailInCall, Defer, ReturnSlow, accounts, IInv, AccountInv
<1>7. execs' \in Seq(Exec) /\ LoopInv'
  <2>1. mode' # "return"
    BY DEF InlineCall, NativeCall, Fail, FailInTail, FailInCall, Defer, ReturnSlow
  <2> QED
    BY <2>1, <1>1, <1>2, <1>4, <1>5, KeepLoops
<1>8. PointerInv'
  <2>1. mode' \in {"run", "tailfail", "drain", "fail"}
    BY <1>1 DEF InlineCall, NativeCall, Fail, FailInTail, FailInCall, Defer, ReturnSlow
  <2> QED
    BY <2>1, <1>1, <1>4, KeepSites DEF PointerInv, Top
<1> QED
  BY <1>5, <1>6, <1>7, <1>8 DEF IInv

\* A call in a loop of its own.
LEMMA NestedCallStep == IInv /\ (NestedCall \/ TailCall) => IInv'
<1> SUFFICES ASSUME IInv, NestedCall \/ TailCall PROVE IInv'
  OBVIOUS
<1>1. mode = "run" /\ ~ Ended /\ ran' = ran /\ Len(frames) < MaxFrames
      /\ frames \in Seq(Seq(1 .. MaxDefers))
  BY DEF NestedCall, TailCall, Ended, IInv, FrameInv
<1>2. PICK site \in {"call", "tail"} : Nest(site, frames)
  BY DEF NestedCall, TailCall
<1>3. FrameInv' /\ execs' \in Seq(Exec) /\ LoopInv' /\ PointerInv'
  BY <1>1, <1>2, NestStep
<1>4. AccountInv'
  <2>1. Ids(Pending) \subseteq 1 .. MaxDefers
    BY <1>1, Running, IdsType
  <2> QED
    BY <2>1 DEF NestedCall, TailCall, Nest, accounts, IInv, AccountInv
<1> QED
  BY <1>3, <1>4 DEF IInv

\* A deferred call that runs in no loop of its own, or cannot be started.
LEMMA DrainStep ==
  IInv /\ (DrainNative \/ DrainCallFails \/ DrainPushFails) => IInv'
<1> SUFFICES ASSUME IInv, DrainNative \/ DrainCallFails \/ DrainPushFails
             PROVE  IInv'
  OBVIOUS
<1>1. mode = "drain" /\ ~ Ended /\ Pending # <<>> /\ mode' \in {"drain", "fail"}
  BY DEF DrainNative, DrainCallFails, DrainPushFails, Ended
<1>2. /\ execs \in Seq(Exec) /\ execs # <<>>
      /\ Len(frames) >= Top.initial /\ Top.initial \in Nat
      /\ Len(frames) \in Nat \ {0} /\ Pending \in Seq(1 .. MaxDefers)
  BY <1>1, Running DEF IInv, LoopInv
<1>3. Front(Pending) \in Seq(1 .. MaxDefers) /\ Last(Pending) \in 1 .. MaxDefers
  BY <1>1, <1>2, FrontLast
<1>4. /\ SetPending(Front(Pending)) \in Seq(Seq(1 .. MaxDefers))
      /\ Len(SetPending(Front(Pending))) = Len(frames)
  BY <1>1, <1>3, SetPendingFrames
<1>5. Append(ran, Last(Pending)) \in Seq(1 .. MaxDefers) /\ Append(ran, Last(Pending)) # <<>>
  <2>1. ran \in Seq(1 .. MaxDefers)
    BY DEF IInv, AccountInv
  <2> QED
    BY <2>1, <1>3, AppendProperties
<1>6. SameLoops(execs', execs)
  BY <1>2, MayMoveSame DEF DrainNative, DrainCallFails, DrainPushFails
<1>7. FrameInv' /\ Len(frames') \in Nat /\ Len(frames') >= Len(frames)
  <2>1. capacity \in Nat \ {0} /\ Len(frames) <= capacity /\ Len(frames) <= MaxFrames
    BY DEF IInv, FrameInv
  <2>2. CASE DrainNative \/ DrainPushFails
    <3>1. frames' = SetPending(Front(Pending)) /\ capacity' = capacity
      BY <2>2 DEF DrainNative, DrainPushFails, accounts
    <3> QED
      BY <3>1, <2>1, <1>2, <1>4 DEF FrameInv
  <2>3. CASE DrainCallFails
    <3>1. /\ frames' \in Seq(Seq(1 .. MaxDefers)) /\ Len(frames') = Len(frames) + 1
      BY <2>3, <1>4, EmptySeq, AppendProperties DEF DrainCallFails, LeaveFrame
    <3> QED
      <4>1. capacity' = IF Len(frames) < capacity THEN capacity ELSE 2 * capacity
        BY <2>3, <1>4 DEF DrainCallFails, LeaveFrame, Grown
      <4>2. Len(frames) < MaxFrames
        BY <2>3 DEF DrainCallFails
      <4>3. PICK n \in Nat : n = Len(frames)
        BY <1>2
      <4>4. capacity' \in Nat \ {0} /\ n + 1 <= capacity' /\ n + 1 <= MaxFrames /\ n + 1 >= n
        BY <4>1, <4>2, <4>3, <2>1, VmCallsAssumption
      <4> QED
        BY <3>1, <4>3, <4>4 DEF FrameInv
  <2> QED
    BY <2>2, <2>3
<1>8. AccountInv'
  BY <1>1, <1>3, <1>5 DEF DrainNative, DrainCallFails, DrainPushFails, accounts, IInv, AccountInv
<1>9. execs' \in Seq(Exec) /\ LoopInv'
  BY <1>1, <1>2, <1>6, <1>7, KeepLoops
<1>10. PointerInv'
  <2>1. ran' # <<>> \/ (ran' = ran /\ mode' = "fail")
    BY <1>5 DEF DrainNative, DrainCallFails, DrainPushFails
  <2> QED
    BY <2>1, <1>1, <1>6, KeepSites DEF PointerInv
<1> QED
  BY <1>7, <1>8, <1>9, <1>10 DEF IInv

LEMMA DrainCallStep == IInv /\ DrainCall => IInv'
<1> SUFFICES ASSUME IInv, DrainCall PROVE IInv'
  OBVIOUS
<1>1. mode = "drain" /\ ~ Ended /\ Pending # <<>> /\ Len(frames) < MaxFrames
      /\ Pending \in Seq(1 .. MaxDefers)
  BY Running DEF DrainCall, Ended
<1>2. Front(Pending) \in Seq(1 .. MaxDefers) /\ Last(Pending) \in 1 .. MaxDefers
  BY <1>1, FrontLast
<1>3. /\ SetPending(Front(Pending)) \in Seq(Seq(1 .. MaxDefers))
      /\ Len(SetPending(Front(Pending))) = Len(frames)
  BY <1>1, <1>2, SetPendingFrames
<1>4. ran' \in Seq(1 .. MaxDefers) /\ ran' # <<>>
  <2>1. ran \in Seq(1 .. MaxDefers)
    BY DEF IInv, AccountInv
  <2>2. Append(ran, Last(Pending)) \in Seq(1 .. MaxDefers) /\ Append(ran, Last(Pending)) # <<>>
    BY <2>1, <1>2, AppendProperties
  <2> QED
    BY <2>2 DEF DrainCall
<1>5. Nest("deferred", SetPending(Front(Pending)))
  BY DEF DrainCall
<1>6. FrameInv' /\ execs' \in Seq(Exec) /\ LoopInv' /\ PointerInv'
  BY <1>1, <1>3, <1>4, <1>5, NestStep
<1>7. AccountInv'
  BY <1>4 DEF DrainCall, Nest, accounts, IInv, AccountInv
<1> QED
  BY <1>6, <1>7 DEF IInv

\* A step of the last loop that ends a frame above its first, or the loop.
LEMMA EndFrameStep ==
  IInv /\ (ReturnInline \/ DrainDone \/ TailReturns \/ TailFails) => IInv'
<1> SUFFICES ASSUME IInv, ReturnInline \/ DrainDone \/ TailReturns \/ TailFails
             PROVE  IInv'
  OBVIOUS
<1>1. /\ mode \in {"run", "drain", "tailed", "tailfail"} /\ ~ Ended
      /\ ran' = ran /\ capacity' = capacity /\ mode' \in {"run", "return", "fail"}
  BY DEF ReturnInline, DrainDone, TailReturns, TailFails, EndInline, Ended
<1>2. /\ execs \in Seq(Exec) /\ execs # <<>>
      /\ Len(frames) >= Top.initial /\ Top.initial \in Nat
      /\ Len(frames) \in Nat \ {0} /\ Pending \in Seq(1 .. MaxDefers)
      /\ Front(frames) \in Seq(Seq(1 .. MaxDefers)) /\ Len(Front(frames)) = Len(frames) - 1
  BY <1>1, Running DEF IInv, LoopInv
<1>3. SameLoops(execs, execs) /\ SameLoops(Loaded(execs), execs)
      /\ Last(Loaded(execs)).regs = "current"
  BY <1>2, MayMoveSame DEF SameLoops, MayMove
<1>4. \/ /\ Inline /\ frames' = Front(frames) /\ execs' = Loaded(execs) /\ mode' # "return"
      \/ /\ ~ Inline /\ frames' = frames /\ execs' = execs /\ mode' \in {"return", "fail"}
  BY DEF ReturnInline, DrainDone, TailReturns, TailFails, EndInline
<1>5. SameLoops(execs', execs)
  BY <1>3, <1>4
<1>6. FrameInv'
  BY <1>1, <1>2, <1>4 DEF IInv, FrameInv
<1>7. execs' \in Seq(Exec) /\ LoopInv'
  <2>1. /\ Len(frames') >= Top.initial
        /\ mode' = "return" => Len(frames') = Top.initial
    BY <1>2, <1>4 DEF Inline
  <2> QED
    BY <2>1, <1>1, <1>5, KeepLoops
<1>8. AccountInv'
  <2>1. Ids(Pending) \subseteq 1 .. MaxDefers
    BY <1>2, IdsType
  <2> QED
    BY <2>1, <1>1 DEF ReturnInline, DrainDone, TailReturns, TailFails, EndInline,
                      accounts, IInv, AccountInv
<1>9. PointerInv'
  <2>1. mode' = "run" => Last(execs').regs = "current"
    BY <1>1, <1>3, <1>4
  <2>2. mode' = "return" => (Last(execs').regs = "stale" => ran' # <<>>)
    BY <1>1, <1>4 DEF IInv, PointerInv, Top
  <2> QED
    BY <2>1, <2>2, <1>1, <1>5, KeepSites DEF PointerInv, Top
<1> QED
  BY <1>6, <1>7, <1>8, <1>9 DEF IInv

LEMMA EndLoopStep == IInv /\ (LoopReturns \/ LoopFails) => IInv'
<1> SUFFICES ASSUME IInv, LoopReturns \/ LoopFails PROVE IInv'
  OBVIOUS
<1>1. ~ Ended /\ Top.site # "top" /\ PopFrame /\ EndLoop
      /\ UNCHANGED <<capacity, ran, deferCount, abandoned, lost>>
  BY DEF LoopReturns, LoopFails, Ended
<1>2. Top.site \in {"call", "tail", "deferred"}
  BY <1>1, Running DEF Exec
<1>3. /\ mode' \in {"run", "drain", "tailed", "tailfail", "fail"}
      /\ mode' \in {"run", "tailed", "tailfail"} => Top.site # "deferred"
      /\ mode' = "drain" => Top.site = "deferred"
  BY <1>2 DEF LoopReturns, LoopFails
<1> QED
  BY <1>1, <1>3, PopStep

LEMMA FinishStep == IInv /\ Finish => IInv'
<1> SUFFICES ASSUME IInv, Finish PROVE IInv'
  OBVIOUS
<1>1. /\ frames' = <<>> /\ execs' = <<>> /\ mode' \in {"idle", "error"}
      /\ UNCHANGED <<capacity, ran, deferCount, abandoned, lost>>
  BY DEF Finish
<1>2. /\ frames' \in Seq(Seq(1 .. MaxDefers)) /\ Len(frames') = 0
      /\ execs' \in Seq(Exec) /\ Len(execs') = 0
  BY <1>1, EmptySeq
<1>3. FrameInv'
  BY <1>1, <1>2 DEF IInv, FrameInv
<1>4. AccountInv'
  <2>1. \A i \in DOMAIN frames : Ids(frames[i]) \subseteq 1 .. MaxDefers
    BY LenProperties, ElementOfSeq, IdsType DEF IInv, FrameInv
  <2>2. cleared' \subseteq 1 .. MaxDefers
    BY <2>1 DEF Finish, IInv, AccountInv
  <2> QED
    BY <2>2, <1>1 DEF IInv, AccountInv
<1>5. LoopInv' /\ PointerInv'
  BY <1>1, <1>2 DEF LoopInv, PointerInv, Ended
<1> QED
  BY <1>2, <1>3, <1>4, <1>5 DEF IInv

LEMMA NextIInv == IInv /\ [Next]_vars => IInv'
<1> SUFFICES ASSUME IInv, [Next]_vars PROVE IInv'
  OBVIOUS
<1>1. CASE UNCHANGED vars
  BY <1>1 DEF vars, accounts, IInv, FrameInv, AccountInv, LoopInv, PointerInv,
              Nested, Ended, Top
<1>2. CASE Work
  BY <1>2, EndFrameStep, CallStep, DrainStep, DrainCallStep, EndLoopStep, FinishStep
     DEF Work
<1>3. CASE Next /\ ~ Work
  BY <1>3, ExecuteStep, CallStep, NestedCallStep DEF Next
<1> QED
  BY <1>1, <1>2, <1>3
------------------------------------------------------------------------------
(***************************************************************************)
(* Theorems.                                                               *)
(***************************************************************************)

\* The inductive invariant holds in every reachable state.
THEOREM VmInvariance == Spec => []IInv
  BY InitIInv, NextIInv, PTL DEF Spec

\* Every variable has its type; the frames never outgrow their array.
THEOREM VmTypeCorrect == Spec => []TypeOK
<1>1. IInv => TypeOK
  <2> SUFFICES ASSUME IInv PROVE TypeOK
    OBVIOUS
  <2>1. \A i \in DOMAIN execs : execs[i] \in Exec
    BY LenProperties, ElementOfSeq DEF IInv
  <2> QED
    BY <2>1 DEF IInv, FrameInv, AccountInv, TypeOK, Exec
<1> QED
  BY <1>1, VmInvariance, PTL

\* No loop ever runs on frames of the loop below, in calls, returns, tail
\* calls, deferred calls and failures alike.
THEOREM LoopsOwnFramesAlways == Spec => []LoopsOwnFrames
<1>1. IInv => LoopsOwnFrames
  BY DEF IInv, LoopInv, Nested, LoopsOwnFrames
<1> QED
  BY <1>1, VmInvariance, PTL

\* Code that goes on reads its own registers, wherever the value stack moved.
THEOREM RegistersCurrentAlways == Spec => []RegistersCurrent
<1>1. IInv => RegistersCurrent
  BY DEF IInv, PointerInv, RegistersCurrent
<1> QED
  BY <1>1, VmInvariance, PTL

------------------------------------------------------------------------------
(***************************************************************************)
(* Each deferred call is in one place, and a program that succeeds drops   *)
(* none but those its tail calls gave up.                                  *)
(***************************************************************************)
\* What a stack of frames has deferred.
Waits(fs) == UNION {Ids(fs[i]) : i \in DOMAIN fs}

NoneTwice(fs) ==
  \A i, k \in 1 .. Len(fs) : \A j \in 1 .. Len(fs[i]), l \in 1 .. Len(fs[k]) :
    fs[i][j] = fs[k][l] => i = k /\ j = l

Distinct(s) == \A i, j \in 1 .. Len(s) : s[i] = s[j] => i = j

\* Each deferred call is in one place.
PlaceInv ==
  /\ NoneTwice(frames) /\ Distinct(ran)
  /\ Waits(frames) \cup Ids(ran) \cup (cleared \cup lost) = 1 .. deferCount
  /\ Waits(frames) \cap Ids(ran) = {}
  /\ (Waits(frames) \cup Ids(ran)) \cap (cleared \cup lost) = {}

Failing == mode \in {"fail", "tailfail", "error"}

\* The frames that wait for a tail call have abandoned what they deferred.
DropInv ==
  /\ Ended => frames = <<>>
  /\ ~ Failing =>
       /\ cleared \cup lost \subseteq abandoned
       /\ mode \in {"return", "tailed"} => Ids(Pending) \subseteq abandoned
       /\ \A e \in 1 .. Len(execs) :
            execs[e].site = "tail" => Ids(frames[execs[e].initial - 1]) \subseteq abandoned

DeferInv == IInv /\ PlaceInv /\ DropInv
------------------------------------------------------------------------------
(***************************************************************************)
(* Frames and what they have deferred.                                     *)
(***************************************************************************)
LEMMA IdsMean ==
  ASSUME NEW D, NEW s \in Seq(D)
  PROVE  /\ Len(s) \in Nat /\ DOMAIN s = 1 .. Len(s)
         /\ \A d : d \in Ids(s) <=> \E i \in 1 .. Len(s) : s[i] = d
  BY LenProperties DEF Ids

LEMMA WaitsMean ==
  ASSUME NEW D, NEW fs \in Seq(Seq(D))
  PROVE  /\ Len(fs) \in Nat /\ DOMAIN fs = 1 .. Len(fs)
         /\ \A i \in 1 .. Len(fs) : fs[i] \in Seq(D)
         /\ \A d : d \in Waits(fs) <=> \E i \in 1 .. Len(fs) : d \in Ids(fs[i])
  BY LenProperties, ElementOfSeq DEF Waits

\* Within a stack without duplicates no two frames share a call.
LEMMA FramesDisjoint ==
  ASSUME NEW D, NEW fs \in Seq(Seq(D)), NoneTwice(fs),
         NEW i \in 1 .. Len(fs), NEW k \in 1 .. Len(fs), NEW d,
         d \in Ids(fs[i]), d \in Ids(fs[k])
  PROVE  i = k
<1>1. fs[i] \in Seq(D) /\ fs[k] \in Seq(D)
  BY WaitsMean
<1>2. PICK j \in 1 .. Len(fs[i]) : fs[i][j] = d
  BY <1>1, IdsMean
<1>3. PICK l \in 1 .. Len(fs[k]) : fs[k][l] = d
  BY <1>1, IdsMean
<1> QED
  BY <1>2, <1>3 DEF NoneTwice

\* The use of NoneTwice.
LEMMA OneOnly ==
  ASSUME NEW fs, NoneTwice(fs), NEW i \in 1 .. Len(fs), NEW k \in 1 .. Len(fs),
         NEW j \in 1 .. Len(fs[i]), NEW l \in 1 .. Len(fs[k]), fs[i][j] = fs[k][l]
  PROVE  i = k /\ j = l
  BY DEF NoneTwice

\* A new frame has deferred nothing.
LEMMA PushWaits ==
  ASSUME NEW D, NEW fs \in Seq(Seq(D)), NEW gs, gs = Append(fs, <<>>)
  PROVE  /\ gs \in Seq(Seq(D)) /\ Waits(gs) = Waits(fs)
         /\ NoneTwice(fs) => NoneTwice(gs)
<1>1. <<>> \in Seq(D) /\ Len(<<>>) = 0
  BY EmptySeq
<1>2. /\ gs \in Seq(Seq(D)) /\ Len(gs) = Len(fs) + 1 /\ Len(fs) \in Nat
      /\ \A i \in 1 .. Len(fs) : gs[i] = fs[i]
      /\ gs[Len(fs) + 1] = <<>>
  BY <1>1, AppendProperties, LenProperties
<1>3. \A i \in 1 .. Len(gs) : i \in 1 .. Len(fs) \/ gs[i] = <<>>
  BY <1>2
<1>4. \A i \in 1 .. Len(fs) : i \in 1 .. Len(gs)
  BY <1>2
<1>5. Ids(<<>>) = {}
  <2>1. PICK e : e = <<>>
    OBVIOUS
  <2>2. e \in Seq(D) /\ Len(e) = 0
    BY <1>1, <2>1
  <2>3. \A d : d \in Ids(e) <=> \E i \in 1 .. Len(e) : e[i] = d
    BY <2>2, IdsMean
  <2>4. \A i : i \notin 1 .. Len(e)
    BY <2>2
  <2> QED
    BY <2>1, <2>3, <2>4
<1>6. \A d : d \in Waits(gs) <=> d \in Waits(fs)
  BY <1>2, <1>3, <1>4, <1>5, WaitsMean
<1>7. ASSUME NoneTwice(fs) PROVE NoneTwice(gs)
  <2> SUFFICES ASSUME NEW i \in 1 .. Len(gs), NEW k \in 1 .. Len(gs),
                      NEW j \in 1 .. Len(gs[i]), NEW l \in 1 .. Len(gs[k]),
                      gs[i][j] = gs[k][l]
               PROVE  i = k /\ j = l
    BY DEF NoneTwice
  <2>1. i \in 1 .. Len(fs) /\ k \in 1 .. Len(fs)
    BY <1>1, <1>3
  <2>2. gs[i] = fs[i] /\ gs[k] = fs[k]
    BY <1>2, <2>1
  <2> QED
    BY <1>7, <2>1, <2>2 DEF NoneTwice
<1> QED
  BY <1>2, <1>6, <1>7

\* Without the last frame, without what it has deferred.
LEMMA PopWaits ==
  ASSUME NEW D, NEW fs \in Seq(Seq(D)), fs # <<>>, NoneTwice(fs),
         NEW gs, gs = Front(fs)
  PROVE  /\ Waits(gs) = Waits(fs) \ Ids(Last(fs))
         /\ Ids(Last(fs)) \subseteq Waits(fs)
         /\ NoneTwice(gs)
<1>1. /\ gs \in Seq(Seq(D)) /\ Len(fs) \in Nat \ {0} /\ Len(gs) = Len(fs) - 1
      /\ \A i \in 1 .. Len(gs) : gs[i] = fs[i]
      /\ Last(fs) = fs[Len(fs)] /\ Last(fs) \in Seq(D)
  BY FrontLast
<1>2. /\ \A i \in 1 .. Len(gs) : i \in 1 .. Len(fs) /\ i # Len(fs)
      /\ \A i \in 1 .. Len(fs) : i = Len(fs) \/ i \in 1 .. Len(gs)
      /\ Len(fs) \in 1 .. Len(fs)
  BY <1>1
<1>3. Ids(Last(fs)) \subseteq Waits(fs)
  BY <1>1, <1>2, WaitsMean
<1>4. ASSUME NEW d PROVE d \in Waits(gs) <=> d \in Waits(fs) /\ d \notin Ids(Last(fs))
  <2>1. d \in Waits(gs) <=> \E i \in 1 .. Len(gs) : d \in Ids(fs[i])
    BY <1>1, WaitsMean
  <2>2. d \in Waits(fs) <=> \E i \in 1 .. Len(fs) : d \in Ids(fs[i])
    BY WaitsMean
  <2>3. \A i \in 1 .. Len(gs) : ~ (d \in Ids(fs[i]) /\ d \in Ids(fs[Len(fs)]))
    BY <1>2, FramesDisjoint
  <2> QED
    BY <1>1, <1>2, <2>1, <2>2, <2>3
<1>5. NoneTwice(gs)
  <2> SUFFICES ASSUME NEW i \in 1 .. Len(gs), NEW k \in 1 .. Len(gs),
                      NEW j \in 1 .. Len(gs[i]), NEW l \in 1 .. Len(gs[k]),
                      gs[i][j] = gs[k][l]
               PROVE  i = k /\ j = l
    BY DEF NoneTwice
  <2>1. /\ i \in 1 .. Len(fs) /\ k \in 1 .. Len(fs)
        /\ gs[i] = fs[i] /\ gs[k] = fs[k]
    BY <1>1, <1>2
  <2> QED
    BY <2>1, OneOnly
<1> QED
  BY <1>3, <1>4, <1>5

\* The last frame of a sequence of frames.
LEMMA LastFrame ==
  ASSUME NEW D, NEW fs \in Seq(Seq(D)), fs # <<>>
  PROVE  /\ Len(fs) \in Nat \ {0} /\ Len(fs) \in 1 .. Len(fs)
         /\ Last(fs) = fs[Len(fs)] /\ Last(fs) \in Seq(D)
<1>1. Len(fs) \in Nat \ {0} /\ Last(fs) = fs[Len(fs)] /\ Last(fs) \in Seq(D)
  BY FrontLast
<1>2. \A n \in Nat \ {0} : n \in 1 .. n
  OBVIOUS
<1> QED
  BY <1>1, <1>2

\* The last frame defers one more.
LEMMA DeferWaits ==
  ASSUME NEW D, NEW fs \in Seq(Seq(D)), fs # <<>>, NoneTwice(fs),
         NEW d \in D, d \notin Waits(fs),
         NEW gs, gs = [fs EXCEPT ![Len(fs)] = Append(Last(fs), d)]
  PROVE  Waits(gs) = Waits(fs) \cup {d} /\ NoneTwice(gs)
<1>1. /\ Len(fs) \in Nat \ {0} /\ Len(fs) \in 1 .. Len(fs)
      /\ Last(fs) = fs[Len(fs)] /\ Last(fs) \in Seq(D)
  BY LastFrame, Zenon
<1>2. PICK ds : ds = Append(Last(fs), d)
  OBVIOUS
<1>3. /\ ds \in Seq(D) /\ Len(ds) = Len(Last(fs)) + 1 /\ Len(Last(fs)) \in Nat
      /\ \A j \in 1 .. Len(Last(fs)) : ds[j] = Last(fs)[j]
      /\ ds[Len(Last(fs)) + 1] = d
  BY <1>1, <1>2, AppendProperties, LenProperties
<1>4. /\ gs \in Seq(Seq(D)) /\ Len(gs) = Len(fs)
      /\ \A i \in 1 .. Len(fs) : gs[i] = IF i = Len(fs) THEN ds ELSE fs[i]
  BY <1>1, <1>2, <1>3, ExceptSeq
<1>5. /\ \A j \in 1 .. Len(Last(fs)) : j \in 1 .. Len(ds)
      /\ \A j \in 1 .. Len(ds) : j \in 1 .. Len(Last(fs)) \/ (j = Len(Last(fs)) + 1 /\ ds[j] = d)
      /\ Len(Last(fs)) + 1 \in 1 .. Len(ds)
  <2>1. PICK n \in Nat : n = Len(Last(fs))
    BY <1>3
  <2>2. Len(ds) = n + 1 /\ ds[n + 1] = d
    BY <1>3, <2>1
  <2>3. \A j \in 1 .. n + 1 : j \in 1 .. n \/ j = n + 1
    OBVIOUS
  <2> QED
    BY <2>1, <2>2, <2>3
<1>6. \A e : e \in Ids(ds) <=> e \in Ids(Last(fs)) \/ e = d
  <2>1. \A e : e \in Ids(ds) <=> \E j \in 1 .. Len(ds) : ds[j] = e
    BY <1>3, IdsMean
  <2>2. \A e : e \in Ids(Last(fs)) <=> \E j \in 1 .. Len(Last(fs)) : Last(fs)[j] = e
    BY <1>1, IdsMean
  <2>3. \A e : (\E j \in 1 .. Len(ds) : ds[j] = e)
               <=> (\E j \in 1 .. Len(Last(fs)) : Last(fs)[j] = e) \/ e = d
    BY <1>3, <1>5
  <2> QED
    BY <2>1, <2>2, <2>3
<1>7. \A e : e \in Waits(gs) <=> e \in Waits(fs) \/ e = d
  BY <1>1, <1>4, <1>6, WaitsMean
<1>8. ASSUME NEW i \in 1 .. Len(gs), NEW j \in 1 .. Len(gs[i])
      PROVE  \/ j \in 1 .. Len(fs[i]) /\ gs[i][j] = fs[i][j] /\ gs[i][j] # d
             \/ i = Len(fs) /\ j = Len(Last(fs)) + 1 /\ gs[i][j] = d
  <2>1. ASSUME j \in 1 .. Len(fs[i]) PROVE fs[i][j] # d
    <3>1. fs[i] \in Seq(D) /\ i \in 1 .. Len(fs)
      BY <1>4, WaitsMean
    <3>2. fs[i][j] \in Ids(fs[i])
      BY <2>1, <3>1, IdsMean
    <3> QED
      BY <3>1, <3>2, WaitsMean
  <2>2. CASE i # Len(fs)
    BY <1>4, <2>1, <2>2
  <2>3. CASE i = Len(fs)
    <3>1. gs[i] = ds /\ fs[i] = Last(fs)
      BY <1>1, <1>4, <2>3
    <3>2. j \in 1 .. Len(Last(fs)) \/ (j = Len(Last(fs)) + 1 /\ ds[j] = d)
      BY <1>5, <3>1
    <3> QED
      BY <1>3, <2>1, <2>3, <3>1, <3>2
  <2> QED
    BY <2>2, <2>3
<1>9. NoneTwice(gs)
  <2> SUFFICES ASSUME NEW i \in 1 .. Len(gs), NEW k \in 1 .. Len(gs),
                      NEW j \in 1 .. Len(gs[i]), NEW l \in 1 .. Len(gs[k]),
                      gs[i][j] = gs[k][l]
               PROVE  i = k /\ j = l
    BY DEF NoneTwice
  <2>1. i \in 1 .. Len(fs) /\ k \in 1 .. Len(fs)
    BY <1>4
  <2>2. CASE gs[i][j] = d
    BY <1>8, <2>2
  <2>3. CASE gs[i][j] # d
    <3>1. /\ j \in 1 .. Len(fs[i]) /\ l \in 1 .. Len(fs[k])
          /\ fs[i][j] = fs[k][l]
      BY <1>8, <2>3
    <3> QED
      BY <2>1, <3>1, OneOnly
  <2> QED
    BY <2>2, <2>3
<1> QED
  BY <1>7, <1>9

\* The last frame gives its latest to be run.
LEMMA TakeWaits ==
  ASSUME NEW D, NEW fs \in Seq(Seq(D)), fs # <<>>, Last(fs) # <<>>, NoneTwice(fs),
         NEW gs, gs = [fs EXCEPT ![Len(fs)] = Front(Last(fs))]
  PROVE  /\ Waits(gs) = Waits(fs) \ {Last(Last(fs))}
         /\ Last(Last(fs)) \in Waits(fs)
         /\ NoneTwice(gs)
<1>1. /\ Len(fs) \in Nat \ {0} /\ Len(fs) \in 1 .. Len(fs)
      /\ Last(fs) = fs[Len(fs)] /\ Last(fs) \in Seq(D)
  BY LastFrame, Zenon
<1>2. PICK ds : ds = Front(Last(fs))
  OBVIOUS
<1>3. PICK d : d = Last(Last(fs))
  OBVIOUS
<1>4. /\ ds \in Seq(D) /\ Len(ds) = Len(Last(fs)) - 1 /\ Len(Last(fs)) \in Nat \ {0}
      /\ \A j \in 1 .. Len(ds) : ds[j] = Last(fs)[j]
      /\ Last(fs)[Len(Last(fs))] = d
  BY <1>1, <1>2, <1>3, FrontLast
<1>5. /\ gs \in Seq(Seq(D)) /\ Len(gs) = Len(fs)
      /\ \A i \in 1 .. Len(fs) : gs[i] = IF i = Len(fs) THEN ds ELSE fs[i]
  BY <1>1, <1>2, <1>4, ExceptSeq
<1>6. /\ \A j \in 1 .. Len(ds) : j \in 1 .. Len(Last(fs)) /\ j # Len(Last(fs))
      /\ \A j \in 1 .. Len(Last(fs)) : j \in 1 .. Len(ds) \/ j = Len(Last(fs))
      /\ Len(Last(fs)) \in 1 .. Len(Last(fs))
  BY <1>4
<1>7. \A j \in 1 .. Len(ds) : ds[j] # d
  <2> SUFFICES ASSUME NEW j \in 1 .. Len(ds), ds[j] = d
               PROVE  FALSE
    OBVIOUS
  <2>1. /\ j \in 1 .. Len(fs[Len(fs)]) /\ Len(Last(fs)) \in 1 .. Len(fs[Len(fs)])
        /\ fs[Len(fs)][j] = fs[Len(fs)][Len(Last(fs))]
    BY <1>1, <1>4, <1>6
  <2>2. j = Len(Last(fs))
    BY <1>1, <2>1, OneOnly
  <2> QED
    BY <1>6, <2>2
<1>8. \A e : e \in Ids(ds) <=> e \in Ids(Last(fs)) /\ e # d
  <2>1. \A e : e \in Ids(ds) <=> \E j \in 1 .. Len(ds) : ds[j] = e
    BY <1>4, IdsMean
  <2>2. \A e : e \in Ids(Last(fs)) <=> \E j \in 1 .. Len(Last(fs)) : Last(fs)[j] = e
    BY <1>1, IdsMean
  <2>3. \A e : (\E j \in 1 .. Len(ds) : ds[j] = e)
               <=> (\E j \in 1 .. Len(Last(fs)) : Last(fs)[j] = e) /\ e # d
    BY <1>4, <1>6, <1>7
  <2> QED
    BY <2>1, <2>2, <2>3
<1>9. d \in Ids(fs[Len(fs)])
  BY <1>1, <1>4, <1>6, IdsMean
<1>10. \A i \in 1 .. Len(fs) : i # Len(fs) => d \notin Ids(fs[i])
  BY <1>1, <1>9, FramesDisjoint
<1>11. \A e : e \in Waits(gs) <=> e \in Waits(fs) /\ e # d
  BY <1>1, <1>5, <1>8, <1>10, WaitsMean
<1>12. d \in Waits(fs)
  BY <1>1, <1>9, WaitsMean
<1>13. ASSUME NEW i \in 1 .. Len(gs), NEW j \in 1 .. Len(gs[i])
       PROVE  j \in 1 .. Len(fs[i]) /\ gs[i][j] = fs[i][j]
  <2>1. CASE i # Len(fs)
    BY <1>5, <2>1
  <2>2. CASE i = Len(fs)
    <3>1. gs[i] = ds /\ fs[i] = Last(fs)
      BY <1>1, <1>5, <2>2
    <3> QED
      BY <1>4, <1>6, <3>1
  <2> QED
    BY <2>1, <2>2
<1>14. NoneTwice(gs)
  <2> SUFFICES ASSUME NEW i \in 1 .. Len(gs), NEW k \in 1 .. Len(gs),
                      NEW j \in 1 .. Len(gs[i]), NEW l \in 1 .. Len(gs[k]),
                      gs[i][j] = gs[k][l]
               PROVE  i = k /\ j = l
    BY DEF NoneTwice
  <2>1. /\ i \in 1 .. Len(fs) /\ k \in 1 .. Len(fs)
        /\ j \in 1 .. Len(fs[i]) /\ l \in 1 .. Len(fs[k])
        /\ fs[i][j] = fs[k][l]
    BY <1>5, <1>13
  <2> QED
    BY <2>1, OneOnly
<1> QED
  BY <1>3, <1>11, <1>12, <1>14
------------------------------------------------------------------------------
(***************************************************************************)
(* What the steps do with the deferred calls.                              *)
(***************************************************************************)
LEMMA PlaceStays ==
  ASSUME PlaceInv, NoneTwice(frames'), Waits(frames') = Waits(frames),
         UNCHANGED <<ran, cleared, lost, deferCount>>
  PROVE  PlaceInv'
  BY DEF PlaceInv

\* Some calls are given up.
LEMMA PlaceGone ==
  ASSUME PlaceInv, NEW X, X \subseteq Waits(frames),
         NoneTwice(frames'), Waits(frames') = Waits(frames) \ X,
         cleared' \cup lost' = cleared \cup lost \cup X,
         UNCHANGED <<ran, deferCount>>
  PROVE  PlaceInv'
  BY DEF PlaceInv

\* A call is started.
OneMore(z, s, d) == Distinct(z) /\ Ids(z) = Ids(s) \cup {d}

LEMMA AppendDistinct ==
  ASSUME NEW D, NEW s \in Seq(D), Distinct(s), NEW d \in D, d \notin Ids(s),
         NEW z, z = Append(s, d)
  PROVE  OneMore(z, s, d)
<1>1. /\ z \in Seq(D) /\ Len(z) = Len(s) + 1 /\ Len(s) \in Nat
      /\ \A i \in 1 .. Len(s) : z[i] = s[i]
      /\ z[Len(s) + 1] = d
  BY AppendProperties, LenProperties
<1>2. /\ \A i \in 1 .. Len(s) : i \in 1 .. Len(z)
      /\ \A i \in 1 .. Len(z) : i \in 1 .. Len(s) \/ i = Len(s) + 1
      /\ Len(s) + 1 \in 1 .. Len(z)
  BY <1>1
<1>3. \A e : e \in Ids(z) <=> \E i \in 1 .. Len(z) : z[i] = e
  <2>1. z \in Seq(D)
    BY <1>1
  <2> QED
    BY <2>1, IdsMean
<1>4. \A e : e \in Ids(s) <=> \E i \in 1 .. Len(s) : s[i] = e
  BY IdsMean
<1>5. \A e : e \in Ids(z) <=> e \in Ids(s) \/ e = d
  BY <1>1, <1>2, <1>3, <1>4
<1>6. \A i \in 1 .. Len(s) : z[i] # d
  BY <1>1, <1>4
<1>7. Distinct(z)
  BY <1>1, <1>2, <1>6 DEF Distinct
<1> QED
  BY <1>5, <1>7 DEF OneMore

LEMMA RanGrows ==
  ASSUME ran \in Seq(1 .. MaxDefers), NEW d \in 1 .. MaxDefers, d \notin Ids(ran),
         Distinct(ran), ran' = Append(ran, d)
  PROVE  Distinct(ran') /\ Ids(ran') = Ids(ran) \cup {d}
<1>1. OneMore(ran', ran, d)
  BY AppendDistinct, Zenon
<1> QED
  BY <1>1 DEF OneMore

LEMMA PlaceRun ==
  ASSUME PlaceInv, ran \in Seq(1 .. MaxDefers), NEW d \in 1 .. MaxDefers, d \in Waits(frames),
         NoneTwice(frames'), Waits(frames') = Waits(frames) \ {d},
         ran' = Append(ran, d), UNCHANGED <<cleared, lost, deferCount>>
  PROVE  PlaceInv'
<1>1. d \notin Ids(ran)
  BY DEF PlaceInv
<1>2. Distinct(ran)
  BY DEF PlaceInv
<1>3. Distinct(ran') /\ Ids(ran') = Ids(ran) \cup {d}
  BY <1>1, <1>2, RanGrows
<1> QED
  BY <1>3 DEF PlaceInv

\* A call is registered.
LEMMA PlaceNew ==
  ASSUME PlaceInv, deferCount \in Nat, deferCount' = deferCount + 1,
         NoneTwice(frames'), Waits(frames') = Waits(frames) \cup {deferCount + 1},
         UNCHANGED <<ran, cleared, lost>>
  PROVE  PlaceInv'
<1>1. 1 .. deferCount' = (1 .. deferCount) \cup {deferCount + 1} /\ deferCount + 1 \notin 1 .. deferCount
  OBVIOUS
<1> QED
  BY <1>1 DEF PlaceInv
------------------------------------------------------------------------------
(***************************************************************************)
(* Every loop begins above all those that started it.                      *)
(***************************************************************************)
LEMMA Ordered ==
  ASSUME NEW es \in Seq(Exec), Nested(es),
         NEW i \in 1 .. Len(es), NEW j \in 1 .. Len(es), i < j
  PROVE  es[i].initial < es[j].initial
<1> DEFINE Bad == {k \in 1 .. Len(es) : i < k /\ ~ (es[i].initial < es[k].initial)}
<1>1. Len(es) \in Nat /\ \A k \in 1 .. Len(es) : es[k].initial \in Nat
  <2>1. Len(es) \in Nat
    BY LenProperties
  <2>2. \A k \in 1 .. Len(es) : es[k] \in Exec
    BY ElementOfSeq
  <2>3. ASSUME NEW x \in Exec PROVE x.initial \in Nat
    <3>1. x.initial \in 1 .. MaxFrames
      BY DEF Exec
    <3> QED
      BY <3>1
  <2> QED
    BY <2>1, <2>2, <2>3
<1>2. ASSUME Bad # {} PROVE FALSE
  <2>1. Bad \subseteq Nat
    BY <1>1
  <2>2. PICK m \in Bad : \A n \in Bad : m <= n
    BY <1>2, <2>1, SmallestOf
  <2>3. m \in 2 .. Len(es) /\ m - 1 \in 1 .. Len(es) /\ m - 1 \notin Bad /\ i <= m - 1
    BY <1>1, <2>2
  <2>4. es[m].initial > es[m - 1].initial
    BY <2>3 DEF Nested
  <2>5. es[i].initial <= es[m - 1].initial
    BY <1>1, <2>3
  <2>6. es[i].initial < es[m].initial
    BY <1>1, <2>3, <2>4, <2>5
  <2> QED
    BY <2>2, <2>6
<1> QED
  BY <1>2

\* The first frames of the loops lie below that of the last.
LEMMA InitialBounds ==
  ASSUME IInv, ~ Ended, NEW e \in 1 .. Len(execs)
  PROVE  /\ execs[e].initial \in Nat \ {0} /\ execs[e].initial <= Top.initial
         /\ Top.initial \in Nat /\ Top.initial <= Len(frames)
         /\ e < Len(execs) => execs[e].initial < Top.initial
         /\ execs[e].site # "top" => execs[e].initial > 1
<1>1. execs \in Seq(Exec) /\ Nested(execs) /\ execs # <<>> /\ Top.initial \in Nat
      /\ Len(frames) >= Top.initial /\ Len(frames) \in Nat
  BY Running DEF IInv, LoopInv
<1>2. Len(execs) \in Nat \ {0} /\ Top = execs[Len(execs)] /\ Len(execs) \in 1 .. Len(execs)
  <2>1. Len(execs) \in Nat \ {0} /\ Last(execs) = execs[Len(execs)]
    BY <1>1, FrontLast
  <2> QED
    BY <2>1 DEF Top
<1>3. execs[e].initial \in Nat \ {0}
  <2>1. execs[e] \in Exec
    BY <1>1, ElementOfSeq
  <2> QED
    BY <2>1 DEF Exec
<1>4. e < Len(execs) => execs[e].initial < Top.initial
  BY <1>1, <1>2, Ordered
<1>5. e = Len(execs) \/ e < Len(execs)
  BY <1>2
<1>6. ASSUME execs[e].site # "top" PROVE execs[e].initial > 1
  <2>1. e # 1 /\ 1 \in 1 .. Len(execs) /\ execs[1].initial = 1
    BY <1>1, <1>2, <1>6 DEF Nested
  <2>2. 1 < e
    BY <2>1
  <2> QED
    BY <1>1, <2>1, <2>2, Ordered
<1> QED
  BY <1>1, <1>2, <1>3, <1>4, <1>5, <1>6

\* A step within the last loop.
LEMMA DropKeeps ==
  ASSUME IInv, DropInv, ~ Ended, ~ Ended', ~ Failing,
         SameLoops(execs', execs), abandoned \subseteq abandoned',
         \A i \in 1 .. Top.initial - 1 : frames'[i] = frames[i],
         cleared' \cup lost' \subseteq abandoned',
         mode' \in {"return", "tailed"} => Ids(Pending') \subseteq abandoned'
  PROVE  DropInv'
<1>1. ASSUME NEW e \in 1 .. Len(execs'), execs'[e].site = "tail"
      PROVE  Ids(frames'[execs'[e].initial - 1]) \subseteq abandoned'
  <2>1. e \in 1 .. Len(execs) /\ execs[e].site = "tail" /\ execs'[e].initial = execs[e].initial
    BY <1>1 DEF SameLoops
  <2>2. execs[e].initial - 1 \in 1 .. Top.initial - 1
    <3>1. PICK n : n = execs[e].initial
      OBVIOUS
    <3>2. PICK m : m = Top.initial
      OBVIOUS
    <3>3. n \in Nat /\ m \in Nat /\ n <= m /\ (execs[e].site # "top" => n > 1)
      BY <2>1, <3>1, <3>2, InitialBounds
    <3>4. n > 1
      BY <2>1, <3>3
    <3>5. n - 1 \in 1 .. m - 1
      BY <3>3, <3>4
    <3> QED
      BY <3>1, <3>2, <3>5
  <2>3. Ids(frames[execs[e].initial - 1]) \subseteq abandoned
    BY <2>1 DEF DropInv
  <2> QED
    BY <2>1, <2>2, <2>3
<1> QED
  BY <1>1 DEF DropInv
------------------------------------------------------------------------------
(***************************************************************************)
(* Every step preserves PlaceInv.                                          *)
(***************************************************************************)
Numbers == 1 .. MaxDefers

LEMMA FramesNow ==
  ASSUME IInv
  PROVE  /\ frames \in Seq(Seq(Numbers))
         /\ ~ Ended => frames # <<>> /\ Pending \in Seq(Numbers)
         /\ ran \in Seq(1 .. MaxDefers)
         /\ deferCount \in Nat
<1>1. /\ frames \in Seq(Seq(1 .. MaxDefers)) /\ ran \in Seq(1 .. MaxDefers)
      /\ deferCount \in Nat
  BY DEF IInv, FrameInv, AccountInv
<1>2. ~ Ended => frames # <<>> /\ Pending \in Seq(1 .. MaxDefers)
  BY Running
<1> QED
  BY <1>1, <1>2 DEF Numbers

LEMMA FramePushed ==
  ASSUME IInv, PlaceInv, frames' = Append(frames, <<>>)
  PROVE  Waits(frames') = Waits(frames) /\ NoneTwice(frames')
<1>1. frames \in Seq(Seq(Numbers)) /\ NoneTwice(frames)
  BY FramesNow DEF PlaceInv
<1> QED
  BY <1>1, PushWaits

LEMMA FramePopped ==
  ASSUME IInv, PlaceInv, ~ Ended, frames' = Front(frames)
  PROVE  /\ Waits(frames') = Waits(frames) \ Ids(Pending)
         /\ Ids(Pending) \subseteq Waits(frames)
         /\ NoneTwice(frames')
<1>1. frames \in Seq(Seq(Numbers)) /\ frames # <<>> /\ NoneTwice(frames)
  BY FramesNow DEF PlaceInv
<1> QED
  BY <1>1, PopWaits DEF Pending

\* The frames with the latest deferred call taken off.
LEMMA LatestTaken ==
  ASSUME IInv, PlaceInv, ~ Ended, Pending # <<>>, NEW gs, gs = SetPending(Front(Pending))
  PROVE  /\ gs \in Seq(Seq(Numbers))
         /\ Waits(gs) = Waits(frames) \ {Last(Pending)}
         /\ Last(Pending) \in Waits(frames) /\ Last(Pending) \in 1 .. MaxDefers
         /\ NoneTwice(gs)
<1>1. frames \in Seq(Seq(Numbers)) /\ frames # <<>> /\ NoneTwice(frames) /\ Pending \in Seq(Numbers)
  BY FramesNow DEF PlaceInv
<1>2. /\ Waits(gs) = Waits(frames) \ {Last(Pending)}
      /\ Last(Pending) \in Waits(frames)
      /\ NoneTwice(gs)
  BY <1>1, TakeWaits DEF Pending, SetPending
<1>3. Front(Pending) \in Seq(Numbers) /\ Last(Pending) \in Numbers
  BY <1>1, FrontLast
<1>4. gs \in Seq(Seq(Numbers))
  BY <1>3, SetPendingFrames DEF Numbers
<1> QED
  BY <1>2, <1>3, <1>4 DEF Numbers

\* A step that leaves the frames, or adds one.
LEMMA CallPlaces ==
  ASSUME IInv, PlaceInv,
         InlineCall \/ NativeCall \/ NestedCall \/ TailCall \/ Fail \/ FailInTail \/ FailInCall \/ ReturnSlow
  PROVE  PlaceInv'
<1>1. UNCHANGED <<ran, cleared, lost, deferCount>>
  BY DEF InlineCall, NativeCall, NestedCall, TailCall, Fail, FailInTail, FailInCall, ReturnSlow, accounts
<1>2. frames' = frames \/ frames' = Append(frames, <<>>)
  BY DEF InlineCall, NativeCall, NestedCall, TailCall, Fail, FailInTail, FailInCall, ReturnSlow, Nest, LeaveFrame
<1>3. CASE frames' = frames
  BY <1>1, <1>3 DEF PlaceInv
<1>4. CASE frames' = Append(frames, <<>>)
  BY <1>1, <1>4, FramePushed, PlaceStays
<1> QED
  BY <1>2, <1>3, <1>4

LEMMA DeferPlaces ==
  ASSUME IInv, PlaceInv, Defer
  PROVE  PlaceInv'
<1>1. ~ Ended /\ deferCount < MaxDefers /\ deferCount' = deferCount + 1
      /\ frames' = SetPending(Append(Pending, deferCount + 1))
      /\ UNCHANGED <<ran, cleared, lost>>
  BY DEF Defer, Ended
<1>2. frames \in Seq(Seq(Numbers)) /\ frames # <<>> /\ NoneTwice(frames) /\ deferCount \in Nat
  BY <1>1, FramesNow DEF PlaceInv
<1>3. PICK d : d = deferCount + 1
  OBVIOUS
<1>4. d \in Numbers /\ d \notin Waits(frames)
  <2>1. deferCount \in Nat /\ deferCount < MaxDefers
    BY <1>1, <1>2
  <2>2. d \in 1 .. MaxDefers /\ d \notin 1 .. deferCount
    BY <1>3, <2>1, VmCallsAssumption
  <2>3. Waits(frames) \subseteq 1 .. deferCount
    BY DEF PlaceInv
  <2> QED
    BY <2>2, <2>3 DEF Numbers
<1>5. frames' = [frames EXCEPT ![Len(frames)] = Append(Last(frames), d)]
  BY <1>1, <1>3 DEF SetPending, Pending
<1>6. Waits(frames') = Waits(frames) \cup {d} /\ NoneTwice(frames')
  BY <1>2, <1>4, <1>5, DeferWaits
<1> QED
  BY <1>1, <1>2, <1>3, <1>6, PlaceNew

LEMMA DrainPlaces ==
  ASSUME IInv, PlaceInv, DrainNative \/ DrainCall \/ DrainCallFails \/ DrainPushFails
  PROVE  PlaceInv'
<1>1. ~ Ended /\ Pending # <<>> /\ UNCHANGED <<deferCount, cleared>>
  BY DEF DrainNative, DrainCall, DrainCallFails, DrainPushFails, Ended, accounts
<1>2. PICK gs : gs = SetPending(Front(Pending))
  OBVIOUS
<1>3. PICK d : d = Last(Pending)
  OBVIOUS
<1>4. /\ gs \in Seq(Seq(Numbers)) /\ Waits(gs) = Waits(frames) \ {d}
      /\ d \in Waits(frames) /\ d \in 1 .. MaxDefers
      /\ NoneTwice(gs)
  BY <1>1, <1>2, <1>3, LatestTaken
<1>5. frames' = gs \/ frames' = Append(gs, <<>>)
  BY <1>2 DEF DrainNative, DrainCall, DrainCallFails, DrainPushFails, Nest, LeaveFrame
<1>6. Waits(frames') = Waits(frames) \ {d} /\ NoneTwice(frames')
  BY <1>4, <1>5, PushWaits
<1>7. \/ ran' = Append(ran, d) /\ lost' = lost
      \/ ran' = ran /\ lost' = lost \cup {d}
  BY <1>3 DEF DrainNative, DrainCall, DrainCallFails, DrainPushFails, accounts
<1>8. CASE ran' = Append(ran, d) /\ lost' = lost
  BY <1>1, <1>4, <1>6, <1>8, FramesNow, PlaceRun
<1>9. CASE ran' = ran /\ lost' = lost \cup {d}
  <2>1. cleared' \cup lost' = cleared \cup lost \cup {d}
    BY <1>1, <1>9
  <2>2. {d} \subseteq Waits(frames)
    BY <1>4
  <2> QED
    BY <1>1, <1>6, <1>9, <2>1, <2>2, PlaceGone
<1> QED
  BY <1>7, <1>8, <1>9

\* A frame that ends takes what it has deferred with it.
LEMMA EndPlaces ==
  ASSUME IInv, PlaceInv,
         ReturnInline \/ DrainDone \/ LoopReturns \/ TailReturns \/ LoopFails \/ TailFails
  PROVE  PlaceInv'
<1>1. ~ Ended /\ UNCHANGED <<ran, deferCount>>
  BY DEF ReturnInline, DrainDone, LoopReturns, TailReturns, LoopFails, TailFails,
         EndInline, Ended, accounts
<1>2. Ids(<<>>) = {}
  <2>1. PICK e : e = <<>>
    OBVIOUS
  <2>2. e \in Seq(Numbers) /\ Len(e) = 0
    BY <2>1, EmptySeq
  <2>3. \A d : d \in Ids(e) <=> \E i \in 1 .. Len(e) : e[i] = d
    BY <2>2, IdsMean
  <2>4. \A i : i \notin 1 .. Len(e)
    BY <2>2
  <2> QED
    BY <2>1, <2>3, <2>4
<1>3. \/ frames' = frames /\ cleared' \cup lost' = cleared \cup lost
      \/ frames' = Front(frames) /\ cleared' \cup lost' = cleared \cup lost \cup Ids(Pending)
  <2>1. CASE ReturnInline \/ DrainDone
    BY <1>2, <2>1 DEF ReturnInline, DrainDone, accounts
  <2>2. CASE LoopReturns \/ LoopFails
    BY <2>2 DEF LoopReturns, LoopFails, PopFrame
  <2>3. CASE TailReturns \/ TailFails
    BY <2>3 DEF TailReturns, TailFails, EndInline, accounts
  <2> QED
    BY <2>1, <2>2, <2>3
<1>4. CASE frames' = frames /\ cleared' \cup lost' = cleared \cup lost
  BY <1>1, <1>4 DEF PlaceInv
<1>5. CASE frames' = Front(frames) /\ cleared' \cup lost' = cleared \cup lost \cup Ids(Pending)
  BY <1>1, <1>5, FramePopped, PlaceGone
<1> QED
  BY <1>3, <1>4, <1>5

LEMMA NoFrames == Waits(<<>>) = {} /\ NoneTwice(<<>>) /\ Ids(<<>>) = {} /\ Distinct(<<>>)
<1>1. PICK e : e = <<>>
  OBVIOUS
<1>2. e \in Seq(Seq(Numbers)) /\ e \in Seq(Numbers) /\ Len(e) = 0
  BY <1>1, EmptySeq
<1>3. \A i : i \notin 1 .. Len(e)
  BY <1>2
<1>4. \A d : d \in Waits(e) <=> \E i \in 1 .. Len(e) : d \in Ids(e[i])
  BY <1>2, WaitsMean
<1>5. \A d : d \in Ids(e) <=> \E i \in 1 .. Len(e) : e[i] = d
  BY <1>2, IdsMean
<1> QED
  BY <1>1, <1>3, <1>4, <1>5 DEF NoneTwice, Distinct

LEMMA RunPlaces ==
  ASSUME IInv, PlaceInv, Execute \/ Finish
  PROVE  PlaceInv'
<1>1. CASE Execute
  <2>1. frames' = Append(<<>>, <<>>) /\ ran' = <<>> /\ deferCount' = 0 /\ cleared' = {} /\ lost' = {}
    BY <1>1 DEF Execute
  <2>2. <<>> \in Seq(Seq(Numbers))
    BY EmptySeq
  <2>3. Waits(frames') = {} /\ NoneTwice(frames')
    BY <2>1, <2>2, NoFrames, PushWaits
  <2> QED
    BY <2>1, <2>3, NoFrames DEF PlaceInv
<1>2. CASE Finish
  <2>1. frames' = <<>> /\ cleared' = cleared \cup Waits(frames) /\ UNCHANGED <<ran, deferCount, lost>>
    BY <1>2 DEF Finish, Waits
  <2> QED
    BY <2>1, NoFrames DEF PlaceInv
<1> QED
  BY <1>1, <1>2

LEMMA NextPlaces ==
  ASSUME IInv, PlaceInv, [Next]_vars
  PROVE  PlaceInv'
<1>1. CASE UNCHANGED vars
  BY <1>1 DEF vars, accounts, PlaceInv
<1> QED
  BY <1>1, CallPlaces, DeferPlaces, DrainPlaces, EndPlaces, RunPlaces DEF Next, Work
------------------------------------------------------------------------------
(***************************************************************************)
(* Every step preserves DropInv.                                           *)
(***************************************************************************)
LEMMA FailingDrops ==
  ASSUME mode' \in {"fail", "tailfail"}
  PROVE  DropInv'
  BY DEF DropInv, Failing, Ended

\* The steps that start no loop and end none.
WithinLoop ==
  \/ InlineCall \/ NativeCall \/ Fail \/ FailInTail \/ FailInCall \/ Defer \/ ReturnSlow
  \/ ReturnInline \/ DrainNative \/ DrainCallFails \/ DrainPushFails \/ DrainDone
  \/ TailReturns \/ TailFails

LEMMA WithinLoopSame ==
  ASSUME IInv, WithinLoop
  PROVE  ~ Ended /\ ~ Ended' /\ SameLoops(execs', execs)
<1>1. ~ Ended /\ ~ Ended'
  BY DEF WithinLoop, InlineCall, NativeCall, Fail, FailInTail, FailInCall, Defer, ReturnSlow, ReturnInline,
         DrainNative, DrainCallFails, DrainPushFails, DrainDone, TailReturns, TailFails,
         EndInline, Ended
<1>2. execs \in Seq(Exec) /\ execs # <<>>
  BY <1>1, Running DEF IInv
<1>3. SameLoops(execs, execs) /\ execs \in MayMove /\ Moved(execs) \in MayMove
  BY <1>2 DEF SameLoops, MayMove
<1>4. \/ execs' = execs \/ execs' \in MayMove
      \/ \E es \in MayMove : execs' = Loaded(es)
  BY <1>3 DEF WithinLoop, InlineCall, NativeCall, Fail, FailInTail, FailInCall, Defer, ReturnSlow, ReturnInline,
         DrainNative, DrainCallFails, DrainPushFails, DrainDone, TailReturns, TailFails,
         EndInline, accounts
<1> QED
  BY <1>1, <1>2, <1>3, <1>4, MayMoveSame

\* They change nothing below the first frame of their loop.
LEMMA WithinLoopBelow ==
  ASSUME IInv, WithinLoop, NEW i \in 1 .. Top.initial - 1
  PROVE  frames'[i] = frames[i]
<1>1. ~ Ended
  BY WithinLoopSame
<1>2. /\ frames \in Seq(Seq(Numbers)) /\ frames # <<>> /\ Pending \in Seq(Numbers)
      /\ Len(frames) \in Nat \ {0} /\ Top.initial \in Nat /\ Len(frames) >= Top.initial
  BY <1>1, FramesNow, Running DEF IInv, LoopInv
<1>3. i \in 1 .. Len(frames) /\ i # Len(frames) /\ i \in 1 .. Len(frames) - 1
  BY <1>2
<1>4. <<>> \in Seq(Numbers)
  BY EmptySeq
<1>5. Append(frames, <<>>)[i] = frames[i]
  BY <1>2, <1>3, <1>4, AppendProperties
<1>6. Front(frames)[i] = frames[i]
  BY <1>2, <1>3, FrontLast
<1>7. ASSUME NEW ds PROVE SetPending(ds)[i] = frames[i]
  <2>1. DOMAIN frames = 1 .. Len(frames)
    BY <1>2, LenProperties
  <2> QED
    BY <1>3, <2>1 DEF SetPending
<1>8. ASSUME NEW ds \in Seq(Numbers) PROVE Append(SetPending(ds), <<>>)[i] = frames[i]
  <2>1. PICK gs : gs = SetPending(ds)
    OBVIOUS
  <2>2. gs \in Seq(Seq(Numbers)) /\ Len(gs) = Len(frames) /\ gs[i] = frames[i]
    BY <1>1, <1>7, <2>1, SetPendingFrames DEF Numbers
  <2>3. Append(gs, <<>>)[i] = gs[i]
    BY <1>3, <1>4, <2>2, AppendProperties
  <2> QED
    BY <2>1, <2>2, <2>3
<1>9. CASE \/ InlineCall \/ NativeCall \/ Fail \/ FailInTail \/ FailInCall \/ Defer \/ ReturnSlow
           \/ ReturnInline \/ DrainDone \/ TailReturns \/ TailFails
  BY <1>5, <1>6, <1>7, <1>9
  DEF InlineCall, NativeCall, Fail, FailInTail, FailInCall, LeaveFrame, Defer, ReturnSlow, ReturnInline,
      DrainDone, TailReturns, TailFails, EndInline
<1>10. CASE DrainNative \/ DrainPushFails
  BY <1>7, <1>10 DEF DrainNative, DrainPushFails
<1>11. CASE DrainCallFails
  <2>1. Front(Pending) \in Seq(Numbers)
    BY <1>2, <1>11, FrontLast DEF DrainCallFails
  <2> QED
    BY <1>8, <1>11, <2>1 DEF DrainCallFails, LeaveFrame
<1> QED
  BY <1>9, <1>10, <1>11 DEF WithinLoop

LEMMA WithinLoopDrops ==
  ASSUME IInv, DropInv, WithinLoop
  PROVE  DropInv'
<1>1. CASE mode' \in {"fail", "tailfail"}
  BY <1>1, FailingDrops
<1>2. CASE mode' \notin {"fail", "tailfail"}
  <2>1. ~ Ended /\ ~ Ended' /\ SameLoops(execs', execs) /\ ~ Failing
        /\ \A i \in 1 .. Top.initial - 1 : frames'[i] = frames[i]
    <3>1. mode \notin {"fail", "tailfail", "error"}
      BY <1>2 DEF WithinLoop, InlineCall, NativeCall, Fail, FailInTail, FailInCall, Defer, ReturnSlow,
         ReturnInline, DrainNative, DrainCallFails, DrainPushFails, DrainDone, TailReturns,
         TailFails, EndInline
    <3> QED
      BY <3>1, WithinLoopSame, WithinLoopBelow DEF Failing
  <2>2. cleared \cup lost \subseteq abandoned
        /\ (mode \in {"return", "tailed"} => Ids(Pending) \subseteq abandoned)
    BY <2>1 DEF DropInv
  <2>3. CASE \/ InlineCall \/ NativeCall \/ Defer \/ ReturnSlow \/ ReturnInline \/ DrainNative
             \/ DrainDone
    <3>1. UNCHANGED <<abandoned, cleared, lost>>
      BY <2>3 DEF InlineCall, NativeCall, Defer, ReturnSlow, ReturnInline, DrainNative,
                  DrainDone, accounts
    <3>2. \/ mode' \in {"run", "drain"}
          \/ mode' = "return" /\ Pending = <<>> /\ frames' = frames
      BY <1>2, <2>3 DEF InlineCall, NativeCall, Defer, ReturnSlow, ReturnInline, DrainNative, DrainDone
    <3>3. mode' \in {"return", "tailed"} => Ids(Pending') \subseteq abandoned'
      BY <3>2, NoFrames DEF Pending
    <3> QED
      BY <2>1, <2>2, <3>1, <3>3, DropKeeps
  <2>4. CASE TailReturns
    <3>1. UNCHANGED <<abandoned, cleared>> /\ mode = "tailed"
      BY <2>4 DEF TailReturns, EndInline, accounts
    <3>2. \/ mode' = "run" /\ lost' = lost \cup Ids(Pending)
          \/ mode' = "return" /\ frames' = frames /\ lost' = lost
      BY <2>4 DEF TailReturns, EndInline, accounts
    <3>3. mode' \in {"return", "tailed"} => Ids(Pending') \subseteq abandoned'
      BY <2>2, <3>1, <3>2 DEF Pending
    <3>4. cleared' \cup lost' \subseteq abandoned' /\ abandoned \subseteq abandoned'
      BY <2>2, <3>1, <3>2
    <3> QED
      BY <2>1, <3>3, <3>4, DropKeeps
  <2>5. CASE Fail \/ FailInTail \/ FailInCall \/ DrainCallFails \/ DrainPushFails \/ TailFails
    BY <1>2, <2>5 DEF Fail, FailInTail, FailInCall, DrainCallFails, DrainPushFails, TailFails, EndInline
  <2> QED
    BY <2>3, <2>4, <2>5 DEF WithinLoop
<1> QED
  BY <1>1, <1>2

\* A loop that starts has its caller just below.
LEMMA NestDrops ==
  ASSUME IInv, DropInv, NestedCall \/ TailCall \/ DrainCall
  PROVE  DropInv'
<1>1. PICK site \in {"call", "tail", "deferred"}, fs \in Seq(Seq(Numbers)) :
        /\ Nest(site, fs) /\ Len(fs) = Len(frames)
        /\ \A i \in 1 .. Top.initial - 1 : fs[i] = frames[i]
        /\ site = "tail" => fs[Len(frames)] = Pending /\ Ids(Pending) \subseteq abandoned'
  <2>1. ~ Ended
    BY DEF NestedCall, TailCall, DrainCall, Ended
  <2>2. /\ frames \in Seq(Seq(Numbers)) /\ frames # <<>> /\ Pending \in Seq(Numbers)
        /\ Len(frames) \in Nat \ {0} /\ Top.initial \in Nat /\ Len(frames) >= Top.initial
        /\ Pending = frames[Len(frames)] /\ DOMAIN frames = 1 .. Len(frames)
    BY <2>1, FramesNow, Running, FrontLast, LenProperties DEF IInv, LoopInv, Pending
  <2>3. CASE NestedCall
    BY <2>2, <2>3 DEF NestedCall
  <2>4. CASE TailCall
    <3>1. Nest("tail", frames) /\ Ids(Pending) \subseteq abandoned'
      BY <2>4 DEF TailCall
    <3> QED
      BY <2>2, <3>1
  <2>5. CASE DrainCall
    <3>1. PICK gs : gs = SetPending(Front(Pending))
      OBVIOUS
    <3>2. Front(Pending) \in Seq(Numbers)
      BY <2>2, <2>5, FrontLast DEF DrainCall
    <3>3. gs \in Seq(Seq(Numbers)) /\ Len(gs) = Len(frames)
      BY <2>1, <3>1, <3>2, SetPendingFrames DEF Numbers
    <3>4. \A i \in 1 .. Top.initial - 1 : gs[i] = frames[i]
      <4>1. Len(frames) \in Nat /\ Top.initial \in Nat /\ Len(frames) >= Top.initial
        BY <2>2
      <4>2. \A i \in 1 .. Top.initial - 1 : i \in 1 .. Len(frames) /\ i # Len(frames)
        BY <4>1
      <4> QED
        BY <2>2, <3>1, <4>2 DEF SetPending
    <3>5. Nest("deferred", gs)
      BY <2>5, <3>1 DEF DrainCall
    <3> QED
      BY <3>3, <3>4, <3>5
  <2> QED
    BY <2>3, <2>4, <2>5
<1>2. /\ mode \in {"run", "drain"} /\ mode' = "run" /\ ~ Ended /\ ~ Failing
      /\ abandoned \subseteq abandoned' /\ UNCHANGED <<cleared, lost>>
  BY DEF NestedCall, TailCall, DrainCall, Nest, accounts, Ended, Failing
<1>3. PICK es \in MayMove :
        execs' = Append(es, [initial |-> Len(fs) + 1, site |-> site, regs |-> "current"])
  BY <1>1 DEF Nest
<1>4. execs \in Seq(Exec) /\ execs # <<>> /\ SameLoops(es, execs)
  BY <1>2, <1>3, Running, MayMoveSame DEF IInv
<1>5. es \in Seq(Exec) /\ Len(es) = Len(execs) /\ Len(es) \in Nat
      /\ \A i \in 1 .. Len(es) : es[i].initial = execs[i].initial /\ es[i].site = execs[i].site
  BY <1>4, LenProperties DEF SameLoops
<1>6. PICK e : e = [initial |-> Len(fs) + 1, site |-> site, regs |-> "current"]
  OBVIOUS
<1>7. /\ Len(execs') = Len(es) + 1
      /\ \A i \in 1 .. Len(es) : execs'[i] = es[i]
      /\ execs'[Len(es) + 1] = e
  <2>1. es \in Seq(Exec \cup {e}) /\ e \in Exec \cup {e}
    BY <1>5, SeqMonotonic
  <2> QED
    BY <1>3, <1>6, <2>1, AppendProperties
<1>8. /\ frames' = Append(fs, <<>>) /\ <<>> \in Seq(Numbers) /\ Len(frames) \in Nat \ {0}
      /\ Top.initial \in Nat /\ Top.initial <= Len(frames)
  BY <1>1, <1>2, Running, EmptySeq DEF Nest, IInv, LoopInv
<1>9. \A i \in 1 .. Len(frames) : frames'[i] = fs[i]
  BY <1>1, <1>8, AppendProperties
<1>10. ASSUME NEW i \in 1 .. Len(execs'), execs'[i].site = "tail"
       PROVE  Ids(frames'[execs'[i].initial - 1]) \subseteq abandoned'
  <2>1. CASE i \in 1 .. Len(es)
    <3>1. i \in 1 .. Len(execs) /\ execs[i].site = "tail" /\ execs'[i].initial = execs[i].initial
      BY <1>5, <1>7, <1>10, <2>1
    <3>2. execs[i].initial - 1 \in 1 .. Top.initial - 1 /\ execs[i].initial - 1 \in 1 .. Len(frames)
      <4>1. execs[i].initial \in Nat /\ execs[i].initial > 1 /\ execs[i].initial <= Top.initial
        BY <1>2, <3>1, InitialBounds
      <4> QED
        BY <1>8, <4>1
    <3>3. Ids(frames[execs[i].initial - 1]) \subseteq abandoned
      BY <1>2, <3>1 DEF DropInv
    <3> QED
      BY <1>1, <1>2, <1>9, <3>1, <3>2, <3>3
  <2>2. CASE i = Len(es) + 1
    <3>1. execs'[i].initial - 1 = Len(frames) /\ site = "tail"
      BY <1>1, <1>6, <1>7, <1>8, <1>10, <2>2
    <3>2. frames'[Len(frames)] = Pending
      BY <1>1, <1>8, <1>9, <3>1
    <3> QED
      BY <1>1, <3>1, <3>2
  <2> QED
    BY <1>5, <1>7, <2>1, <2>2
<1> QED
  BY <1>2, <1>10 DEF DropInv, Ended, Failing

\* The end of a loop.
LEMMA EndDrops ==
  ASSUME IInv, DropInv, LoopReturns \/ LoopFails \/ Finish
  PROVE  DropInv'
<1>1. CASE LoopFails
  BY <1>1, FailingDrops DEF LoopFails
<1>2. CASE Finish
  <2>1. ~ Ended /\ frames' = <<>> /\ execs' = <<>> /\ mode' \in {"idle", "error"}
        /\ mode \in {"return", "fail"} /\ Top.site = "top"
        /\ UNCHANGED <<abandoned, lost>> /\ cleared' = cleared \cup Waits(frames)
    BY <1>2 DEF Finish, Ended, Waits
  <2>2. CASE mode = "fail"
    BY <1>2, <2>1, <2>2 DEF Finish, DropInv, Failing
  <2>3. CASE mode = "return"
    <3>1. /\ execs \in Seq(Exec) /\ execs # <<>> /\ Nested(execs)
          /\ Len(frames) = Top.initial /\ frames \in Seq(Seq(Numbers)) /\ frames # <<>>
      BY <2>1, <2>3, FramesNow DEF IInv, LoopInv
    <3>2. Len(execs) \in Nat \ {0} /\ Top = execs[Len(execs)]
      BY <3>1, FrontLast DEF Top
    <3>3. Len(execs) = 1
      <4>1. \A i \in 2 .. Len(execs) : execs[i].site # "top"
        BY <3>1 DEF Nested
      <4>2. Len(execs) \notin 2 .. Len(execs)
        BY <2>1, <3>2, <4>1
      <4> QED
        BY <3>2, <4>2
    <3>4. Len(frames) = 1
      BY <3>1, <3>2, <3>3 DEF Nested
    <3>5. Waits(frames) = Ids(Pending)
      <4>1. Pending = frames[1] /\ DOMAIN frames = 1 .. 1
        BY <3>1, <3>4, LenProperties, FrontLast DEF Pending
      <4>2. \A d : d \in Waits(frames) <=> \E i \in 1 .. 1 : d \in Ids(frames[i])
        BY <3>1, <3>4, WaitsMean
      <4>3. \A i \in 1 .. 1 : i = 1
        OBVIOUS
      <4> QED
        BY <4>1, <4>2, <4>3
    <3>6. cleared' \cup lost' \subseteq abandoned'
      BY <2>1, <2>3, <3>5 DEF DropInv, Failing
    <3>7. \A e : e \notin 1 .. Len(execs')
      <4>1. Len(execs') = 0
        BY <2>1, EmptySeq
      <4> QED
        BY <4>1
    <3> QED
      BY <1>2, <2>1, <2>3, <3>6, <3>7 DEF Finish, DropInv
  <2> QED
    BY <2>1, <2>2, <2>3
<1>3. CASE LoopReturns
  <2>1. /\ ~ Ended /\ mode = "return" /\ Top.site # "top" /\ PopFrame /\ EndLoop
        /\ UNCHANGED <<abandoned, lost>>
        /\ mode' = CASE Top.site = "call" -> "run"
                     [] Top.site = "deferred" -> "drain"
                     [] Top.site = "tail" -> "tailed"
    BY <1>3 DEF LoopReturns, Ended
  <2>2. Top.site \in {"call", "deferred", "tail"}
    BY <2>1, Running DEF Exec
  <2>3. mode' \in {"run", "drain", "tailed"} /\ (mode' = "tailed" => Top.site = "tail")
    BY <2>1, <2>2
  <2>4. /\ execs \in Seq(Exec) /\ execs # <<>> /\ Len(frames) = Top.initial
        /\ frames \in Seq(Seq(Numbers)) /\ frames # <<>>
    BY <2>1, FramesNow DEF IInv, LoopInv
  <2>5. PICK below : below = Front(execs)
    OBVIOUS
  <2>6. /\ below \in Seq(Exec) /\ Len(execs) \in Nat \ {0} /\ Len(below) = Len(execs) - 1
        /\ \A i \in 1 .. Len(execs) - 1 : below[i] = execs[i]
        /\ Top = execs[Len(execs)]
    BY <2>4, <2>5, FrontLast DEF Top
  <2>7. SameLoops(below, below) /\ (below # <<>> => SameLoops(Loaded(below), below))
    BY <2>6, LoadedSame DEF SameLoops
  <2>8. Len(execs) # 1
    BY <2>1, <2>6 DEF IInv, LoopInv, Nested
  <2>9. below # <<>>
    BY <2>6, <2>8, EmptySeq
  <2>10. SameLoops(execs', below)
    BY <2>1, <2>5, <2>7, <2>9 DEF EndLoop
  <2>11. /\ frames' = Front(frames) /\ Len(frames) \in Nat \ {0}
         /\ Len(Front(frames)) = Len(frames) - 1 /\ Front(frames) \in Seq(Seq(Numbers))
         /\ \A i \in 1 .. Len(frames) - 1 : frames'[i] = frames[i]
    BY <2>1, <2>4, FrontLast DEF PopFrame
  <2>12. cleared' \cup lost' \subseteq abandoned'
    BY <2>1 DEF PopFrame, DropInv, Failing
  <2>13. ASSUME NEW e \in 1 .. Len(execs'), execs'[e].site = "tail"
         PROVE  Ids(frames'[execs'[e].initial - 1]) \subseteq abandoned'
    <3>1. /\ e \in 1 .. Len(execs) - 1 /\ execs[e].site = "tail"
          /\ execs'[e].initial = execs[e].initial
      BY <2>6, <2>10, <2>13 DEF SameLoops
    <3>2. e \in 1 .. Len(execs) /\ e < Len(execs)
      BY <2>6, <3>1
    <3>3. /\ execs[e].initial \in Nat /\ execs[e].initial > 1 /\ execs[e].initial < Top.initial
      BY <2>1, <3>1, <3>2, InitialBounds
    <3>4. execs[e].initial - 1 \in 1 .. Len(frames) - 1
      <4>1. Len(frames) = Top.initial /\ Len(frames) \in Nat
        BY <2>4, <2>11
      <4> QED
        BY <3>3, <4>1
    <3>5. Ids(frames[execs[e].initial - 1]) \subseteq abandoned
      BY <2>1, <3>1, <3>2 DEF DropInv, Failing
    <3> QED
      BY <2>1, <2>11, <3>1, <3>4, <3>5
  <2>14. ASSUME mode' = "tailed" PROVE Ids(Pending') \subseteq abandoned'
    <3>1. Len(execs) \in 1 .. Len(execs) /\ execs[Len(execs)].site = "tail"
      BY <2>3, <2>6, <2>14
    <3>2. Top.initial > 1 /\ Ids(frames[Top.initial - 1]) \subseteq abandoned
      BY <2>1, <2>6, <3>1, InitialBounds DEF DropInv, Failing
    <3>3. Len(frames) - 1 \in 1 .. Len(frames) - 1
      BY <2>4, <2>11, <3>2
    <3>4. Pending' = frames[Len(frames) - 1]
      BY <2>11, <3>3 DEF Pending, Last
    <3> QED
      BY <2>1, <2>4, <3>2, <3>4
  <2> QED
    BY <2>3, <2>12, <2>13, <2>14 DEF DropInv, Ended, Failing
<1> QED
  BY <1>1, <1>2, <1>3

LEMMA ExecuteDrops ==
  ASSUME Execute
  PROVE  DropInv'
<1>1. PICK e : e = [initial |-> 1, site |-> "top", regs |-> "current"]
  OBVIOUS
<1>2. execs' = Append(<<>>, e) /\ mode' = "run" /\ cleared' = {} /\ lost' = {}
  BY <1>1 DEF Execute
<1>3. Len(execs') = 1 /\ execs'[1] = e
  <2>1. <<>> \in Seq({e}) /\ Len(<<>>) = 0 /\ e \in {e}
    BY EmptySeq
  <2> QED
    BY <1>2, <2>1, AppendProperties
<1>4. \A i \in 1 .. Len(execs') : execs'[i].site # "tail"
  BY <1>1, <1>3
<1> QED
  BY <1>2, <1>4 DEF DropInv, Ended

LEMMA NextDrops ==
  ASSUME IInv, DropInv, [Next]_vars
  PROVE  DropInv'
<1>1. CASE UNCHANGED vars
  BY <1>1 DEF vars, accounts, DropInv, Ended, Failing, Pending
<1>2. CASE Next
  BY <1>2, WithinLoopDrops, NestDrops, EndDrops, ExecuteDrops DEF Next, Work, WithinLoop
<1> QED
  BY <1>1, <1>2

LEMMA InitDefers ==
  ASSUME Init
  PROVE  PlaceInv /\ DropInv
<1>1. PlaceInv
  BY NoFrames DEF Init, PlaceInv
<1>2. \A e : e \notin 1 .. Len(execs)
  <2>1. Len(execs) = 0
    BY EmptySeq DEF Init
  <2> QED
    BY <2>1
<1>3. DropInv
  BY <1>2 DEF Init, DropInv
<1> QED
  BY <1>1, <1>3
------------------------------------------------------------------------------
\* Where each deferred call is, and which may have been given up.
THEOREM DeferInvariance == Spec => []DeferInv
<1>1. Init => DeferInv
  BY InitIInv, InitDefers DEF DeferInv
<1>2. DeferInv /\ [Next]_vars => DeferInv'
  BY NextIInv, NextPlaces, NextDrops DEF DeferInv
<1> QED
  BY <1>1, <1>2, PTL DEF Spec

\* A sequence without duplicates has as many places as elements.
LEMMA CountDistinct ==
  ASSUME NEW D, NEW s \in Seq(D), Distinct(s)
  PROVE  IsFiniteSet(Ids(s)) /\ Cardinality(Ids(s)) = Len(s)
<1>1. /\ Len(s) \in Nat /\ DOMAIN s = 1 .. Len(s) /\ s \in [1 .. Len(s) -> D]
      /\ \A d : d \in Ids(s) <=> \E i \in 1 .. Len(s) : s[i] = d
  BY IdsMean, LenProperties
<1>2. IsFiniteSet(1 .. Len(s)) /\ Cardinality(1 .. Len(s)) = Len(s)
  BY <1>1, FS_Interval
<1>3. s \in Bijection(1 .. Len(s), Ids(s))
  BY <1>1 DEF Bijection, Injection, Surjection, IsInjective, Distinct
<1>4. ExistsBijection(1 .. Len(s), Ids(s))
  BY <1>3 DEF ExistsBijection
<1> QED
  BY <1>2, <1>4, FS_Bijection

\* Each deferred call waits in one frame, has been started once, or has been
\* given up; none of them twice (regvm.c:1130, vm.c:1005).
THEOREM DefersAccountedForAlways == Spec => []DefersAccountedFor
<1>1. ASSUME DeferInv PROVE DefersAccountedFor
  <2> DEFINE W == Waits(frames)
             R == Ids(ran)
             G == cleared \cup lost
  <2>1. /\ W \cup R \cup G = 1 .. deferCount
        /\ W \cap R = {} /\ (W \cup R) \cap G = {}
        /\ Distinct(ran) /\ ran \in Seq(1 .. MaxDefers) /\ deferCount \in Nat
    BY <1>1, FramesNow DEF DeferInv, PlaceInv
  <2>2. Len(ran) + Cardinality(W \cup G) = deferCount
    <3>1. /\ IsFiniteSet(1 .. deferCount) /\ Cardinality(1 .. deferCount) = deferCount
      BY <2>1, FS_Interval
    <3>2. IsFiniteSet(R) /\ Cardinality(R) = Len(ran)
      BY <2>1, CountDistinct
    <3> HIDE DEF W, R, G
    <3>3. (W \cup G) \in SUBSET (1 .. deferCount) /\ (1 .. deferCount) = R \cup (W \cup G)
          /\ R \cap (W \cup G) = {}
      BY <2>1
    <3>4. IsFiniteSet(W \cup G)
      BY <3>1, <3>3, FS_Subset
    <3>5. Cardinality(R \cup (W \cup G))
            = Cardinality(R) + Cardinality(W \cup G) - Cardinality(R \cap (W \cup G))
      BY <3>2, <3>4, FS_Union
    <3>6. Cardinality({}) = 0 /\ Cardinality(R) \in Nat /\ Cardinality(W \cup G) \in Nat
      BY <3>2, <3>4, FS_EmptySet, FS_CardinalityType
    <3>7. deferCount = Cardinality(R) + Cardinality(W \cup G)
      <4>1. Cardinality(R \cap (W \cup G)) = 0
        BY <3>3, <3>6
      <4>2. deferCount = Cardinality(R \cup (W \cup G))
        BY <3>1, <3>3
      <4> QED
        BY <3>5, <3>6, <4>1, <4>2
    <3> QED
      BY <3>2, <3>7
  <2>3. W \cup cleared \cup lost = W \cup G /\ W \cup R \cup cleared \cup lost = W \cup R \cup G
    OBVIOUS
  <2> QED
    BY <2>1, <2>2, <2>3 DEF DefersAccountedFor, Waits
<1> QED
  BY <1>1, DeferInvariance, PTL

\* A program that succeeds has run every deferred call that no tail call gave
\* up, and without a failure the memory of no other is lost (regvm.c:5990).
THEOREM OnlyTailCallsDropAlways == Spec => []OnlyTailCallsDrop
<1>1. ASSUME DeferInv PROVE OnlyTailCallsDrop
  <2>1. ASSUME mode = "idle"
        PROVE  1 .. deferCount \subseteq Ids(ran) \cup abandoned
    <3>1. frames = <<>> /\ cleared \cup lost \subseteq abandoned
      BY <1>1, <2>1 DEF DeferInv, DropInv, Ended, Failing
    <3>2. Waits(frames) = {}
      BY <3>1, NoFrames
    <3> QED
      BY <1>1, <3>1, <3>2 DEF DeferInv, PlaceInv
  <2>2. mode \notin {"fail", "tailfail", "error"} => lost \subseteq abandoned
    BY <1>1 DEF DeferInv, DropInv, Failing
  <2> QED
    BY <2>1, <2>2 DEF OnlyTailCallsDrop
<1> QED
  BY <1>1, DeferInvariance, PTL
------------------------------------------------------------------------------
(***************************************************************************)
(* The refinement of CallStack: whichever way the calls of the VM are      *)
(* made, they are a plain stack of activations.                            *)
(***************************************************************************)
Kind == {"top", "call", "tail", "deferred"}

\* Site, GaveUp, Kinds and Waiting as functions of the VM's state.
SiteIn(es, i) ==
  IF \E e \in DOMAIN es : es[e].initial = i
    THEN es[CHOOSE e \in DOMAIN es : es[e].initial = i].site
    ELSE "call"

KindSeq(es, n) == [i \in 1 .. n |-> SiteIn(es, i)]

GaveUpIn(fs, es, m, i) ==
  \/ i < Len(fs) /\ SiteIn(es, i + 1) = "tail"
  \/ i = Len(fs) /\ m \in {"tailed", "return"}

WaitSeq(fs, es, m) ==
  [i \in 1 .. Len(fs) |-> IF GaveUpIn(fs, es, m, i) THEN <<>> ELSE fs[i]]

\* What the activation that runs has deferred.
LastWait(fs, m) == IF m \in {"tailed", "return"} THEN <<>> ELSE fs[Len(fs)]
------------------------------------------------------------------------------
(***************************************************************************)
(* Sequences, by their elements.                                           *)
(***************************************************************************)
AppendOf(t, S, s, x) ==
  /\ t \in Seq(S) /\ Len(t) = Len(s) + 1
  /\ \A i \in 1 .. Len(s) : t[i] = s[i]
  /\ t[Len(s) + 1] = x

FrontOf(t, S, s) ==
  /\ t \in Seq(S) /\ Len(t) = Len(s) - 1
  /\ \A i \in 1 .. Len(s) - 1 : t[i] = s[i]

\* The last element is another.
ChangeOf(t, S, s, x) ==
  /\ t \in Seq(S) /\ Len(t) = Len(s)
  /\ \A i \in 1 .. Len(s) - 1 : t[i] = s[i]
  /\ t[Len(s)] = x

LEMMA Appends ==
  ASSUME NEW S, NEW s \in Seq(S), NEW x \in S
  PROVE  AppendOf(Append(s, x), S, s, x)
  BY AppendProperties DEF AppendOf

LEMMA Fronts ==
  ASSUME NEW S, NEW s \in Seq(S), s # <<>>
  PROVE  FrontOf(Front(s), S, s)
  BY FrontLast DEF FrontOf

LEMMA Changes ==
  ASSUME NEW S, NEW s \in Seq(S), s # <<>>, NEW x \in S
  PROVE  ChangeOf(Append(Front(s), x), S, s, x)
<1>1. PICK f, t : f = Front(s) /\ t = Append(f, x)
  OBVIOUS
<1>2. FrontOf(f, S, s) /\ Len(s) \in Nat \ {0}
  BY <1>1, Fronts, FrontLast
<1>3. AppendOf(t, S, f, x)
  BY <1>1, <1>2, Appends DEF FrontOf
<1>4. ChangeOf(t, S, s, x)
  BY <1>2, <1>3 DEF FrontOf, AppendOf, ChangeOf
<1> QED
  BY <1>1, <1>4

LEMMA IsAppend ==
  ASSUME NEW S, NEW s \in Seq(S), NEW x \in S, NEW t, AppendOf(t, S, s, x)
  PROVE  t = Append(s, x)
<1>1. PICK a : a = Append(s, x)
  OBVIOUS
<1>2. AppendOf(a, S, s, x) /\ Len(s) \in Nat
  BY <1>1, Appends, LenProperties
<1>3. a \in Seq(S) /\ t \in Seq(S) /\ Len(t) = Len(a) /\ \A i \in 1 .. Len(t) : t[i] = a[i]
  BY <1>2 DEF AppendOf
<1> QED
  BY <1>1, <1>3, SeqEqual

LEMMA IsFront ==
  ASSUME NEW S, NEW s \in Seq(S), s # <<>>, NEW t, FrontOf(t, S, s)
  PROVE  t = Front(s)
<1>1. FrontOf(Front(s), S, s)
  BY Fronts
<1>2. /\ Front(s) \in Seq(S) /\ t \in Seq(S) /\ Len(t) = Len(Front(s))
      /\ \A i \in 1 .. Len(t) : t[i] = Front(s)[i]
  BY <1>1 DEF FrontOf
<1> QED
  BY <1>2, SeqEqual

LEMMA IsChange ==
  ASSUME NEW S, NEW s \in Seq(S), s # <<>>, NEW x \in S, NEW t, ChangeOf(t, S, s, x)
  PROVE  t = Append(Front(s), x)
<1>1. PICK a : a = Append(Front(s), x)
  OBVIOUS
<1>2. ChangeOf(a, S, s, x) /\ Len(s) \in Nat \ {0}
  BY <1>1, Changes, FrontLast
<1>3. a \in Seq(S) /\ t \in Seq(S) /\ Len(t) = Len(a) /\ \A i \in 1 .. Len(t) : t[i] = a[i]
  BY <1>2 DEF ChangeOf
<1> QED
  BY <1>1, <1>3, SeqEqual
------------------------------------------------------------------------------
(***************************************************************************)
(* The site of the loop that begins at a frame.                            *)
(***************************************************************************)
LEMMA SiteCases ==
  ASSUME NEW es \in Seq(Exec), NEW i
  PROVE  /\ SiteIn(es, i) \in Kind
         /\ \/ \E e \in 1 .. Len(es) : es[e].initial = i /\ SiteIn(es, i) = es[e].site
            \/ (\A e \in 1 .. Len(es) : es[e].initial # i) /\ SiteIn(es, i) = "call"
<1>1. DOMAIN es = 1 .. Len(es) /\ \A e \in 1 .. Len(es) : es[e].site \in Kind
  <2>1. DOMAIN es = 1 .. Len(es)
    BY LenProperties
  <2>2. \A e \in 1 .. Len(es) : es[e] \in Exec
    BY ElementOfSeq
  <2> QED
    BY <2>1, <2>2 DEF Exec, Kind
<1>2. CASE \E e \in 1 .. Len(es) : es[e].initial = i
  <2>1. PICK c : c = CHOOSE e \in DOMAIN es : es[e].initial = i
    OBVIOUS
  <2>2. c \in 1 .. Len(es) /\ es[c].initial = i
    BY <1>1, <1>2, <2>1
  <2>3. SiteIn(es, i) = es[c].site
    BY <1>1, <1>2, <2>1 DEF SiteIn
  <2> QED
    BY <1>1, <2>2, <2>3
<1>3. CASE \A e \in 1 .. Len(es) : es[e].initial # i
  BY <1>1, <1>3 DEF SiteIn, Kind
<1> QED
  BY <1>2, <1>3

\* No two loops begin at one frame.
LEMMA SiteOf ==
  ASSUME NEW es \in Seq(Exec), Nested(es), NEW e \in 1 .. Len(es)
  PROVE  SiteIn(es, es[e].initial) = es[e].site
<1>1. PICK d \in 1 .. Len(es) :
        es[d].initial = es[e].initial /\ SiteIn(es, es[e].initial) = es[d].site
  BY SiteCases
<1>2. Len(es) \in Nat /\ es[e].initial \in Nat
  <2>1. Len(es) \in Nat /\ es[e] \in Exec
    BY LenProperties, ElementOfSeq
  <2> QED
    BY <2>1 DEF Exec
<1>3. ~ (d < e) /\ ~ (e < d)
  BY <1>1, <1>2, Ordered
<1>4. d = e
  BY <1>2, <1>3
<1> QED
  BY <1>1, <1>4

\* The pointers to the registers do not matter.
LEMMA SameSites ==
  ASSUME NEW es \in Seq(Exec), es # <<>>, Nested(es), NEW gs, SameLoops(gs, es), NEW i
  PROVE  SiteIn(gs, i) = SiteIn(es, i)
<1>1. /\ gs \in Seq(Exec) /\ Len(gs) = Len(es)
      /\ \A e \in 1 .. Len(es) : gs[e].initial = es[e].initial /\ gs[e].site = es[e].site
  BY DEF SameLoops
<1>2. CASE \E e \in 1 .. Len(gs) : gs[e].initial = i /\ SiteIn(gs, i) = gs[e].site
  BY <1>1, <1>2, SiteOf
<1>3. CASE (\A e \in 1 .. Len(gs) : gs[e].initial # i) /\ SiteIn(gs, i) = "call"
  BY <1>1, <1>3, SiteCases
<1> QED
  BY <1>1, <1>2, <1>3, SiteCases

\* Nor does the last loop, except where it begins.
LEMMA BelowSites ==
  ASSUME NEW es \in Seq(Exec), es # <<>>, Nested(es), NEW gs \in Seq(Exec),
         Len(gs) = Len(es) - 1,
         \A e \in 1 .. Len(gs) : gs[e].initial = es[e].initial /\ gs[e].site = es[e].site,
         NEW i, i # Last(es).initial
  PROVE  SiteIn(gs, i) = SiteIn(es, i)
<1>1. Len(es) \in Nat \ {0} /\ Last(es) = es[Len(es)]
  BY FrontLast
<1>2. \A e \in 1 .. Len(gs) : e \in 1 .. Len(es)
  BY <1>1
<1>3. \A e \in 1 .. Len(es) : e \in 1 .. Len(gs) \/ es[e].initial # i
  BY <1>1
<1>4. CASE \E e \in 1 .. Len(gs) : gs[e].initial = i /\ SiteIn(gs, i) = gs[e].site
  BY <1>2, <1>4, SiteOf
<1>5. CASE (\A e \in 1 .. Len(gs) : gs[e].initial # i) /\ SiteIn(gs, i) = "call"
  BY <1>3, <1>5, SiteCases
<1> QED
  BY <1>4, <1>5, SiteCases
------------------------------------------------------------------------------
(***************************************************************************)
(* What the activations are, and what they have deferred.                  *)
(***************************************************************************)
LEMMA KindElements ==
  ASSUME NEW es \in Seq(Exec), NEW n \in Nat
  PROVE  /\ KindSeq(es, n) \in Seq(Kind) /\ Len(KindSeq(es, n)) = n
         /\ \A i \in 1 .. n : KindSeq(es, n)[i] = SiteIn(es, i)
<1>1. \A i \in 1 .. n : SiteIn(es, i) \in Kind
  BY SiteCases
<1>2. KindSeq(es, n) \in Seq(Kind)
  BY <1>1, IsASeq DEF KindSeq
<1>3. DOMAIN KindSeq(es, n) = 1 .. n
  BY DEF KindSeq
<1>4. Len(KindSeq(es, n)) = n
  BY <1>2, <1>3, LenProperties
<1> QED
  BY <1>2, <1>4 DEF KindSeq

WaitsOf(w, D, fs, es, m) ==
  /\ w \in Seq(Seq(D)) /\ w # <<>> /\ Len(w) = Len(fs)
  /\ \A i \in 1 .. Len(fs) - 1 :
       w[i] = IF SiteIn(es, i + 1) = "tail" THEN <<>> ELSE fs[i]
  /\ w[Len(fs)] = LastWait(fs, m) /\ LastWait(fs, m) \in Seq(D)

LEMMA WaitElements ==
  ASSUME NEW D, NEW fs \in Seq(Seq(D)), fs # <<>>, NEW es, NEW m
  PROVE  WaitsOf(WaitSeq(fs, es, m), D, fs, es, m)
<1>1. /\ Len(fs) \in Nat \ {0} /\ <<>> \in Seq(D)
      /\ \A i \in 1 .. Len(fs) : fs[i] \in Seq(D)
  BY EmptySeq, ElementOfSeq
<1>2. \A i \in 1 .. Len(fs) : (IF GaveUpIn(fs, es, m, i) THEN <<>> ELSE fs[i]) \in Seq(D)
  BY <1>1
<1>3. WaitSeq(fs, es, m) \in Seq(Seq(D))
  BY <1>1, <1>2, IsASeq DEF WaitSeq
<1>4. DOMAIN WaitSeq(fs, es, m) = 1 .. Len(fs)
  BY DEF WaitSeq
<1>5. Len(WaitSeq(fs, es, m)) = Len(fs)
  BY <1>1, <1>3, <1>4, LenProperties
<1>6. \A i \in 1 .. Len(fs) :
        WaitSeq(fs, es, m)[i] = IF GaveUpIn(fs, es, m, i) THEN <<>> ELSE fs[i]
  BY DEF WaitSeq
<1>7. \A i \in 1 .. Len(fs) - 1 :
        i \in 1 .. Len(fs) /\ (GaveUpIn(fs, es, m, i) <=> SiteIn(es, i + 1) = "tail")
  BY <1>1 DEF GaveUpIn
<1>8. \A i \in 1 .. Len(fs) - 1 :
        WaitSeq(fs, es, m)[i] = IF SiteIn(es, i + 1) = "tail" THEN <<>> ELSE fs[i]
  BY <1>6, <1>7
<1>9. Len(fs) \in 1 .. Len(fs)
  BY <1>1
<1>10. GaveUpIn(fs, es, m, Len(fs)) <=> m \in {"tailed", "return"}
  BY <1>1 DEF GaveUpIn
<1>11. WaitSeq(fs, es, m) # <<>>
  BY <1>1, <1>5, EmptySeq
<1>12. WaitSeq(fs, es, m)[Len(fs)] = LastWait(fs, m) /\ LastWait(fs, m) \in Seq(D)
  BY <1>1, <1>6, <1>9, <1>10 DEF LastWait
<1> QED
  BY <1>3, <1>5, <1>8, <1>11, <1>12 DEF WaitsOf

\* Two states whose stacks agree below the last frame, and on the loops.
SameBelow(gs, fs) ==
  Len(gs) = Len(fs) /\ \A i \in 1 .. Len(fs) - 1 : gs[i] = fs[i]

SameSitesTo(n, hs, es) == \A i \in 1 .. n : SiteIn(hs, i) = SiteIn(es, i)

\* The activations after a step.
LEMMA KindsKept ==
  ASSUME NEW es \in Seq(Exec), NEW gs \in Seq(Exec), NEW n \in Nat,
         \A i \in 1 .. n : SiteIn(gs, i) = SiteIn(es, i)
  PROVE  KindSeq(gs, n) = KindSeq(es, n)
  BY DEF KindSeq

LEMMA KindsPushed ==
  ASSUME NEW es \in Seq(Exec), NEW gs \in Seq(Exec), NEW n \in Nat,
         \A i \in 1 .. n : SiteIn(gs, i) = SiteIn(es, i)
  PROVE  KindSeq(gs, n + 1) = Append(KindSeq(es, n), SiteIn(gs, n + 1))
<1>1. /\ KindSeq(es, n) \in Seq(Kind) /\ Len(KindSeq(es, n)) = n
      /\ \A i \in 1 .. n : KindSeq(es, n)[i] = SiteIn(es, i)
  BY KindElements
<1>2. /\ KindSeq(gs, n + 1) \in Seq(Kind) /\ Len(KindSeq(gs, n + 1)) = n + 1
      /\ \A i \in 1 .. n + 1 : KindSeq(gs, n + 1)[i] = SiteIn(gs, i)
  <2>1. n + 1 \in Nat
    OBVIOUS
  <2> QED
    BY <2>1, KindElements
<1>3. n + 1 \in 1 .. n + 1 /\ \A i \in 1 .. n : i \in 1 .. n + 1
  OBVIOUS
<1>4. SiteIn(gs, n + 1) \in Kind
  BY SiteCases
<1>5. AppendOf(KindSeq(gs, n + 1), Kind, KindSeq(es, n), SiteIn(gs, n + 1))
  BY <1>1, <1>2, <1>3 DEF AppendOf
<1> QED
  BY <1>1, <1>4, <1>5, IsAppend

LEMMA KindsPopped ==
  ASSUME NEW es \in Seq(Exec), NEW gs \in Seq(Exec), NEW n \in Nat \ {0},
         \A i \in 1 .. n - 1 : SiteIn(gs, i) = SiteIn(es, i)
  PROVE  /\ KindSeq(gs, n - 1) = Front(KindSeq(es, n))
         /\ Last(KindSeq(es, n)) = SiteIn(es, n)
<1>1. /\ KindSeq(es, n) \in Seq(Kind) /\ Len(KindSeq(es, n)) = n
      /\ \A i \in 1 .. n : KindSeq(es, n)[i] = SiteIn(es, i)
  BY KindElements
<1>2. /\ KindSeq(gs, n - 1) \in Seq(Kind) /\ Len(KindSeq(gs, n - 1)) = n - 1
      /\ \A i \in 1 .. n - 1 : KindSeq(gs, n - 1)[i] = SiteIn(gs, i)
  <2>1. n - 1 \in Nat
    OBVIOUS
  <2> QED
    BY <2>1, KindElements
<1>3. n \in 1 .. n /\ \A i \in 1 .. n - 1 : i \in 1 .. n
  OBVIOUS
<1>4. KindSeq(es, n) # <<>>
  BY <1>1, EmptySeq
<1>5. Last(KindSeq(es, n)) = SiteIn(es, n)
  BY <1>1, <1>3, <1>4, FrontLast
<1>6. FrontOf(KindSeq(gs, n - 1), Kind, KindSeq(es, n))
  BY <1>1, <1>2, <1>3 DEF FrontOf
<1> QED
  BY <1>1, <1>4, <1>5, <1>6, IsFront

\* What they have deferred after a step: with another last element, with a
\* new activation, or without the last one.
LEMMA WaitsChange ==
  ASSUME NEW D, NEW fs, NEW gs, Len(fs) \in Nat \ {0}, Len(gs) = Len(fs),
         NEW es, NEW hs, NEW m, NEW o, NEW w, NEW x,
         WaitsOf(w, D, fs, es, m), WaitsOf(x, D, gs, hs, o),
         \A i \in 1 .. Len(fs) - 1 : gs[i] = fs[i],
         \A i \in 1 .. Len(fs) : SiteIn(hs, i) = SiteIn(es, i)
  PROVE  ChangeOf(x, Seq(D), w, LastWait(gs, o))
<1>1. \A i \in 1 .. Len(fs) - 1 : i + 1 \in 1 .. Len(fs)
  OBVIOUS
<1>2. \A i \in 1 .. Len(fs) - 1 : x[i] = w[i]
  BY <1>1 DEF WaitsOf
<1> QED
  BY <1>2 DEF WaitsOf, ChangeOf

LEMMA WaitsSet ==
  ASSUME NEW D, NEW fs \in Seq(Seq(D)), fs # <<>>, NEW gs \in Seq(Seq(D)), SameBelow(gs, fs),
         NEW es, NEW hs, NEW m, NEW o, SameSitesTo(Len(fs), hs, es),
         NEW w, w = WaitSeq(fs, es, m), NEW x, x = WaitSeq(gs, hs, o)
  PROVE  x = Append(Front(w), LastWait(gs, o))
<1>1. gs # <<>> /\ Len(fs) \in Nat \ {0}
  BY EmptySeq DEF SameBelow
<1>2. WaitsOf(w, D, fs, es, m) /\ WaitsOf(x, D, gs, hs, o)
  BY <1>1, WaitElements
<1>3. ChangeOf(x, Seq(D), w, LastWait(gs, o))
  BY <1>1, <1>2, WaitsChange DEF SameBelow, SameSitesTo
<1>4. /\ w \in Seq(Seq(D)) /\ w # <<>>
      /\ LastWait(gs, o) \in Seq(D)
  BY <1>2 DEF WaitsOf
<1> QED
  BY <1>3, <1>4, IsChange, Zenon

LEMMA WaitsPush ==
  ASSUME NEW D, NEW fs, NEW gs, Len(fs) \in Nat \ {0}, SameBelow(gs, fs),
         NEW es, NEW hs, NEW m, NEW o, o \notin {"tailed", "return"}, NEW w, NEW ps, NEW x, NEW t,
         AppendOf(ps, Seq(D), gs, <<>>),
         WaitsOf(w, D, fs, es, m), WaitsOf(x, D, ps, hs, o),
         SameSitesTo(Len(fs), hs, es),
         NEW last, last = IF SiteIn(hs, Len(fs) + 1) = "tail" THEN <<>> ELSE gs[Len(gs)],
         ChangeOf(t, Seq(D), w, last)
  PROVE  AppendOf(x, Seq(D), t, <<>>)
<1>1. /\ Len(ps) = Len(fs) + 1 /\ Len(x) = Len(ps) /\ Len(w) = Len(fs) /\ Len(t) = Len(fs)
      /\ x \in Seq(Seq(D)) /\ Len(gs) = Len(fs)
  BY DEF AppendOf, WaitsOf, ChangeOf, SameBelow
<1>2. x[Len(fs) + 1] = <<>>
  BY <1>1 DEF WaitsOf, AppendOf, LastWait
<1>3. x[Len(fs)] = t[Len(fs)]
  <2>1. Len(fs) \in 1 .. Len(ps) - 1 /\ Len(fs) \in 1 .. Len(gs)
    BY <1>1
  <2>2. ps[Len(fs)] = gs[Len(fs)]
    BY <2>1 DEF AppendOf
  <2>3. x[Len(fs)] = last
    BY <1>1, <2>1, <2>2 DEF WaitsOf
  <2> QED
    BY <1>1, <2>3 DEF ChangeOf
<1>4. ASSUME NEW i \in 1 .. Len(fs) - 1 PROVE x[i] = t[i]
  <2>1. i \in 1 .. Len(ps) - 1 /\ i \in 1 .. Len(gs) /\ i + 1 \in 1 .. Len(fs)
    BY <1>1
  <2>2. ps[i] = fs[i] /\ SiteIn(hs, i + 1) = SiteIn(es, i + 1)
    BY <2>1 DEF AppendOf, SameBelow, SameSitesTo
  <2>3. x[i] = w[i]
    BY <2>1, <2>2 DEF WaitsOf
  <2> QED
    BY <1>1, <2>3 DEF ChangeOf
<1>5. \A i \in 1 .. Len(t) : x[i] = t[i]
  <2>1. Len(fs) \in Nat \ {0} /\ Len(t) = Len(fs)
    BY <1>1
  <2>2. \A i \in 1 .. Len(t) : i \in 1 .. Len(fs) - 1 \/ i = Len(fs)
    BY <2>1
  <2> QED
    BY <1>3, <1>4, <2>2
<1> QED
  BY <1>1, <1>2, <1>5 DEF AppendOf

\* gs below a new frame, last what the caller has deferred then.
PushedOn(D, fs, gs, ps, es, hs, last) ==
  /\ fs \in Seq(Seq(D)) /\ fs # <<>> /\ gs \in Seq(Seq(D)) /\ SameBelow(gs, fs)
  /\ AppendOf(ps, Seq(D), gs, <<>>)
  /\ SameSitesTo(Len(fs), hs, es)
  /\ last = IF SiteIn(hs, Len(fs) + 1) = "tail" THEN <<>> ELSE gs[Len(gs)]

LEMMA WaitsPushed ==
  ASSUME NEW D, NEW fs, NEW gs, NEW ps, NEW es, NEW hs, NEW last, PushedOn(D, fs, gs, ps, es, hs, last),
         NEW m, NEW o, o \notin {"tailed", "return"},
         NEW w, w = WaitSeq(fs, es, m), NEW x, x = WaitSeq(ps, hs, o)
  PROVE  x = Append(Append(Front(w), last), <<>>)
<1>1. /\ fs \in Seq(Seq(D)) /\ fs # <<>> /\ gs \in Seq(Seq(D)) /\ SameBelow(gs, fs)
      /\ AppendOf(ps, Seq(D), gs, <<>>)
      /\ SameSitesTo(Len(fs), hs, es)
      /\ last = IF SiteIn(hs, Len(fs) + 1) = "tail" THEN <<>> ELSE gs[Len(gs)]
  BY DEF PushedOn
<1>2. PICK t : t = Append(Front(w), last)
  OBVIOUS
<1>3. gs # <<>> /\ Len(fs) \in Nat \ {0} /\ <<>> \in Seq(D)
  BY <1>1, EmptySeq DEF SameBelow
<1>4. last \in Seq(D)
  <2>1. Len(gs) \in 1 .. Len(gs)
    BY <1>1, <1>3 DEF SameBelow
  <2>2. gs[Len(gs)] \in Seq(D)
    BY <1>1, <2>1, ElementOfSeq
  <2> QED
    BY <1>1, <1>3, <2>2
<1>5. ps \in Seq(Seq(D)) /\ ps # <<>>
  <2>1. ps \in Seq(Seq(D)) /\ Len(ps) = Len(fs) + 1
    BY <1>1 DEF AppendOf, SameBelow
  <2> QED
    BY <1>3, <2>1, EmptySeq
<1>6. WaitsOf(w, D, fs, es, m) /\ WaitsOf(x, D, ps, hs, o)
  BY <1>1, <1>5, WaitElements, Zenon
<1>7. w \in Seq(Seq(D)) /\ w # <<>>
  BY <1>6 DEF WaitsOf
<1>8. ChangeOf(t, Seq(D), w, last)
  BY <1>2, <1>4, <1>7, Changes, Zenon
<1>9. AppendOf(x, Seq(D), t, <<>>)
  BY <1>1, <1>3, <1>6, <1>8, WaitsPush, Zenon
<1>20. t \in Seq(Seq(D))
  BY <1>8 DEF ChangeOf
<1>21. x = Append(t, <<>>)
  BY <1>3, <1>9, <1>20, IsAppend, Zenon
<1> QED
  BY <1>2, <1>21, Zenon

LEMMA WaitsPop ==
  ASSUME NEW D, NEW fs, NEW gs, Len(fs) \in Nat \ {0}, FrontOf(gs, Seq(D), fs),
         NEW es, NEW hs, NEW m, NEW o, NEW w, NEW x, Len(gs) # 0,
         WaitsOf(w, D, fs, es, m), WaitsOf(x, D, gs, hs, o),
         o \in {"tailed", "return"} <=> SiteIn(es, Len(fs)) = "tail",
         \A i \in 1 .. Len(fs) - 1 : SiteIn(hs, i) = SiteIn(es, i)
  PROVE  FrontOf(x, Seq(D), w)
<1>1. Len(gs) = Len(fs) - 1 /\ \A i \in 1 .. Len(fs) - 1 : gs[i] = fs[i]
  BY DEF FrontOf
<1>2. ASSUME NEW i \in 1 .. Len(gs) PROVE x[i] = w[i]
  <2>1. i \in 1 .. Len(fs) - 1
    BY <1>1
  <2>2. CASE i = Len(gs)
    <3>1. i + 1 = Len(fs) /\ gs[Len(gs)] = fs[i]
      BY <1>1, <2>1, <2>2
    <3>2. x[i] = IF o \in {"tailed", "return"} THEN <<>> ELSE gs[Len(gs)]
      BY <2>2 DEF LastWait, WaitsOf
    <3>3. w[i] = IF SiteIn(es, i + 1) = "tail" THEN <<>> ELSE fs[i]
      BY <2>1 DEF WaitsOf
    <3> QED
      BY <3>1, <3>2, <3>3
  <2>3. CASE i # Len(gs)
    <3>1. i \in 1 .. Len(gs) - 1 /\ i + 1 \in 1 .. Len(fs) - 1
      BY <1>1, <2>1, <2>3
    <3>2. SiteIn(hs, i + 1) = SiteIn(es, i + 1) /\ gs[i] = fs[i]
      BY <1>1, <2>1, <3>1
    <3> QED
      BY <2>1, <3>1, <3>2 DEF WaitsOf
  <2> QED
    BY <2>2, <2>3
<1> QED
  BY <1>1, <1>2 DEF WaitsOf, FrontOf

LEMMA WaitsPopped ==
  ASSUME NEW D, NEW fs \in Seq(Seq(D)), fs # <<>>, NEW es, NEW hs, NEW m, NEW o,
         o \in {"tailed", "return"} <=> SiteIn(es, Len(fs)) = "tail",
         SameSitesTo(Len(fs) - 1, hs, es),
         NEW gs, gs = Front(fs), NEW w, w = WaitSeq(fs, es, m), NEW x, x = WaitSeq(gs, hs, o)
  PROVE  x = Front(w)
<1>1. FrontOf(gs, Seq(D), fs) /\ Len(fs) \in Nat \ {0} /\ Len(gs) \in Nat
  <2>1. FrontOf(gs, Seq(D), fs)
    BY Fronts, Zenon
  <2> QED
    BY <2>1, EmptySeq, LenProperties DEF FrontOf
<1>2. gs \in Seq(Seq(D)) /\ Len(gs) = Len(fs) - 1
  BY <1>1 DEF FrontOf
<1>3. WaitsOf(w, D, fs, es, m)
  BY WaitElements, Zenon
<1>4. FrontOf(x, Seq(D), w)
  <2>1. CASE Len(gs) # 0
    <3>1. gs # <<>>
      BY <2>1, EmptySeq
    <3>2. WaitsOf(x, D, gs, hs, o)
      BY <1>2, <3>1, WaitElements, Zenon
    <3> QED
      BY <1>1, <1>3, <2>1, <3>2, WaitsPop DEF SameSitesTo
  <2>2. CASE Len(gs) = 0
    <3>1. x = [i \in 1 .. 0 |-> IF GaveUpIn(gs, hs, o, i) THEN <<>> ELSE gs[i]]
      BY <2>2 DEF WaitSeq
    <3>2. x \in Seq(Seq(D)) /\ Len(x) = 0
      BY <3>1, EmptySeq, IsASeq, LenProperties
    <3>3. Len(w) = 1
      BY <1>1, <1>2, <1>3, <2>2 DEF WaitsOf
    <3> QED
      BY <3>2, <3>3 DEF FrontOf
  <2> QED
    BY <2>1, <2>2
<1>5. w \in Seq(Seq(D)) /\ w # <<>>
  BY <1>3 DEF WaitsOf
<1> QED
  BY <1>4, <1>5, IsFront, Zenon
------------------------------------------------------------------------------
(***************************************************************************)
(* The stack of activations in a state of the VM, and after a step.        *)
(***************************************************************************)
Going == mode \in {"run", "drain", "return", "tailed"}

LEMMA StackNow ==
  ASSUME IInv, Going
  PROVE  /\ ~ Ended
         /\ Kinds = KindSeq(execs, Len(frames))
         /\ Waiting = WaitSeq(frames, execs, mode)
<1>1. ~ Ended /\ Live = frames
  BY DEF Going, Ended, Live
<1>2. DOMAIN frames = 1 .. Len(frames)
  BY FramesNow, LenProperties
<1>3. Kinds = KindSeq(execs, Len(frames))
  BY <1>1, <1>2 DEF Kinds, KindSeq, Site, SiteIn
<1>4. Waiting = WaitSeq(frames, execs, mode)
  BY <1>1, <1>2 DEF Waiting, WaitSeq, GaveUp, GaveUpIn, Site, SiteIn
<1> QED
  BY <1>1, <1>3, <1>4

LEMMA StackNext ==
  ASSUME IInv', Going'
  PROVE  /\ ~ Ended'
         /\ Kinds' = KindSeq(execs', Len(frames'))
         /\ Waiting' = WaitSeq(frames', execs', mode')
<1>1. ~ Ended' /\ Live' = frames'
  BY DEF Going, Ended, Live
<1>2. DOMAIN frames' = 1 .. Len(frames')
  <2>1. frames' \in Seq(Seq(1 .. MaxDefers))
    BY DEF IInv, FrameInv
  <2> QED
    BY <2>1, LenProperties
<1>3. Kinds' = KindSeq(execs', Len(frames'))
  BY <1>1, <1>2 DEF Kinds, KindSeq, Site, SiteIn
<1>4. Waiting' = WaitSeq(frames', execs', mode')
  BY <1>1, <1>2 DEF Waiting, WaitSeq, GaveUp, GaveUpIn, Site, SiteIn
<1> QED
  BY <1>1, <1>3, <1>4

\* When the program does not run, or has failed, there is none.
LEMMA NoElements ==
  ASSUME NEW f, DOMAIN f = {}, f = [i \in DOMAIN f |-> f[i]]
  PROVE  f = <<>>
  BY EmptySeq

LEMMA NoStackNow ==
  ASSUME mode \in {"idle", "error", "fail", "tailfail"}
  PROVE  Kinds = <<>> /\ Waiting = <<>>
<1>1. Live = <<>> /\ DOMAIN <<>> = {}
  BY DEF Live
<1> QED
  BY <1>1, NoElements DEF Kinds, Waiting

LEMMA NoStackNext ==
  ASSUME mode' \in {"idle", "error", "fail", "tailfail"}
  PROVE  Kinds' = <<>> /\ Waiting' = <<>>
<1>1. Live' = <<>> /\ DOMAIN <<>> = {}
  BY DEF Live
<1> QED
  BY <1>1, NoElements DEF Kinds, Waiting

\* What the activation that runs has deferred.
LEMMA DeferredNow ==
  ASSUME IInv, Going
  PROVE  /\ Plain!Deferred = LastWait(frames, mode)
         /\ mode \in {"run", "drain"} => Plain!Deferred = Pending
         /\ mode \in {"return", "tailed"} => Plain!Deferred = <<>>
<1>1. /\ frames \in Seq(Seq(Numbers)) /\ frames # <<>>
      /\ Waiting = WaitSeq(frames, execs, mode)
  BY FramesNow, StackNow
<1>2. WaitsOf(Waiting, Numbers, frames, execs, mode)
  BY <1>1, WaitElements
<1>3. Waiting \in Seq(Seq(Numbers)) /\ Waiting # <<>> /\ Len(Waiting) = Len(frames)
      /\ Waiting[Len(frames)] = LastWait(frames, mode)
  BY <1>2 DEF WaitsOf
<1>4. Plain!Deferred = LastWait(frames, mode)
  BY <1>3 DEF Plain!Deferred, Plain!Last
<1>5. Pending = frames[Len(frames)]
  BY <1>1 DEF Pending, Last
<1> QED
  BY <1>4, <1>5 DEF LastWait

\* Steps that keep the frames and loops.
LEMMA StackKept ==
  ASSUME IInv, IInv', Going, Going', SameLoops(execs', execs),
         SameBelow(frames', frames)
  PROVE  /\ Kinds' = Kinds
         /\ Waiting' = Plain!SetDeferred(LastWait(frames', mode'))
         /\ LastWait(frames', mode') = LastWait(frames, mode) => Waiting' = Waiting
<1>1. /\ ~ Ended /\ frames \in Seq(Seq(Numbers)) /\ frames # <<>>
      /\ Kinds = KindSeq(execs, Len(frames)) /\ Waiting = WaitSeq(frames, execs, mode)
  BY FramesNow, StackNow
<1>2. /\ frames' \in Seq(Seq(Numbers))
      /\ Kinds' = KindSeq(execs', Len(frames')) /\ Waiting' = WaitSeq(frames', execs', mode')
  BY StackNext DEF IInv, FrameInv, Numbers
<1>3. /\ execs \in Seq(Exec) /\ execs' \in Seq(Exec) /\ execs # <<>> /\ Nested(execs)
  BY <1>1 DEF IInv, LoopInv
<1>4. \A i : SiteIn(execs', i) = SiteIn(execs, i)
  BY <1>3, SameSites
<1>5. Len(frames) \in Nat
  BY <1>1, LenProperties
<1>6. Kinds' = Kinds
  BY <1>1, <1>2, <1>3, <1>4, <1>5, KindsKept DEF SameBelow
<1>7. Waiting' = Append(Front(Waiting), LastWait(frames', mode'))
  <2>1. SameSitesTo(Len(frames), execs', execs)
    BY <1>4 DEF SameSitesTo
  <2> QED
    BY <1>1, <1>2, <2>1, WaitsSet
<1>8. ASSUME LastWait(frames', mode') = LastWait(frames, mode) PROVE Waiting' = Waiting
  <2>1. SameBelow(frames, frames) /\ SameSitesTo(Len(frames), execs, execs)
    BY DEF SameBelow, SameSitesTo
  <2>2. Waiting = Append(Front(Waiting), LastWait(frames, mode))
    BY <1>1, <2>1, WaitsSet
  <2> QED
    BY <1>7, <1>8, <2>2
<1> QED
  BY <1>6, <1>7, <1>8 DEF Plain!SetDeferred, Plain!Front, Front

\* Steps that start a call, with gs below it.
LEMMA StackPushed ==
  ASSUME IInv, IInv', Going, Going', mode' = "run",
         NEW gs \in Seq(Seq(Numbers)), AppendOf(frames', Seq(Numbers), gs, <<>>), SameBelow(gs, frames),
         SameSitesTo(Len(frames), execs', execs),
         NEW site, site = SiteIn(execs', Len(frames) + 1),
         NEW last, last = IF site = "tail" THEN <<>> ELSE gs[Len(gs)]
  PROVE  Plain!Push(site, Plain!SetDeferred(last))
<1>1. /\ frames \in Seq(Seq(Numbers)) /\ frames # <<>>
      /\ Kinds = KindSeq(execs, Len(frames)) /\ Waiting = WaitSeq(frames, execs, mode)
  BY FramesNow, StackNow
<1>2. Len(frames) \in Nat /\ Len(frames') = Len(frames) + 1
  BY <1>1, LenProperties DEF AppendOf, SameBelow
<1>3. Kinds' = KindSeq(execs', Len(frames) + 1) /\ Waiting' = WaitSeq(frames', execs', "run")
  BY <1>2, StackNext
<1>4. execs \in Seq(Exec) /\ execs' \in Seq(Exec)
  BY DEF IInv
<1>5. Kinds' = Append(Kinds, site)
  BY <1>1, <1>2, <1>3, <1>4, KindsPushed DEF SameSitesTo
<1>6. Waiting' = Append(Append(Front(Waiting), last), <<>>)
  <2>1. last = IF SiteIn(execs', Len(frames) + 1) = "tail" THEN <<>> ELSE gs[Len(gs)]
    OBVIOUS
  <2>2. "run" \notin {"tailed", "return"}
    OBVIOUS
  <2>3. PushedOn(Numbers, frames, gs, frames', execs, execs', last)
    BY <1>1, <2>1 DEF PushedOn
  <2>4. \A w, x : /\ w = WaitSeq(frames, execs, mode)
                  /\ x = WaitSeq(frames', execs', "run")
                  => x = Append(Append(Front(w), last), <<>>)
    BY <2>2, <2>3, WaitsPushed
  <2> QED
    BY <1>1, <1>3, <2>4
<1> QED
  BY <1>5, <1>6 DEF Plain!Push, Plain!SetDeferred, Plain!Front, Front

\* Steps that end one.
LEMMA StackPopped ==
  ASSUME IInv, IInv', Going, Going', frames' = Front(frames),
         mode' = "tailed" <=> SiteIn(execs, Len(frames)) = "tail", mode' # "return",
         SameSitesTo(Len(frames) - 1, execs', execs)
  PROVE  /\ Kinds' = Plain!Front(Kinds) /\ Waiting' = Plain!Front(Waiting)
         /\ Plain!Last(Kinds) = SiteIn(execs, Len(frames))
<1>1. /\ frames \in Seq(Seq(Numbers)) /\ frames # <<>>
      /\ Kinds = KindSeq(execs, Len(frames)) /\ Waiting = WaitSeq(frames, execs, mode)
  BY FramesNow, StackNow
<1>2. Len(frames) \in Nat \ {0} /\ Len(frames') = Len(frames) - 1
  BY <1>1, FrontLast
<1>3. Kinds' = KindSeq(execs', Len(frames) - 1) /\ Waiting' = WaitSeq(frames', execs', mode')
  BY <1>2, StackNext
<1>4. execs \in Seq(Exec) /\ execs' \in Seq(Exec)
  BY DEF IInv
<1>5. Kinds' = Front(Kinds) /\ Last(Kinds) = SiteIn(execs, Len(frames))
  BY <1>1, <1>2, <1>3, <1>4, KindsPopped DEF SameSitesTo
<1>6. Waiting' = Front(Waiting)
  BY <1>1, <1>3, WaitsPopped
<1> QED
  BY <1>5, <1>6 DEF Plain!Front, Plain!Last, Front, Last
------------------------------------------------------------------------------
(***************************************************************************)
(* The sites before and after a step.                                      *)
(***************************************************************************)

\* The last loop begins at its first frame, and none above it.
LEMMA TopSites ==
  ASSUME IInv, ~ Ended
  PROVE  /\ SiteIn(execs, Top.initial) = Top.site
         /\ \A i \in Nat : i > Top.initial => SiteIn(execs, i) = "call"
<1>1. execs \in Seq(Exec) /\ execs # <<>> /\ Nested(execs)
  BY DEF IInv, LoopInv
<1>2. Len(execs) \in 1 .. Len(execs) /\ Top = execs[Len(execs)]
  <2>1. Len(execs) \in Nat \ {0} /\ Last(execs) = execs[Len(execs)]
    BY <1>1, FrontLast
  <2> QED
    BY <2>1 DEF Top
<1>3. SiteIn(execs, Top.initial) = Top.site
  BY <1>1, <1>2, SiteOf
<1>4. ASSUME NEW i \in Nat, i > Top.initial PROVE SiteIn(execs, i) = "call"
  <2>1. \A e \in 1 .. Len(execs) : execs[e].initial # i
    BY <1>4, InitialBounds
  <2> QED
    BY <1>1, <2>1, SiteCases
<1> QED
  BY <1>3, <1>4

LEMMA SitesKept ==
  ASSUME IInv, ~ Ended, SameLoops(execs', execs), NEW n
  PROVE  SameSitesTo(n, execs', execs)
<1>1. execs \in Seq(Exec) /\ execs # <<>> /\ Nested(execs)
  BY DEF IInv, LoopInv
<1> QED
  BY <1>1, SameSites DEF SameSitesTo

\* A nested call.
LEMMA NestSites ==
  ASSUME IInv, IInv', ~ Ended, ~ Ended', Len(frames) < MaxFrames,
         NEW site \in {"call", "tail", "deferred"},
         NEW gs \in Seq(Seq(Numbers)), Len(gs) = Len(frames), Nest(site, gs)
  PROVE  /\ SameSitesTo(Len(frames), execs', execs)
         /\ SiteIn(execs', Len(frames) + 1) = site
         /\ AppendOf(frames', Seq(Numbers), gs, <<>>)
<1>1. PICK es \in MayMove :
        execs' = Append(es, [initial |-> Len(gs) + 1, site |-> site, regs |-> "current"])
  BY DEF Nest
<1>2. PICK e : e = [initial |-> Len(gs) + 1, site |-> site, regs |-> "current"]
  OBVIOUS
<1>3. /\ execs \in Seq(Exec) /\ execs # <<>> /\ Nested(execs)
      /\ execs' \in Seq(Exec) /\ execs' # <<>> /\ Nested(execs') /\ Len(frames) \in Nat
  BY FramesNow, LenProperties DEF IInv, LoopInv
<1>4. SameLoops(es, execs)
  BY <1>3, MayMoveSame
<1>5. es \in Seq(Exec)
  BY <1>4 DEF SameLoops
<1>6. e \in Exec /\ e.initial = Len(frames) + 1 /\ e.site = site
  <2>1. Len(gs) + 1 \in 1 .. MaxFrames
    <3>1. Len(gs) \in Nat /\ Len(gs) < MaxFrames
      BY <1>3
    <3> QED
      BY <3>1, VmCallsAssumption
  <2> QED
    BY <1>2, <2>1 DEF Exec
<1>7. AppendOf(execs', Exec, es, e)
  BY <1>1, <1>2, <1>5, <1>6, Appends
<1>8. /\ Len(execs') \in 1 .. Len(execs') /\ Last(execs') = e /\ execs'[Len(execs')] = e
      /\ Len(es) = Len(execs') - 1 /\ \A j \in 1 .. Len(es) : execs'[j] = es[j]
  <2>1. Len(execs') \in Nat \ {0} /\ Len(es) \in Nat /\ Last(execs') = execs'[Len(execs')]
    BY <1>3, <1>5, FrontLast, LenProperties
  <2> QED
    BY <1>7, <2>1 DEF AppendOf
<1>9. SiteIn(execs', Len(frames) + 1) = site
  <2>1. SiteIn(execs', execs'[Len(execs')].initial) = execs'[Len(execs')].site
    BY <1>3, <1>8, SiteOf
  <2> QED
    BY <1>6, <1>8, <2>1
<1>10. ASSUME NEW i \in 1 .. Len(frames) PROVE SiteIn(execs', i) = SiteIn(execs, i)
  <2>1. i # Last(execs').initial
    BY <1>3, <1>6, <1>8
  <2>2. SiteIn(es, i) = SiteIn(execs', i)
    BY <1>3, <1>5, <1>8, <2>1, BelowSites
  <2> QED
    BY <1>3, <1>4, <2>2, SameSites
<1>11. AppendOf(frames', Seq(Numbers), gs, <<>>)
  <2>1. <<>> \in Seq(Numbers) /\ frames' = Append(gs, <<>>)
    BY EmptySeq DEF Nest
  <2> QED
    BY <2>1, Appends
<1> QED
  BY <1>9, <1>10, <1>11 DEF SameSitesTo

\* The end of one.
LEMMA EndSites ==
  ASSUME IInv, ~ Ended, Top.site # "top", EndLoop, Len(frames) = Top.initial
  PROVE  SameSitesTo(Len(frames) - 1, execs', execs)
<1>1. execs \in Seq(Exec) /\ execs # <<>> /\ Nested(execs) /\ Len(frames) \in Nat
  BY FramesNow, LenProperties DEF IInv, LoopInv
<1>2. PICK below : below = Front(execs)
  OBVIOUS
<1>3. /\ below \in Seq(Exec) /\ Len(execs) \in Nat \ {0} /\ Len(below) = Len(execs) - 1
      /\ \A i \in 1 .. Len(execs) - 1 : below[i] = execs[i]
      /\ Top = execs[Len(execs)] /\ Top = Last(execs)
  BY <1>1, <1>2, FrontLast DEF Top
<1>4. Len(execs) # 1
  BY <1>1, <1>3 DEF Nested
<1>5. below # <<>>
  BY <1>3, <1>4, EmptySeq
<1>6. SameLoops(below, below) /\ SameLoops(Loaded(below), below)
  BY <1>3, <1>5, LoadedSame DEF SameLoops
<1>7. SameLoops(execs', below)
  BY <1>2, <1>6 DEF EndLoop
<1>8. /\ execs' \in Seq(Exec) /\ Len(execs') = Len(execs) - 1
      /\ \A e \in 1 .. Len(execs') :
           execs'[e].initial = execs[e].initial /\ execs'[e].site = execs[e].site
  BY <1>3, <1>7 DEF SameLoops
<1>9. ASSUME NEW i \in 1 .. Len(frames) - 1 PROVE SiteIn(execs', i) = SiteIn(execs, i)
  <2>1. i # Last(execs).initial
    BY <1>1, <1>3
  <2> QED
    BY <1>1, <1>8, <2>1, BelowSites
<1> QED
  BY <1>9 DEF SameSitesTo
------------------------------------------------------------------------------
(***************************************************************************)
(* Every step of the VM is a step of the stack of activations, or none.    *)
(***************************************************************************)

\* What the activation that runs has deferred is left as it is.
LEMMA SetSame ==
  ASSUME IInv, Going
  PROVE  Plain!SetDeferred(Plain!Deferred) = Waiting
<1>1. /\ frames \in Seq(Seq(Numbers)) /\ frames # <<>>
      /\ Waiting = WaitSeq(frames, execs, mode)
  BY FramesNow, StackNow
<1>2. SameBelow(frames, frames) /\ SameSitesTo(Len(frames), execs, execs)
  BY DEF SameBelow, SameSitesTo
<1>3. Waiting = Append(Front(Waiting), LastWait(frames, mode))
  BY <1>1, <1>2, WaitsSet
<1> QED
  BY <1>3, DeferredNow DEF Plain!SetDeferred, Plain!Front, Front

LEMMA LastPending ==
  ASSUME IInv, ~ Ended
  PROVE  /\ Pending = frames[Len(frames)] /\ Pending \in Seq(Numbers)
         /\ frames \in Seq(Seq(Numbers)) /\ Len(frames) \in Nat \ {0}
  BY FramesNow, FrontLast DEF Pending

\* The frames with other deferred calls in the last.
LEMMA PendingSet ==
  ASSUME IInv, ~ Ended, NEW ds \in Seq(Numbers)
  PROVE  /\ SetPending(ds) \in Seq(Seq(Numbers)) /\ SameBelow(SetPending(ds), frames)
         /\ Len(SetPending(ds)) = Len(frames) /\ SetPending(ds)[Len(frames)] = ds
<1>1. frames \in Seq(Seq(Numbers)) /\ Len(frames) \in 1 .. Len(frames)
  BY LastPending
<1>2. PICK gs : gs = SetPending(ds)
  OBVIOUS
<1>3. /\ gs \in Seq(Seq(Numbers)) /\ Len(gs) = Len(frames)
      /\ \A i \in 1 .. Len(frames) : gs[i] = IF i = Len(frames) THEN ds ELSE frames[i]
  BY <1>1, <1>2, ExceptSeq DEF SetPending
<1>4. \A i \in 1 .. Len(frames) - 1 : i \in 1 .. Len(frames) /\ i # Len(frames)
  BY <1>1
<1> QED
  BY <1>1, <1>2, <1>3, <1>4 DEF SameBelow

\* Calls.
LEMMA CallIsCall ==
  ASSUME IInv, IInv', InlineCall \/ NestedCall
  PROVE  Plain!Call
<1>1. /\ mode = "run" /\ mode' = "run" /\ ~ Ended /\ ~ Ended' /\ Going /\ Going'
      /\ Len(frames) < MaxFrames /\ ran' = ran
  BY DEF InlineCall, NestedCall, Nest, Ended, Going
<1>2. Plain!Deferred = Pending
  BY <1>1, DeferredNow
<1>3. /\ Pending = frames[Len(frames)] /\ frames \in Seq(Seq(Numbers))
      /\ Len(frames) \in Nat \ {0} /\ SameBelow(frames, frames)
  BY <1>1, LastPending DEF SameBelow
<1>4. /\ SameSitesTo(Len(frames), execs', execs)
      /\ SiteIn(execs', Len(frames) + 1) = "call"
      /\ AppendOf(frames', Seq(Numbers), frames, <<>>)
  <2>1. CASE NestedCall
    BY <1>1, <1>3, <2>1, NestSites DEF NestedCall
  <2>2. CASE InlineCall
    <3>1. SameLoops(execs', execs)
      BY <2>2, WithinLoopSame DEF WithinLoop
    <3>2. SameSitesTo(Len(frames), execs', execs) /\ SameSitesTo(Len(frames) + 1, execs', execs)
      BY <1>1, <3>1, SitesKept
    <3>3. SiteIn(execs, Len(frames) + 1) = "call"
      <4>1. Len(frames) + 1 \in Nat /\ Len(frames) + 1 > Top.initial
        BY <1>1, <1>3, Running DEF IInv, LoopInv
      <4> QED
        BY <1>1, <4>1, TopSites
    <3>4. Len(frames) + 1 \in 1 .. Len(frames) + 1
      BY <1>3
    <3>5. frames' = Append(frames, <<>>) /\ <<>> \in Seq(Numbers)
      BY <2>2, EmptySeq DEF InlineCall
    <3>6. AppendOf(frames', Seq(Numbers), frames, <<>>)
      BY <1>3, <3>5, Appends
    <3> QED
      BY <3>2, <3>3, <3>4, <3>6 DEF SameSitesTo
  <2> QED
    BY <2>1, <2>2
<1>5. Plain!Push("call", Plain!SetDeferred(Plain!Deferred))
  <2>1. Plain!Deferred = IF "call" = "tail" THEN <<>> ELSE frames[Len(frames)]
    BY <1>2, <1>3
  <2> QED
    BY <1>1, <1>3, <1>4, <2>1, StackPushed
<1> QED
  BY <1>1, <1>5, SetSame DEF Plain!Call, Status

LEMMA TailIsTail ==
  ASSUME IInv, IInv', TailCall
  PROVE  Plain!TailCall
<1>1. /\ mode = "run" /\ mode' = "run" /\ ~ Ended /\ ~ Ended' /\ Going /\ Going'
      /\ Len(frames) < MaxFrames /\ ran' = ran /\ Nest("tail", frames)
  BY DEF TailCall, Nest, Ended, Going
<1>2. frames \in Seq(Seq(Numbers)) /\ SameBelow(frames, frames)
  BY <1>1, LastPending DEF SameBelow
<1>3. /\ SameSitesTo(Len(frames), execs', execs)
      /\ SiteIn(execs', Len(frames) + 1) = "tail"
      /\ AppendOf(frames', Seq(Numbers), frames, <<>>)
  BY <1>1, <1>2, NestSites
<1>4. Plain!Push("tail", Plain!SetDeferred(<<>>))
  <2>1. <<>> = IF "tail" = "tail" THEN <<>> ELSE frames[Len(frames)]
    OBVIOUS
  <2> QED
    BY <1>1, <1>2, <1>3, <2>1, StackPushed
<1> QED
  BY <1>1, <1>4 DEF Plain!TailCall, Status

\* A deferred call that is not native.
LEMMA DrainCallIsRun ==
  ASSUME IInv, IInv', DrainCall
  PROVE  Plain!RunDeferredCall
<1> DEFINE gs == SetPending(Front(Pending))
<1>1. /\ mode = "drain" /\ mode' = "run" /\ ~ Ended /\ ~ Ended' /\ Going /\ Going'
      /\ Len(frames) < MaxFrames /\ Nest("deferred", gs)
      /\ Pending # <<>> /\ ran' = Append(ran, Last(Pending))
  BY DEF DrainCall, Nest, Ended, Going
<1>2. Plain!Deferred = Pending /\ Pending \in Seq(Numbers)
  BY <1>1, DeferredNow, LastPending
<1>3. Front(Pending) \in Seq(Numbers)
  BY <1>1, <1>2, FrontLast
<1>4. /\ gs \in Seq(Seq(Numbers)) /\ SameBelow(gs, frames)
      /\ Len(gs) = Len(frames) /\ gs[Len(gs)] = Front(Pending)
  BY <1>1, <1>3, PendingSet
<1> HIDE DEF gs
<1>5. /\ SameSitesTo(Len(frames), execs', execs)
      /\ SiteIn(execs', Len(frames) + 1) = "deferred"
      /\ AppendOf(frames', Seq(Numbers), gs, <<>>)
  BY <1>1, <1>4, NestSites
<1>6. Plain!Push("deferred", Plain!SetDeferred(Front(Pending)))
  <2>1. Front(Pending) = IF "deferred" = "tail" THEN <<>> ELSE gs[Len(gs)]
    BY <1>4
  <2> QED
    BY <1>1, <1>4, <1>5, <2>1, StackPushed
<1>7. Status = "leaving" /\ Status' = "running"
  BY <1>1 DEF Status
<1> QED
  BY <1>1, <1>2, <1>6, <1>7 DEF Plain!RunDeferredCall, Plain!Front, Plain!Last, Front, Last

\* A native one.
LEMMA DrainNativeIsRun ==
  ASSUME IInv, IInv', DrainNative, mode' = "drain"
  PROVE  Plain!RunDeferredNative
<1>1. /\ mode = "drain" /\ ~ Ended /\ Going /\ Going' /\ Pending # <<>>
      /\ frames' = SetPending(Front(Pending)) /\ ran' = Append(ran, Last(Pending))
  BY DEF DrainNative, Ended, Going
<1>2. SameLoops(execs', execs)
  BY WithinLoopSame DEF WithinLoop
<1>3. Plain!Deferred = Pending /\ Pending \in Seq(Numbers)
  BY <1>1, DeferredNow, LastPending
<1>4. Front(Pending) \in Seq(Numbers)
  BY <1>1, <1>3, FrontLast
<1>5. /\ SameBelow(frames', frames)
      /\ Len(frames') = Len(frames) /\ frames'[Len(frames)] = Front(Pending)
  BY <1>1, <1>4, PendingSet
<1>6. LastWait(frames', mode') = Front(Pending)
  BY <1>5 DEF LastWait
<1>7. Kinds' = Kinds /\ Waiting' = Plain!SetDeferred(Front(Pending))
  BY <1>1, <1>2, <1>5, <1>6, StackKept
<1>8. Status = "leaving" /\ Status' = "leaving"
  BY <1>1 DEF Status
<1> QED
  BY <1>1, <1>3, <1>7, <1>8 DEF Plain!RunDeferredNative, Plain!Front, Plain!Last, Front, Last

LEMMA DeferIsDefer ==
  ASSUME IInv, IInv', Defer
  PROVE  \E d \in 1 .. MaxDefers : Plain!Defer(d)
<1> DEFINE d == deferCount + 1
<1>1. /\ mode = "run" /\ mode' = "run" /\ ~ Ended /\ Going /\ Going' /\ ran' = ran
      /\ frames' = SetPending(Append(Pending, d)) /\ deferCount < MaxDefers
  BY DEF Defer, Ended, Going
<1>2. d \in Numbers
  <2>1. deferCount \in Nat /\ deferCount < MaxDefers
    BY <1>1, FramesNow
  <2> QED
    BY <2>1, VmCallsAssumption DEF Numbers
<1> HIDE DEF d
<1>3. SameLoops(execs', execs)
  BY WithinLoopSame DEF WithinLoop
<1>4. Plain!Deferred = Pending /\ Pending \in Seq(Numbers)
  BY <1>1, DeferredNow, LastPending
<1>5. Append(Pending, d) \in Seq(Numbers)
  BY <1>2, <1>4, Appends DEF AppendOf
<1>6. /\ SameBelow(frames', frames)
      /\ Len(frames') = Len(frames) /\ frames'[Len(frames)] = Append(Pending, d)
  BY <1>1, <1>5, PendingSet
<1>7. LastWait(frames', mode') = Append(Pending, d)
  BY <1>1, <1>6 DEF LastWait
<1>8. Kinds' = Kinds /\ Waiting' = Plain!SetDeferred(Append(Pending, d))
  BY <1>1, <1>3, <1>6, <1>7, StackKept
<1>9. Plain!Defer(d)
  BY <1>1, <1>4, <1>8 DEF Plain!Defer, Status
<1> QED
  BY <1>2, <1>9 DEF Numbers

\* RETURN with deferred calls, or in the first frame of a loop.
LEMMA ReturnSlowIsLeaving ==
  ASSUME IInv, IInv', ReturnSlow
  PROVE  Plain!BeginLeaving
<1>1. /\ mode = "run" /\ mode' = "drain" /\ Going /\ Going' /\ ran' = ran
      /\ frames' = frames
  BY DEF ReturnSlow, Going
<1>2. SameLoops(execs', execs) /\ SameBelow(frames', frames)
  BY <1>1, WithinLoopSame DEF WithinLoop, SameBelow
<1>3. LastWait(frames', mode') = LastWait(frames, mode)
  BY <1>1 DEF LastWait
<1>4. Kinds' = Kinds /\ Waiting' = Waiting
  BY <1>1, <1>2, <1>3, StackKept
<1> QED
  BY <1>1, <1>4 DEF Plain!BeginLeaving, Status

\* What shows nothing: work on the value stack, the way from the last deferred
\* call, or from a tail call, to the end of the loop.
LEMMA HiddenSteps ==
  ASSUME IInv, IInv', NativeCall \/ ((DrainDone \/ TailReturns) /\ ~ Inline)
  PROVE  UNCHANGED <<Kinds, Waiting, Status, ran>>
<1>1. /\ Going /\ Going' /\ frames' = frames /\ ran' = ran
      /\ \/ mode = "run" /\ mode' = "run"
         \/ mode = "drain" /\ mode' = "return" /\ Pending = <<>>
         \/ mode = "tailed" /\ mode' = "return"
  BY DEF NativeCall, DrainDone, TailReturns, EndInline, Going
<1>2. SameLoops(execs', execs) /\ SameBelow(frames', frames) /\ ~ Ended
  BY <1>1, WithinLoopSame DEF WithinLoop, SameBelow
<1>3. Pending = frames[Len(frames)]
  BY <1>2, LastPending
<1>4. LastWait(frames', mode') = LastWait(frames, mode)
  BY <1>1, <1>3 DEF LastWait
<1>5. Kinds' = Kinds /\ Waiting' = Waiting
  BY <1>1, <1>2, <1>4, StackKept
<1>6. Status' = Status
  BY <1>1 DEF Status
<1> QED
  BY <1>1, <1>5, <1>6
------------------------------------------------------------------------------
(***************************************************************************)
(* Failures and returns.                                                   *)
(***************************************************************************)

\* A failure ends the stack at once, whatever the VM has still to unwind.
LEMMA FailIsFail ==
  ASSUME IInv, Fail \/ FailInTail \/ FailInCall \/ DrainCallFails \/ DrainPushFails
                 \/ (DrainNative /\ mode' = "fail")
  PROVE  Plain!Fail
<1>1. /\ mode \in {"run", "drain"} /\ mode' \in {"fail", "tailfail"}
      /\ \/ ran' = ran
         \/ mode = "drain" /\ Pending # <<>> /\ ran' = Append(ran, Last(Pending))
  BY DEF Fail, FailInTail, FailInCall, DrainCallFails, DrainPushFails, DrainNative
<1>2. Status = IF mode = "run" THEN "running" ELSE "leaving"
  BY <1>1 DEF Status
<1>3. Status' = "failed"
  BY <1>1 DEF Status
<1>4. Kinds' = <<>> /\ Waiting' = <<>>
  BY <1>1, NoStackNext
<1>5. Plain!Deferred = Pending
  BY <1>1, DeferredNow DEF Going
<1> QED
  BY <1>1, <1>2, <1>3, <1>4, <1>5 DEF Plain!Fail, Plain!Last, Last

LEMMA UnwindIsHidden ==
  ASSUME LoopFails \/ TailFails \/ (Finish /\ mode = "fail")
  PROVE  UNCHANGED <<Kinds, Waiting, Status, ran>>
<1>1. /\ mode \in {"fail", "tailfail"} /\ mode' \in {"fail", "tailfail", "error"}
      /\ ran' = ran
  BY DEF LoopFails, TailFails, EndInline, Finish, accounts
<1>2. Kinds = <<>> /\ Waiting = <<>> /\ Kinds' = <<>> /\ Waiting' = <<>>
  BY <1>1, NoStackNow, NoStackNext
<1>3. Status = "failed" /\ Status' = "failed"
  BY <1>1 DEF Status
<1> QED
  BY <1>1, <1>2, <1>3

\* The end of an inline call, or of one that ended in a tail call.
LEMMA InlineReturns ==
  ASSUME IInv, IInv', ReturnInline \/ ((DrainDone \/ TailReturns) /\ Inline)
  PROVE  Plain!Return
<1>1. /\ mode \in {"run", "drain", "tailed"} /\ mode' = "run" /\ Inline
      /\ (mode \in {"run", "drain"} => Pending = <<>>)
      /\ frames' = Front(frames) /\ ran' = ran
  BY DEF ReturnInline, DrainDone, TailReturns, EndInline
<1>2. Going /\ Going' /\ ~ Ended
  BY <1>1 DEF Going, Ended
<1>3. SameLoops(execs', execs)
  BY WithinLoopSame DEF WithinLoop
<1>4. SameSitesTo(Len(frames) - 1, execs', execs)
  BY <1>2, <1>3, SitesKept
<1>5. SiteIn(execs, Len(frames)) = "call"
  <2>1. Len(frames) \in Nat /\ Len(frames) > Top.initial
    BY <1>1, <1>2, LastPending DEF Inline
  <2> QED
    BY <1>2, <2>1, TopSites
<1>6. /\ Kinds' = Plain!Front(Kinds) /\ Waiting' = Plain!Front(Waiting)
      /\ Plain!Last(Kinds) = "call"
  BY <1>1, <1>2, <1>4, <1>5, StackPopped
<1>7. Plain!Deferred = <<>>
  BY <1>1, <1>2, DeferredNow
<1>8. Status \in {"running", "leaving"} /\ Status' = "running"
  BY <1>1 DEF Status
<1> QED
  BY <1>1, <1>6, <1>7, <1>8 DEF Plain!Return

\* The end of a nested one: the frame that made the call goes on as its site
\* says.
LEMMA LoopReturnsReturns ==
  ASSUME IInv, IInv', LoopReturns
  PROVE  Plain!Return
<1>1. /\ mode = "return" /\ Top.site # "top" /\ EndLoop
      /\ frames' = Front(frames) /\ ran' = ran /\ ~ Ended /\ Going
      /\ mode' = CASE Top.site = "call" -> "run"
                   [] Top.site = "deferred" -> "drain"
                   [] Top.site = "tail" -> "tailed"
  BY DEF LoopReturns, PopFrame, Ended, Going
<1>2. Top.site \in {"call", "deferred", "tail"}
  BY <1>1, Running DEF Exec
<1>3. mode' \in {"run", "drain", "tailed"} /\ (mode' = "tailed" <=> Top.site = "tail")
      /\ (mode' = "run" <=> Top.site = "call")
  BY <1>1, <1>2
<1>4. Len(frames) = Top.initial
  BY <1>1 DEF IInv, LoopInv
<1>5. SiteIn(execs, Len(frames)) = Top.site
  BY <1>1, <1>4, TopSites
<1>6. SameSitesTo(Len(frames) - 1, execs', execs)
  BY <1>1, <1>4, EndSites
<1>7. Going'
  BY <1>3 DEF Going
<1>8. mode' = "tailed" <=> SiteIn(execs, Len(frames)) = "tail"
  BY <1>3, <1>5
<1>9. /\ Kinds' = Plain!Front(Kinds) /\ Waiting' = Plain!Front(Waiting)
      /\ Plain!Last(Kinds) = Top.site
  BY <1>1, <1>3, <1>5, <1>6, <1>7, <1>8, StackPopped
<1>10. Plain!Deferred = <<>>
  BY <1>1, DeferredNow
<1>11. Status = "leaving" /\ Status' = IF Top.site = "call" THEN "running" ELSE "leaving"
  BY <1>1, <1>2, <1>3 DEF Status
<1> QED
  BY <1>1, <1>2, <1>9, <1>10, <1>11 DEF Plain!Return

\* The end of the program's first function.
LEMMA FinishReturns ==
  ASSUME IInv, Finish, mode = "return"
  PROVE  Plain!Return
<1>1. /\ Top.site = "top" /\ mode' = "idle" /\ ran' = ran /\ ~ Ended /\ Going
      /\ execs \in Seq(Exec) /\ execs # <<>> /\ Nested(execs) /\ Len(frames) = Top.initial
  BY DEF Finish, Ended, Going, IInv, LoopInv
<1>2. Len(execs) = 1 /\ Top = execs[Len(execs)]
  <2>1. Len(execs) \in Nat \ {0} /\ Top = execs[Len(execs)]
    BY <1>1, FrontLast DEF Top
  <2>2. Len(execs) \notin 2 .. Len(execs)
    BY <1>1, <2>1 DEF Nested
  <2>3. Len(execs) = 1
    <3>1. PICK n : n = Len(execs)
      OBVIOUS
    <3>2. n \in Nat \ {0} /\ n \notin 2 .. n
      BY <2>1, <2>2, <3>1
    <3>3. n = 1
      BY <3>2
    <3> QED
      BY <3>1, <3>3
  <2> QED
    BY <2>1, <2>3
<1>3. Len(frames) = 1
  BY <1>1, <1>2 DEF Nested
<1>4. /\ frames \in Seq(Seq(Numbers)) /\ frames # <<>>
      /\ Kinds = KindSeq(execs, 1) /\ Waiting = WaitSeq(frames, execs, mode)
  BY <1>1, <1>3, FramesNow, StackNow
<1>5. SiteIn(execs, 1) = "top"
  BY <1>1, <1>3, TopSites
<1>6. Kinds \in Seq(Kind) /\ Len(Kinds) = 1 /\ Kinds[1] = "top"
  <2>1. 1 \in Nat /\ 1 \in 1 .. 1
    OBVIOUS
  <2> QED
    BY <1>1, <1>4, <1>5, <2>1, KindElements
<1>7. WaitsOf(Waiting, Numbers, frames, execs, mode)
  BY <1>4, WaitElements
<1>8. Waiting \in Seq(Seq(Numbers)) /\ Waiting # <<>> /\ Len(Waiting) = 1
  BY <1>3, <1>7 DEF WaitsOf
<1>9. Kinds' = <<>> /\ Waiting' = <<>>
  BY <1>1, NoStackNext
<1>10. Kinds' = Front(Kinds) /\ Last(Kinds) = "top"
  <2>1. <<>> \in Seq(Kind) /\ Len(<<>>) = 0 /\ Kinds # <<>>
    <3>1. <<>> \in Seq(Kind) /\ Len(<<>>) = 0
      BY EmptySeq
    <3> QED
      BY <1>6, <3>1
  <2>2. FrontOf(<<>>, Kind, Kinds)
    BY <1>6, <2>1 DEF FrontOf
  <2> QED
    BY <1>6, <1>9, <2>1, <2>2, IsFront DEF Last
<1>11. Waiting' = Front(Waiting)
  <2>1. <<>> \in Seq(Seq(Numbers)) /\ Len(<<>>) = 0
    BY EmptySeq
  <2>2. FrontOf(<<>>, Seq(Numbers), Waiting)
    BY <1>8, <2>1 DEF FrontOf
  <2> QED
    BY <1>8, <1>9, <2>2, IsFront
<1>12. Plain!Deferred = <<>>
  BY <1>1, DeferredNow
<1>13. Status = "leaving" /\ Status' = "done"
  BY <1>1 DEF Status
<1> QED
  BY <1>1, <1>10, <1>11, <1>12, <1>13
     DEF Plain!Return, Plain!Front, Plain!Last, Front, Last

\* The start of a program.
LEMMA ExecuteStarts ==
  ASSUME IInv', Execute
  PROVE  Plain!Start
<1>1. /\ mode \in {"idle", "error"} /\ mode' = "run" /\ Going' /\ ran' = <<>>
      /\ frames' = << <<>> >>
      /\ execs' = << [initial |-> 1, site |-> "top", regs |-> "current"] >>
  BY DEF Execute, Going
<1>2. Kinds' = KindSeq(execs', Len(frames')) /\ Waiting' = WaitSeq(frames', execs', mode')
  BY <1>1, StackNext
<1>3. /\ Len(frames') = 1 /\ frames'[1] = <<>>
      /\ Len(execs') = 1 /\ execs'[1].initial = 1 /\ execs'[1].site = "top"
  BY <1>1
<1>4. /\ execs' \in Seq(Exec) /\ Nested(execs')
      /\ frames' \in Seq(Seq(Numbers)) /\ frames' # <<>>
  <2>1. frames' # <<>>
    BY <1>1
  <2> QED
    BY <1>1, <2>1 DEF IInv, LoopInv, FrameInv, Ended, Numbers
<1>5. Kinds' = <<"top">>
  <2>1. SiteIn(execs', 1) = "top"
    <3>1. 1 \in 1 .. Len(execs')
      BY <1>3
    <3>2. SiteIn(execs', execs'[1].initial) = execs'[1].site
      BY <1>4, <3>1, SiteOf
    <3> QED
      BY <1>3, <3>2
  <2>2. /\ Kinds' \in Seq(Kind) /\ Len(Kinds') = 1 /\ \A i \in 1 .. 1 : Kinds'[i] = "top"
    <3>1. 1 \in Nat /\ \A i \in 1 .. 1 : i = 1
      OBVIOUS
    <3> QED
      BY <1>2, <1>3, <1>4, <2>1, <3>1, KindElements
  <2>3. /\ <<"top">> \in Seq(Kind) /\ Len(<<"top">>) = 1
        /\ \A i \in 1 .. 1 : <<"top">>[i] = "top"
    BY DEF Kind
  <2> QED
    BY <2>2, <2>3, SeqEqual
<1>6. Waiting' = << <<>> >>
  <2>1. WaitsOf(Waiting', Numbers, frames', execs', mode')
    BY <1>2, <1>4, WaitElements
  <2>2. Waiting' \in Seq(Seq(Numbers)) /\ Len(Waiting') = 1 /\ \A i \in 1 .. 1 : Waiting'[i] = <<>>
    <3>1. \A i \in 1 .. 1 : i = 1
      OBVIOUS
    <3> QED
      BY <1>1, <1>3, <2>1, <3>1 DEF WaitsOf, LastWait
  <2>3. /\ << <<>> >> \in Seq(Seq(Numbers)) /\ Len(<< <<>> >>) = 1
        /\ \A i \in 1 .. 1 : << <<>> >>[i] = <<>>
    <3>1. <<>> \in Seq(Numbers)
      BY EmptySeq
    <3> QED
      BY <3>1
  <2> QED
    BY <2>2, <2>3, SeqEqual
<1>7. Status \in {"done", "failed"} /\ Status' = "running"
  BY <1>1 DEF Status
<1> QED
  BY <1>1, <1>5, <1>6, <1>7 DEF Plain!Start
------------------------------------------------------------------------------
\* Whichever way each call is made, inline or in a new loop, and wherever a
\* failure is met, the VM is the plain stack of CallStack (regvm.c:1130,
\* vm.c:1005).
THEOREM VmIsCallStack == Spec => ImplementsCallStack
<1>1. Init => Plain!Init
  <2> SUFFICES ASSUME Init PROVE Plain!Init
    OBVIOUS
  <2>1. mode = "idle" /\ ran = <<>>
    BY DEF Init
  <2>2. Kinds = <<>> /\ Waiting = <<>>
    BY <2>1, NoStackNow
  <2>3. Status = "done"
    BY <2>1 DEF Status
  <2> QED
    BY <2>1, <2>2, <2>3 DEF Plain!Init
<1>2. IInv /\ IInv' /\ [Next]_vars => [Plain!Next]_(Plain!vars)
  <2> SUFFICES ASSUME IInv, IInv', [Next]_vars
               PROVE  Plain!Next \/ UNCHANGED <<Kinds, Waiting, Status, ran>>
    BY DEF Plain!vars
  <2>1. CASE UNCHANGED vars
    BY <2>1 DEF vars, Kinds, Waiting, Status, Live, GaveUp, Site
  <2>2. CASE Execute
    BY <2>2, ExecuteStarts DEF Plain!Next
  <2>3. CASE InlineCall \/ NestedCall \/ TailCall
    BY <2>3, CallIsCall, TailIsTail DEF Plain!Next
  <2>4. CASE Fail \/ FailInTail \/ FailInCall \/ DrainCallFails \/ DrainPushFails
    BY <2>4, FailIsFail DEF Plain!Next
  <2>5. CASE Defer
    BY <2>5, DeferIsDefer DEF Plain!Next
  <2>6. CASE NativeCall \/ DrainDone \/ TailReturns \/ ReturnInline
    BY <2>6, HiddenSteps, InlineReturns DEF Plain!Next
  <2>7. CASE ReturnSlow \/ DrainCall \/ LoopReturns
    BY <2>7, ReturnSlowIsLeaving, DrainCallIsRun, LoopReturnsReturns DEF Plain!Next
  <2>8. CASE DrainNative
    <3>1. mode' \in {"drain", "fail"}
      BY <2>8 DEF DrainNative
    <3> QED
      BY <2>8, <3>1, DrainNativeIsRun, FailIsFail DEF Plain!Next
  <2>9. CASE LoopFails \/ TailFails \/ Finish
    <3>1. Finish => mode \in {"return", "fail"}
      BY DEF Finish
    <3> QED
      BY <2>9, <3>1, UnwindIsHidden, FinishReturns DEF Plain!Next
  <2> QED
    BY <2>1, <2>2, <2>3, <2>4, <2>5, <2>6, <2>7, <2>8, <2>9 DEF Next, Work
<1> QED
  BY <1>1, <1>2, VmInvariance, PTL DEF Spec, ImplementsCallStack, Plain!Spec
==============================================================================
