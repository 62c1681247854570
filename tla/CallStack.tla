------------------------------ MODULE CallStack ------------------------------
(***************************************************************************)
(* What the register VM promises about calls: a stack of activations, each *)
(* with the calls it has deferred.  An activation that returns first runs  *)
(* its deferred calls, the last one first, each at most once; a tail call  *)
(* gives its activation up, and whatever it had deferred; a failure ends   *)
(* everything.                                                             *)
(***************************************************************************)
EXTENDS Sequences, SequencesExt

CONSTANT Deferrable   \* the deferred calls a program can register

VARIABLES
  kinds,    \* what each activation is: "top", "call", "tail" or "deferred"
  waiting,  \* the calls each of them has deferred
  status,   \* "running", "leaving" (running what it deferred), "done", "failed"
  ran       \* the deferred calls that have been started, in order

vars == <<kinds, waiting, status, ran>>

Deferred == Last(waiting)
SetDeferred(ds) == Append(Front(waiting), ds)

Push(kind, below) ==
  /\ kinds' = Append(kinds, kind)
  /\ waiting' = Append(below, <<>>)

Init ==
  /\ kinds = <<>> /\ waiting = <<>>
  /\ status = "done"
  /\ ran = <<>>

Start ==
  /\ status \in {"done", "failed"}
  /\ kinds' = <<"top">> /\ waiting' = << <<>> >>
  /\ status' = "running"
  /\ ran' = <<>>

Call ==
  /\ status = "running"
  /\ Push("call", waiting)
  /\ UNCHANGED <<status, ran>>

TailCall ==
  /\ status = "running"
  /\ Push("tail", SetDeferred(<<>>))
  /\ UNCHANGED <<status, ran>>

Defer(d) ==
  /\ status = "running"
  /\ waiting' = SetDeferred(Append(Deferred, d))
  /\ UNCHANGED <<kinds, status, ran>>

BeginLeaving ==
  /\ status = "running"
  /\ status' = "leaving"
  /\ UNCHANGED <<kinds, waiting, ran>>

\* A deferred native function runs at once.
RunDeferredNative ==
  /\ status = "leaving" /\ Deferred # <<>>
  /\ ran' = Append(ran, Last(Deferred))
  /\ waiting' = SetDeferred(Front(Deferred))
  /\ UNCHANGED <<kinds, status>>

\* Any other is a call.
RunDeferredCall ==
  /\ status = "leaving" /\ Deferred # <<>>
  /\ ran' = Append(ran, Last(Deferred))
  /\ Push("deferred", SetDeferred(Front(Deferred)))
  /\ status' = "running"

\* The activation below goes on: it continues its code, its next deferred
\* call, or, when it ended in a tail call, its own return.
Return ==
  /\ status \in {"running", "leaving"} /\ Deferred = <<>>
  /\ kinds' = Front(kinds) /\ waiting' = Front(waiting)
  /\ status' = CASE Last(kinds) = "call" -> "running"
                 [] Last(kinds) \in {"deferred", "tail"} -> "leaving"
                 [] Last(kinds) = "top" -> "done"
  /\ UNCHANGED ran

\* The failing step may be the start of a deferred call.
Fail ==
  /\ status \in {"running", "leaving"}
  /\ kinds' = <<>> /\ waiting' = <<>>
  /\ status' = "failed"
  /\ \/ ran' = ran
     \/ status = "leaving" /\ Deferred # <<>> /\ ran' = Append(ran, Last(Deferred))

Next ==
  \/ Start \/ Call \/ TailCall \/ BeginLeaving
  \/ RunDeferredNative \/ RunDeferredCall \/ Return \/ Fail
  \/ \E d \in Deferrable : Defer(d)

Spec == Init /\ [][Next]_vars
==============================================================================
