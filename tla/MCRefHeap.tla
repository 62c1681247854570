----------------------------- MODULE MCRefHeap -----------------------------
(* A heap of three addresses, one of which has room for two values. *)
EXTENDS RefHeap, TLC

CONSTANTS a, b, c

MCObjects == {a, b, c}
MCWidth == [o \in MCObjects |-> IF o = a THEN 2 ELSE 1]

\* b and c have the same width.
MCSymmetry == Permutations({b, c})
=============================================================================
