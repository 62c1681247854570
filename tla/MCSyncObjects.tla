----------------------------- MODULE MCSyncObjects -----------------------------
(* Instances of SyncObjects for TLC. *)
EXTENDS SyncObjects, TLC

Symmetric == Permutations(Actors)
==============================================================================
