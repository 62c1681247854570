------------------------------ MODULE KeyedMap -------------------------------
(***************************************************************************)
(* What a VIGIL map promises: a set of key-value pairs with at most one    *)
(* pair per key.  A set is a call that ends either with the pair stored or *)
(* with an out-of-memory error and the map as it was; remove, clear and    *)
(* free cannot fail.                                                       *)
(***************************************************************************)
CONSTANTS Keys, Values, NoCall

VARIABLES
  content,  \* the pairs of the map
  pending   \* the set call in progress, or NoCall

vars == <<content, pending>>

SetCall == [key : Keys, value : Values]

Without(pairs, k) == {p \in pairs : p[1] # k}

TypeOK ==
  /\ content \in SUBSET (Keys \X Values)
  /\ pending \in SetCall \cup {NoCall}

Init == content = {} /\ pending = NoCall

BeginSet ==
  /\ pending = NoCall
  /\ pending' \in SetCall
  /\ UNCHANGED content

CommitSet ==
  /\ pending # NoCall
  /\ content' = Without(content, pending.key)
                  \cup {<<pending.key, pending.value>>}
  /\ pending' = NoCall

FailSet ==
  /\ pending # NoCall
  /\ pending' = NoCall
  /\ UNCHANGED content

Remove ==
  /\ pending = NoCall
  /\ \E k \in Keys : content' = Without(content, k)
  /\ UNCHANGED pending

Empty ==
  /\ pending = NoCall
  /\ content' = {}
  /\ UNCHANGED pending

Next == BeginSet \/ CommitSet \/ FailSet \/ Remove \/ Empty

Spec == Init /\ [][Next]_vars
==============================================================================
