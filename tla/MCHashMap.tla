------------------------------ MODULE MCHashMap ------------------------------
(* Instances of HashMap for TLC: two keys share a home slot in every table, *)
(* and one of the others starts at the last slot, so that probes wrap.      *)
EXTENDS HashMap

MCKeys == {"a", "b", "c", "d"}
MCHash == [k \in MCKeys |-> CASE k = "a" -> 3 [] k = "b" -> 3
                              [] k = "c" -> 7 [] k = "d" -> 4]
==============================================================================
