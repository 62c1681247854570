--------------------------- MODULE MCFfiCallbacks ---------------------------
(* Two script threads and one of foreign code share two slots. *)
EXTENDS FfiCallbacks

CONSTANTS s1, s2, n1, k1, r1, r2

MCSlots == 0..1
=============================================================================
