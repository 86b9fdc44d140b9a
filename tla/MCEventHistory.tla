--------------------------- MODULE MCEventHistory ---------------------------
(* EventHistory on small instances. *)
EXTENDS EventHistory, TLC

Symmetry == Permutations(Workers) \cup Permutations(Players)
=============================================================================
