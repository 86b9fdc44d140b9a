----------------------------- MODULE MCShutdown -----------------------------
(* Shutdown on small instances. *)
EXTENDS Shutdown, TLC

Symmetry == Permutations(Subs) \cup Permutations(Servers \ {Main})
=============================================================================
