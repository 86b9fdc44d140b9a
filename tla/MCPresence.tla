----------------------------- MODULE MCPresence -----------------------------
(* Presence on small instances. *)
EXTENDS Presence, TLC

Symmetry == Permutations(Devices) \cup Permutations(Settings)
=============================================================================
