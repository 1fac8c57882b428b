---------------------------- MODULE MCStreamPool ----------------------------
(* Small instances of StreamPool for TLC. *)
EXTENDS StreamPool, TLC

Symmetry == Permutations(Streams) \cup Permutations(Requests)
=============================================================================
