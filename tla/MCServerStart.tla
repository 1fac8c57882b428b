--------------------------- MODULE MCServerStart ---------------------------
(* A small instance of ServerStart for TLC. *)
EXTENDS ServerStart, TLC

Symmetry == Permutations(Processes) \cup Permutations(Pairs) \cup Permutations(Hosts)
=============================================================================
