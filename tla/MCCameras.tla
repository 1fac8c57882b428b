----------------------------- MODULE MCCameras -----------------------------
(* A small instance of Cameras for TLC. *)
EXTENDS Cameras, TLC

Symmetry ==
  Permutations(Settings) \cup Permutations(Requests) \cup Permutations(Entries)
=============================================================================
