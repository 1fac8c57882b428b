----------------------------- MODULE MCCheckin -----------------------------
(* Small instances of Checkin for TLC. *)
EXTENDS Checkin, TLC

\* Idle chooses no request, so that requests are interchangeable.
Symmetry == Permutations(Requests)
=============================================================================
