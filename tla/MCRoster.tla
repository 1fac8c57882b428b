----------------------------- MODULE MCRoster ------------------------------
(* Small instances of Roster for TLC. *)
EXTENDS Roster
=============================================================================
