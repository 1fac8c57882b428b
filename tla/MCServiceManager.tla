-------------------------- MODULE MCServiceManager --------------------------
(* A small instance of ServiceManager for TLC. *)
EXTENDS ServiceManager, TLC
=============================================================================
