------------------------------ MODULE MCDaemon ------------------------------
(* Daemon on a few callers and connection objects. *)
EXTENDS Daemon
=============================================================================
