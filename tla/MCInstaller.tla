----------------------------- MODULE MCInstaller ----------------------------
(* Installer on a machine with one account and root, and two releases. *)
EXTENDS Installer
=============================================================================
