--------------------------- MODULE MCControlSocket ---------------------------
(* The process with a client, and another svpnd that comes and goes. *)
EXTENDS ControlSocket
=============================================================================
