------------------------- MODULE MCClientController -------------------------
(* ClientController with bounded clicks. *)
EXTENDS ClientController
=============================================================================
