------------------------------ MODULE MCSvpnd -------------------------------
(* Svpnd with a few clients. *)
EXTENDS Svpnd
=============================================================================
