------------------------------ MODULE MCSending ------------------------------
(* Sending on a small instance.                                              *)
EXTENDS Sending
=============================================================================
